-------------------------- MODULE SuperAdminsProofs --------------------------
(***************************************************************************)
(* What the deferred triggers do guarantee, for any number of users and of *)
(* concurrent administrative requests.                                     *)
(***************************************************************************)
EXTENDS SuperAdmins, TLAPS

\* Every step keeps the types.
LEMMA TypeStep == ASSUME TypeOK, [Next]_vars PROVE TypeOK'
<1> Empty \in Slot /\ Empty.step = "idle"
  BY DEF Empty, Slot, Steps, Statuses
<1> USE DEF TypeOK, Statuses, Steps
<1>1. ASSUME NEW u \in User, CreateUser(u) \/ Bootstrap(u) PROVE TypeOK'
  BY <1>1 DEF CreateUser, Bootstrap
<1>2. ASSUME NEW t \in Txn, NEW u \in User, Admit(t, u) PROVE TypeOK'
  <2>1. ASSUME NEW s \in Statuses
        PROVE  [Empty EXCEPT !.step = "admitted", !.user = u, !.to = s] \in Slot
    BY DEF Empty, Slot
  <2>2. ASSUME NEW k \in BOOLEAN
        PROVE  [Empty EXCEPT !.step = "admitted", !.user = u, !.op = "roles", !.keep = k] \in Slot
    BY DEF Empty, Slot
  <2>3. PICK slot \in Slot : slot.user = u /\ txn' = [txn EXCEPT ![t] = slot]
    BY <1>2, <2>1, <2>2 DEF Admit, Empty
  <2>4. QED
    BY <1>2, <2>3 DEF Admit
<1>3. ASSUME NEW t \in Txn, UpdateStatus(t) \/ CheckTriggers(t) PROVE TypeOK'
  BY <1>3 DEF UpdateStatus, CheckTriggers, Goto, At, Slot
<1>4. ASSUME NEW t \in Txn, DeleteRoles(t) \/ ResumeDelete(t) PROVE TypeOK'
  BY <1>4 DEF DeleteRoles, ResumeDelete, At, Slot
<1>5. ASSUME NEW t \in Txn, InsertRoles(t) PROVE TypeOK'
  <2>1. rowsUsed' \in Nat
    BY <1>5 DEF InsertRoles
  <2>2. txn' = [txn EXCEPT ![t].step = "replaced", ![t].seen = rowsUsed']
    BY <1>5 DEF InsertRoles
  <2>3. txn[t] \in Slot /\ txn[t].step # "idle"
    BY <1>5 DEF InsertRoles, At
  <2>4. DEFINE slot == [txn[t] EXCEPT !.step = "replaced", !.seen = rowsUsed']
  <2>5. slot \in Slot /\ slot.user = txn[t].user
    BY <2>1, <2>3 DEF Slot
  <2>6. txn' = [txn EXCEPT ![t] = slot]
    BY <2>2, <2>3 DEF Slot
  <2>7. QED
    <3> HIDE DEF slot
    <3> QED BY <1>5, <2>1, <2>3, <2>5, <2>6, ZenonT(60) DEF InsertRoles
<1>6. ASSUME NEW t \in Txn, Commit(t) PROVE TypeOK'
  <2>1. txn[t].user \in User
    BY <1>6 DEF Commit
  <2>2. status' \in [User -> Statuses \cup {"absent"}] /\ super' \in [User -> Nat]
    BY <1>6, <2>1 DEF Commit, StatusSeen, SuperSeen, Slot
  <2>3. txn' \in [Txn -> Slot] /\ \A q \in Txn : txn'[q].step # "idle" => txn'[q].user \in User
    <3>1. \A q \in Txn : [txn[q] EXCEPT !.stale = TRUE] \in Slot
      BY DEF Slot
    <3>2. \A q \in Txn : \/ txn'[q] = Empty
                        \/ txn'[q] = txn[q]
                        \/ (txn'[q] = [txn[q] EXCEPT !.stale = TRUE] /\ txn[q].step = "checked")
      <4>1. \A q \in Txn : txn'[q] = IF q = t THEN Empty
                   ELSE IF txn[q].step = "checked" THEN [txn[q] EXCEPT !.stale = TRUE]
                   ELSE txn[q]
        BY <1>6 DEF Commit
      <4>2. QED
        BY <4>1, Zenon
    <3>3. txn' = [q \in Txn |-> txn'[q]]
      BY <1>6 DEF Commit
    <3>4. \A q \in Txn : [txn[q] EXCEPT !.stale = TRUE].user = txn[q].user
      BY DEF Slot
    <3>5. QED
      <4>1. \A q \in Txn : txn'[q] \in Slot
        BY <3>1, <3>2
      <4>2. \A q \in Txn : txn'[q].step # "idle" => txn'[q].user \in User
        BY <3>2, <3>4
      <4>3. QED
        BY <4>1, <4>2, <3>3
  <2>4. QED
    BY <1>6, <2>2, <2>3 DEF Commit
<1>7. ASSUME NEW t \in Txn, Abort(t) PROVE TypeOK'
  BY <1>7 DEF Abort
<1>8. CASE UNCHANGED vars
  BY <1>8 DEF vars
<1>9. QED
  BY <1>1, <1>2, <1>3, <1>4, <1>5, <1>6, <1>7, <1>8 DEF Next, Request

\* Types of the two tables and of the transactions in flight.
THEOREM TypeCorrect == Spec => []TypeOK
<1>1. Init => TypeOK
  <2> SUFFICES ASSUME Init PROVE TypeOK
    OBVIOUS
  <2>1. Empty \in Slot
    BY DEF Empty, Slot, Steps, Statuses
  <2>2. QED
    BY <2>1 DEF Init, TypeOK, Statuses, Empty
<1>2. TypeOK /\ [Next]_vars => TypeOK'
  BY TypeStep
<1>3. QED
  BY <1>1, <1>2, PTL DEF Spec

-----------------------------------------------------------------------------
(* The inductive invariant.                                                *)

\* Only a role change deletes role rows, and it has then passed its DELETE.
HitByRoles ==
  \A t \in Txn : txn[t].hit => /\ txn[t].op = "roles"
                               /\ txn[t].step \in {"deleted", "replaced", "checked"}

\* A status change and a role change run statements of their own.
StepsFitOp ==
  \A t \in Txn : /\ txn[t].step = "updated" => txn[t].op = "status"
                 /\ txn[t].step = "replaced" => txn[t].op = "roles"

\* Requests are about users there are.
TargetsExist == \A t \in Txn : txn[t].step # "idle" => status[txn[t].user] # "absent"

HasInserted(t) ==
  txn[t].op = "roles" /\ txn[t].keep /\ txn[t].step \in {"replaced", "checked"}

\* The primary key admits one uncommitted super_admin row per user, ...
InsertsExclusive ==
  \A q, t \in Txn : HasInserted(q) /\ HasInserted(t) /\ txn[q].user = txn[t].user => q = t

\* ... and none beside a committed row the transaction did not delete.
FreshInserts == \A t \in Txn : HasInserted(t) /\ ~txn[t].hit => super[txn[t].user] = 0

\* What the triggers saw stays true until another transaction commits.
ChecksHold ==
  \A t \in Txn : txn[t].step = "checked" /\ ~txn[t].stale /\ Fires(t) =>
                   ActiveAdmins(StatusSeen(t), SuperSeen(t)) # {}

Rows == /\ HitByRoles /\ StepsFitOp /\ TargetsExist
        /\ InsertsExclusive /\ FreshInserts
IInv == TypeOK /\ Rows /\ ChecksHold

\* A request starts in an empty slot, having done nothing.
LEMMA AdmitEffect ==
  ASSUME TypeOK, NEW t \in Txn, NEW u \in User, Admit(t, u)
  PROVE  /\ txn'[t].step = "admitted" /\ txn'[t].user = u /\ ~txn'[t].hit
         /\ \A q \in Txn \ {t} : txn'[q] = txn[q]
         /\ status[u] # "absent" /\ UNCHANGED <<status, super>>
<1>1. CASE \E s \in Statuses :
             txn' = [txn EXCEPT ![t] = [Empty EXCEPT !.step = "admitted", !.user = u, !.to = s]]
  BY <1>1, ZenonT(60) DEF Admit, Empty, TypeOK
<1>2. CASE \E k \in BOOLEAN :
             txn' = [txn EXCEPT ![t] = [Empty EXCEPT !.step = "admitted", !.user = u,
                                                   !.op = "roles", !.keep = k]]
  BY <1>2, ZenonT(60) DEF Admit, Empty, TypeOK
<1>3. QED
  BY <1>1, <1>2 DEF Admit

\* COMMIT empties its slot and only marks the others.
LEMMA CommitEffect ==
  ASSUME TypeOK, NEW t \in Txn, Commit(t)
  PROVE  /\ txn'[t] = Empty
         /\ \A q \in Txn \ {t} :
              /\ txn'[q].step = txn[q].step /\ txn'[q].op = txn[q].op
              /\ txn'[q].user = txn[q].user /\ txn'[q].keep = txn[q].keep
              /\ txn'[q].seen = txn[q].seen /\ txn'[q].hit = txn[q].hit
              /\ txn[q].step = "checked" => txn'[q].stale
<1>1. \A q \in Txn : txn'[q] = IF q = t THEN Empty
                     ELSE IF txn[q].step = "checked" THEN [txn[q] EXCEPT !.stale = TRUE]
                     ELSE txn[q]
  BY DEF Commit
<1>2. \A q \in Txn : txn[q] \in Slot
  BY DEF TypeOK
<1>3. \A r \in Slot : LET m == [r EXCEPT !.stale = TRUE] IN
        /\ m.step = r.step /\ m.op = r.op /\ m.user = r.user /\ m.keep = r.keep
        /\ m.seen = r.seen /\ m.hit = r.hit /\ m.stale = TRUE
  BY DEF Slot
<1>4. QED
  BY <1>1, <1>2, <1>3, ZenonT(60)

\* The primary key and the targets of requests: every step keeps
\* what Rows says.
LEMMA RowsStep == ASSUME TypeOK, Rows, [Next]_vars PROVE Rows'
<1> USE DEF Rows, HitByRoles, StepsFitOp, TargetsExist, InsertsExclusive,
            FreshInserts, HasInserted
<1>0. TypeOK'
  BY TypeStep
<1>1. ASSUME NEW u \in User, CreateUser(u) \/ Bootstrap(u) PROVE Rows'
  BY <1>1 DEF CreateUser, Bootstrap, TypeOK
<1>2. ASSUME NEW t \in Txn, NEW u \in User, Admit(t, u) PROVE Rows'
  BY <1>2, AdmitEffect DEF TypeOK
<1>3. ASSUME NEW t \in Txn, UpdateStatus(t) PROVE Rows'
  BY <1>3 DEF UpdateStatus, UserLocked, Goto, At, TypeOK, Slot
<1>4. ASSUME NEW t \in Txn, CheckTriggers(t) PROVE Rows'
  BY <1>4 DEF CheckTriggers, Goto, TypeOK, Slot
<1>5. ASSUME NEW t \in Txn, DeleteRoles(t) PROVE Rows'
  <2>1. CASE RoleLocked(txn[t].user)
    BY <1>5, <2>1 DEF DeleteRoles, At, TypeOK, Slot
  <2>2. CASE ~RoleLocked(txn[t].user)
    <3>1. txn' = [txn EXCEPT ![t].step = "deleted", ![t].hit = super[txn[t].user] # 0]
      BY <1>5, <2>2 DEF DeleteRoles
    <3>2. QED
      BY <1>5, <2>2, <3>1 DEF DeleteRoles, RoleLocked, At, TypeOK, Slot
  <2>3. QED
    BY <2>1, <2>2
<1>6. ASSUME NEW t \in Txn, ResumeDelete(t) PROVE Rows'
  BY <1>6 DEF ResumeDelete, RoleLocked, At, TypeOK, Slot
<1>7. ASSUME NEW t \in Txn, InsertRoles(t) PROVE Rows'
  BY <1>7 DEF InsertRoles, RoleInserting, At, TypeOK, Slot
<1>8. ASSUME NEW t \in Txn, Abort(t) PROVE Rows'
  BY <1>8 DEF Abort, Empty, TypeOK, Slot
<1>9. ASSUME NEW t \in Txn, Commit(t) PROVE Rows'
  <2>1. /\ Empty.step = "idle" /\ Empty.user = NoUser /\ Empty.hit = FALSE
        /\ txn[t].user \in User /\ txn[t].step = "checked" /\ txn[t] \in Slot
    BY <1>9 DEF Empty, Commit, TypeOK
  <2>2. TargetsExist'
    <3>1. \A u \in User : status[u] # "absent" => status'[u] # "absent"
      BY <1>9, <2>1 DEF Commit, StatusSeen, TypeOK, Slot, Statuses
    <3>2. QED
      BY <1>9, <2>1, <3>1, CommitEffect DEF TypeOK
  <2>3. FreshInserts'
    <3>1. ASSUME NEW q \in Txn \ {t}, HasInserted(q), ~txn[q].hit
          PROVE  super'[txn[q].user] = 0
      <4>1. super[txn[q].user] = 0 /\ ~(HasInserted(t) /\ txn[t].user = txn[q].user)
        BY <3>1
      <4>2. txn[q].user \in User
        BY <3>1 DEF TypeOK
      <4>3. QED
        BY <1>9, <2>1, <4>1, <4>2 DEF Commit, SuperSeen, TypeOK
    <3>2. QED
      BY <1>9, <2>1, <3>1, CommitEffect
  <2>4. HitByRoles' /\ StepsFitOp' /\ InsertsExclusive'
    BY <1>9, <2>1, CommitEffect
  <2>5. QED
    BY <2>2, <2>3, <2>4
<1>10. CASE UNCHANGED vars
  BY <1>10 DEF vars
<1>11. QED
  BY <1>1, <1>2, <1>3, <1>4, <1>5, <1>6, <1>7, <1>8, <1>9, <1>10 DEF Next, Request

\* What a transaction's triggers saw stays true until another one commits.
LEMMA ChecksStep == ASSUME TypeOK, Rows, ChecksHold, [Next]_vars PROVE ChecksHold'
<1> USE DEF ChecksHold, Fires, StatusSeen, SuperSeen, ActiveAdmins
<1>1. ASSUME NEW u \in User, CreateUser(u) \/ Bootstrap(u) PROVE ChecksHold'
  BY <1>1 DEF CreateUser, Bootstrap, TypeOK, Slot
<1>2. ASSUME NEW t \in Txn, NEW u \in User, Admit(t, u) PROVE ChecksHold'
  BY <1>2, AdmitEffect DEF TypeOK
<1>3. ASSUME NEW t \in Txn, UpdateStatus(t) PROVE ChecksHold'
  BY <1>3 DEF UpdateStatus, Goto, At, TypeOK, Slot
<1>4. ASSUME NEW t \in Txn, CheckTriggers(t) PROVE ChecksHold'
  BY <1>4 DEF CheckTriggers, Goto, TypeOK, Slot
<1>5. ASSUME NEW t \in Txn, DeleteRoles(t) \/ ResumeDelete(t) PROVE ChecksHold'
  BY <1>5 DEF DeleteRoles, ResumeDelete, At, TypeOK, Slot
<1>6. ASSUME NEW t \in Txn, InsertRoles(t) PROVE ChecksHold'
  BY <1>6 DEF InsertRoles, At, TypeOK, Slot
<1>7. ASSUME NEW t \in Txn, Abort(t) PROVE ChecksHold'
  BY <1>7 DEF Abort, Empty, TypeOK, Slot
<1>8. ASSUME NEW t \in Txn, Commit(t) PROVE ChecksHold'
  BY <1>8, CommitEffect DEF Empty
<1>9. CASE UNCHANGED vars
  BY <1>9 DEF vars
<1>10. QED
  BY <1>1, <1>2, <1>3, <1>4, <1>5, <1>6, <1>7, <1>8, <1>9 DEF Next, Request

\* IInv is an invariant of the specification.
THEOREM InductiveInvariant == Spec => []IInv
<1>1. Init => Rows /\ ChecksHold
  BY DEF Init, Empty, Rows, HitByRoles, StepsFitOp, TargetsExist,
         InsertsExclusive, FreshInserts, HasInserted, ChecksHold
<1>2. TypeOK /\ Rows /\ ChecksHold /\ [Next]_vars => (Rows /\ ChecksHold)'
  BY RowsStep, ChecksStep
<1>3. QED
  BY <1>1, <1>2, TypeCorrect, PTL DEF Spec, IInv

\* A transaction that nothing overlapped leaves an active super administrator
\* when it commits a change of users or roles.
LEMMA CommitAlone ==
  ASSUME IInv, NEW t \in Txn, Commit(t), ~txn[t].stale,
         NEW u \in User, Touched(u)
  PROVE  Admins' # {}
<1>1. CASE Fires(t)
  <2>1. ActiveAdmins(StatusSeen(t), SuperSeen(t)) # {}
    BY <1>1 DEF Commit, IInv, ChecksHold
  <2>2. QED
    BY <2>1 DEF Commit, Admins, ActiveAdmins
<1>2. CASE ~Fires(t)
  <2>1. txn[t].op = "roles" /\ ~txn[t].hit /\ txn[t].step = "checked" /\ txn[t].user \in User
    BY <1>2 DEF Fires, Commit, IInv, TypeOK, Slot
  <2>2. status' = status /\ (txn[t].keep \/ super' = super)
    BY <2>1 DEF Commit, StatusSeen, SuperSeen, IInv, TypeOK, Slot
  <2>3. txn[t].keep /\ super[u] # 0 /\ super'[u] # super[u]
    BY <2>1, <2>2 DEF Touched, IInv, TypeOK, Slot
  <2>4. u = txn[t].user
    BY <2>1, <2>3 DEF Commit, SuperSeen, IInv, TypeOK
  <2>5. super[txn[t].user] = 0
    BY <2>1, <2>3 DEF IInv, Rows, FreshInserts, HasInserted
  <2>6. QED
    BY <2>3, <2>4, <2>5
<1>3. QED
  BY <1>1, <1>2

\* The platform loses its last active super administrator only when two
\* administrative transactions overlap.
THEOREM OnlyOverlapEmpties == Spec => EmptiedOnlyByOverlap
<1> DEFINE Step ==
      (\E u \in User : Touched(u)) /\ Admins' = {} =>
        \E t \in Txn : txn[t].step = "checked" /\ txn[t].stale /\ txn'[t].step = "idle"
<1>1. IInv /\ [Next]_vars => [Step]_vars
  <2> SUFFICES ASSUME IInv, Next, NEW u \in User, Touched(u), Admins' = {}
               PROVE  \E t \in Txn : txn[t].step = "checked" /\ txn[t].stale
                                       /\ txn'[t].step = "idle"
    BY DEF Step
  <2>1. ASSUME NEW v \in User, CreateUser(v) PROVE FALSE
    BY <2>1 DEF CreateUser, Touched, IInv, TypeOK
  <2>2. ASSUME NEW v \in User, Bootstrap(v) PROVE FALSE
    <3>1. v \in Admins'
      BY <2>2 DEF Bootstrap, Admins, ActiveAdmins, IInv, TypeOK
    <3>2. QED
      BY <3>1
  <2>3. PICK t \in Txn : Request(t)
    BY <2>1, <2>2 DEF Next
  <2>4. Commit(t)
    <3>1. status' # status \/ super' # super
      BY DEF Touched
    <3>2. QED
      BY <2>3, <3>1 DEF Request, Admit, UpdateStatus, DeleteRoles, ResumeDelete, InsertRoles,
                        CheckTriggers, Abort
  <2>5. txn[t].step = "checked" /\ txn'[t].step = "idle"
    BY <2>4, CommitEffect DEF Commit, Empty, IInv
  <2>6. txn[t].stale
    BY <2>4, CommitAlone
  <2>7. QED
    BY <2>5, <2>6
<1>2. QED
  BY <1>1, InductiveInvariant, PTL DEF Spec, EmptiedOnlyByOverlap
=============================================================================
