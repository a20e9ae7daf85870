------------------------------ MODULE EmailRate ------------------------------
(***************************************************************************)
(* The rate limits of mailservice.Enqueue.  A call is one READ COMMITTED   *)
(* transaction: it begins, and with that fixes now() and so the created_at *)
(* of the row it may insert; takes the advisory lock of its e-mail address *)
(* and counts the address's rows; counts the rows of its source; and       *)
(* inserts and commits, which frees the lock.  Calls run concurrently, and *)
(* a call may be delayed arbitrarily between any two of these steps.       *)
(***************************************************************************)
EXTENDS Integers, Sequences, FiniteSets

CONSTANTS
  Request,    \* slots for concurrent calls of Enqueue
  Email,      \* addresses, compared by lower()
  Source,     \* digests of source IP addresses
  Minute,     \* 60 s: least distance of two codes for one address
  Hour,       \* the window of the two caps
  EmailCap,   \* 5: codes per address and window
  SourceCap,  \* 10: codes per source and window
  MaxTime,    \* bound: the last moment of a behaviour
  NoRow       \* the row of a slot with no call in it

ASSUME RateAssumption ==
  /\ Minute \in Nat \ {0} /\ Hour \in Nat /\ Minute < Hour
  /\ EmailCap \in Nat \ {0} /\ SourceCap \in Nat \ {0}
  /\ MaxTime \in Nat
  /\ IsFiniteSet(Request)

VARIABLES
  now,    \* the clock of the database
  rows,   \* committed email_verification_challenges, in commit order
  call    \* per slot: the step a call has reached, its inputs and its now()

vars == <<now, rows, call>>

Row == [email : Email, source : Source, at : Nat]
IdleCall == [step |-> "idle", row |-> NoRow]

\* A call between BEGIN and the lock, holding the lock, and cleared to insert.
Steps  == {"idle", "begun", "locked", "cleared"}
Holder == {"locked", "cleared"}

TypeOK ==
  /\ now \in Nat
  /\ rows \in Seq(Row)
  /\ call \in [Request -> [step : Steps, row : Row \cup {NoRow}]]
  /\ \A r \in Request : call[r].step # "idle" => call[r].row \in Row

Init ==
  /\ now = 0
  /\ rows = <<>>
  /\ call = [r \in Request |-> IdleCall]

-----------------------------------------------------------------------------
\* Indices of the committed rows of an address or a source younger than `age`
\* for a transaction that began at `at`; rows committed by transactions that
\* began later count too.
ForEmail(e, at, age)  == {i \in DOMAIN rows : rows[i].email = e /\ rows[i].at > at - age}
ForSource(s, at, age) == {i \in DOMAIN rows : rows[i].source = s /\ rows[i].at > at - age}

At(r, step) == call[r].step = step
Leave(r) == call' = [call EXCEPT ![r] = IdleCall]
GoOnIf(r, open, step) ==
  IF open THEN call' = [call EXCEPT ![r].step = step] ELSE Leave(r)

\* Plausible slips in the code, not used by the specification: no advisory lock,
\* <= for < in either limit, a transaction left open in an aborted state.
NoLock(e) == TRUE
EmailOpenOneMore(row) ==
  /\ ForEmail(row.email, row.at, Minute) = {}
  /\ Cardinality(ForEmail(row.email, row.at, Hour)) <= EmailCap
SourceOpenOneMore(row) == Cardinality(ForSource(row.source, row.at, Hour)) <= SourceCap
LockFree(e) == \A q \in Request : ~(call[q].step \in Holder /\ call[q].row.email = e)

EmailOpen(row)  == /\ ForEmail(row.email, row.at, Minute) = {}
                   /\ Cardinality(ForEmail(row.email, row.at, Hour)) < EmailCap
SourceOpen(row) == Cardinality(ForSource(row.source, row.at, Hour)) < SourceCap

Tick == now < MaxTime /\ now' = now + 1 /\ UNCHANGED <<rows, call>>

\* BEGIN: now() is fixed before the lock is asked for.
Begin(r, e, s) ==
  /\ At(r, "idle")
  /\ call' = [call EXCEPT ![r] = [step |-> "begun", row |-> [email |-> e, source |-> s, at |-> now]]]
  /\ UNCHANGED <<now, rows>>

\* pg_advisory_xact_lock, then the count for the address.  The code decides on
\* both counts together; a call over the address's limits is lost either way.
LockAndCountEmail(r) ==
  /\ At(r, "begun")
  /\ LockFree(call[r].row.email)
  /\ GoOnIf(r, EmailOpen(call[r].row), "locked")
  /\ UNCHANGED <<now, rows>>

\* The count for the source, a statement and so a snapshot of its own.
CountSource(r) ==
  /\ At(r, "locked")
  /\ GoOnIf(r, SourceOpen(call[r].row), "cleared")
  /\ UNCHANGED <<now, rows>>

\* Both INSERTs and COMMIT.
Insert(r) ==
  /\ At(r, "cleared")
  /\ rows' = Append(rows, call[r].row)
  /\ Leave(r)
  /\ UNCHANGED now

\* An error, a cancelled request or a crash rolls the transaction back.
Rollback(r) ==
  /\ ~At(r, "idle")
  /\ Leave(r)
  /\ UNCHANGED <<now, rows>>

Enqueue(r) ==
  \/ \E e \in Email, s \in Source : Begin(r, e, s)
  \/ LockAndCountEmail(r) \/ CountSource(r) \/ Insert(r) \/ Rollback(r)

Next == Tick \/ \E r \in Request : Enqueue(r)

Spec == Init /\ [][Next]_vars

-----------------------------------------------------------------------------
(* Properties.                                                             *)

\* Two codes for one address are at least a minute apart, in whatever order
\* their transactions began, waited for the lock and committed.
Spaced ==
  \A i, j \in DOMAIN rows : i # j /\ rows[i].email = rows[j].email =>
    rows[i].at - rows[j].at >= Minute \/ rows[j].at - rows[i].at >= Minute

Window(i) == {j \in DOMAIN rows : rows[j].at \in (rows[i].at - Hour + 1)..rows[i].at}

\* No hour holds more than EmailCap codes for one address.
EmailCapped ==
  \A i \in DOMAIN rows :
    Cardinality({j \in Window(i) : rows[j].email = rows[i].email}) <= EmailCap

FromSource(i) == {j \in Window(i) : rows[j].source = rows[i].source}

\* The cap per source is not under a lock; calls that counted before one of
\* them inserted exceed it, but by no more than one code per concurrent call.
SourceNearlyCapped ==
  \A i \in DOMAIN rows : Cardinality(FromSource(i)) <= SourceCap + Cardinality(Request) - 1
=============================================================================
