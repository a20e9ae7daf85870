----------------------------- MODULE EmailOutbox -----------------------------
(***************************************************************************)
(* The life of an e-mailed verification code in internal/mailservice:      *)
(* Enqueue writes a challenge and an outbox row in one transaction, the    *)
(* single delivery worker (Run/deliverOne) claims rows under a lease,      *)
(* submits them to the provider and records the outcome, and Verify        *)
(* consumes a challenge under a row lock.                                  *)
(*                                                                         *)
(* The outbox id and its challenge are one-to-one and ids grow in the      *)
(* order of insertion, so both rows of the n-th code are indexed by n.     *)
(* Wall-clock time is abstracted to the two questions the code asks of it: *)
(* due[m] is next_attempt_at <= now() and expired[m] is now > expires_at;  *)
(* both become true at any moment after the row's deadline was set.        *)
(* Database calls may fail, and the process may die and be restarted       *)
(* between any two steps; MaxFaults bounds how often in one behaviour.     *)
(***************************************************************************)
EXTENDS Naturals, FiniteSets

CONSTANTS
  MaxMail,      \* bound: codes enqueued in one behaviour
  Request,      \* slots for concurrent calls of Verify
  MaxSends,     \* 4: attempts after which a delivery is given up
  MaxGuesses,   \* 5: wrong codes after which a challenge is dead
  MaxFaults     \* bound: failed database writes and crashes

ASSUME EmailAssumption ==
  /\ MaxMail \in Nat
  /\ MaxSends \in Nat \ {0}
  /\ MaxGuesses \in Nat \ {0}
  /\ MaxFaults \in Nat

Mail == 1..MaxMail
Idle == 0                   \* "no row": a worker or request holding nothing

VARIABLES
  outbox,     \* email_outbox.status; "none" before Enqueue
  payload,    \* payload_ciphertext IS NOT NULL
  attempts,   \* email_outbox.attempt_count
  due,        \* next_attempt_at <= now()
  challenge,  \* email_verification_challenges.status; "none" before Enqueue
  guesses,    \* email_verification_challenges.attempt_count
  expired,    \* expires_at IS NOT NULL and now > expires_at
  worker,     \* where deliverOne stands, and the row it works on
  request,    \* per call of Verify: the row it holds FOR UPDATE and what it read
  enabled,    \* email_provider_settings allows sending
  accepted,   \* observed: times the provider accepted the mail
  redeemed,   \* observed: calls of Verify answered with success
  refused,    \* observed: calls of Verify answered "wrong code"
  faults      \* failed writes and crashes so far

rows     == <<outbox, payload, attempts, due>>
codes    == <<challenge, guesses, expired>>
observed == <<accepted, redeemed, refused>>
vars     == <<rows, codes, worker, request, enabled, observed, faults>>

Pending == {"queued", "sending"}
Final   == {"sent", "failed"}
Spent   == {"used", "failed"}

\* What follows a failed submission, or a successful one.
WorkerSteps == {"idle", "claimed", "sent", "retry", "giveup", "abandon"}

\* A Verify call between its SELECT ... FOR UPDATE and its COMMIT.
Holding(r, m) == request[r].row = m
Locked(m)     == \E r \in Request : Holding(r, m)
FreeRequest   == [row |-> Idle, right |-> FALSE, read |-> 0]

TypeOK ==
  /\ outbox \in [Mail -> {"none"} \cup Pending \cup Final]
  /\ payload \in [Mail -> BOOLEAN]
  /\ attempts \in [Mail -> Nat]
  /\ due \in [Mail -> BOOLEAN]
  /\ challenge \in [Mail -> {"none", "queued", "sent"} \cup Spent]
  /\ guesses \in [Mail -> Nat]
  /\ expired \in [Mail -> BOOLEAN]
  /\ worker \in [step : WorkerSteps, row : Mail \cup {Idle}]
  /\ request \in [Request -> [row : Mail \cup {Idle}, right : BOOLEAN, read : Nat]]
  /\ enabled \in BOOLEAN
  /\ accepted \in [Mail -> Nat]
  /\ redeemed \in [Mail -> Nat]
  /\ refused \in [Mail -> Nat]
  /\ faults \in Nat

Init ==
  /\ outbox = [m \in Mail |-> "none"]
  /\ payload = [m \in Mail |-> FALSE]
  /\ attempts = [m \in Mail |-> 0]
  /\ due = [m \in Mail |-> FALSE]
  /\ challenge = [m \in Mail |-> "none"]
  /\ guesses = [m \in Mail |-> 0]
  /\ expired = [m \in Mail |-> FALSE]
  /\ worker = [step |-> "idle", row |-> Idle]
  /\ request = [r \in Request |-> FreeRequest]
  /\ enabled = FALSE
  /\ accepted = [m \in Mail |-> 0]
  /\ redeemed = [m \in Mail |-> 0]
  /\ refused = [m \in Mail |-> 0]
  /\ faults = 0

-----------------------------------------------------------------------------
(* Plausible slips in the code, one per property; the specification does   *)
(* not use them: each is a wrong version of the action it is named after.  *)

\* Giving up forgets to clear the payload.
RecordGiveUpKeepsPayload(m) ==
  /\ worker = [step |-> "giveup", row |-> m]
  /\ outbox' = [outbox EXCEPT ![m] = "failed"]
  /\ worker' = [worker EXCEPT !.step = "abandon"]
  /\ UNCHANGED <<payload, attempts, due, codes, request, enabled, observed, faults>>

\* Only the outbox row is updated.
RecordSentForgetsCode(m) ==
  /\ worker = [step |-> "sent", row |-> m]
  /\ outbox' = [outbox EXCEPT ![m] = "sent"]
  /\ payload' = [payload EXCEPT ![m] = FALSE]
  /\ worker' = [step |-> "idle", row |-> Idle]
  /\ UNCHANGED <<attempts, due, codes, request, enabled, observed, faults>>

\* attempts > MaxSends for attempts >= MaxSends.
AfterFailureOneMore(m, permanent) ==
  IF permanent \/ attempts[m] > MaxSends THEN "giveup" ELSE "retry"

\* The claim looks only for queued rows.
ClaimableIfQueued(m)  == outbox[m] = "queued" /\ due[m]
\* SELECT without FOR UPDATE.
VerifyReadUnlocked(r, m) ==
  /\ request[r] = FreeRequest
  /\ challenge[m] = "sent" /\ ~expired[m]
  /\ \E right \in BOOLEAN :
        request' = [request EXCEPT ![r] = [row |-> m, right |-> right, read |-> guesses[m]]]
  /\ UNCHANGED <<rows, codes, worker, enabled, observed, faults>>

\* The challenge dies one wrong guess too late.
VerifyRefuseOneMore(r, m) ==
  /\ Holding(r, m)
  /\ ~(request[r].right /\ request[r].read < MaxGuesses)
  /\ guesses' = [guesses EXCEPT ![m] = request[r].read + 1]
  /\ challenge' = [challenge EXCEPT ![m] =
                     IF request[r].read + 1 > MaxGuesses THEN "failed" ELSE "sent"]
  /\ refused' = [refused EXCEPT ![m] = @ + 1]
  /\ request' = [request EXCEPT ![r] = FreeRequest]
  /\ UNCHANGED <<rows, expired, worker, enabled, accepted, redeemed, faults>>

-----------------------------------------------------------------------------
(* The administrator, the enqueuing handlers and the clock.                *)

\* PUT /admin/email-settings turns sending on or off at any time.
ToggleMail ==
  /\ enabled' = ~enabled
  /\ UNCHANGED <<rows, codes, worker, request, observed, faults>>

\* A call of Enqueue that the rate limits admit (module EmailRate): challenge
\* and outbox row are inserted by one transaction, the next id being m.
Enqueue(m) ==
  /\ enabled
  /\ outbox[m] = "none"
  /\ \A k \in Mail : k < m => outbox[k] # "none"
  /\ outbox' = [outbox EXCEPT ![m] = "queued"]
  /\ payload' = [payload EXCEPT ![m] = TRUE]
  /\ due' = [due EXCEPT ![m] = TRUE]
  /\ challenge' = [challenge EXCEPT ![m] = "queued"]
  /\ UNCHANGED <<attempts, guesses, expired, worker, request, enabled, observed, faults>>

\* The lease of a claimed row or the back-off of a requeued one runs out.
BecomeDue(m) ==
  /\ outbox[m] \in Pending /\ ~due[m]
  /\ due' = [due EXCEPT ![m] = TRUE]
  /\ UNCHANGED <<outbox, payload, attempts, codes, worker, request, enabled, observed, faults>>

\* Ten minutes have passed since the challenge was marked sent.
Expire(m) ==
  /\ challenge[m] = "sent" /\ ~expired[m]
  /\ expired' = [expired EXCEPT ![m] = TRUE]
  /\ UNCHANGED <<rows, challenge, guesses, worker, request, enabled, observed, faults>>

-----------------------------------------------------------------------------
(* The delivery worker: deliverOne, step by step.                          *)

Claimable(m) == outbox[m] \in Pending /\ due[m]

\* The claiming transaction: lowest due id, attempt counted, lease taken.
Claim(m) ==
  /\ worker.step = "idle"
  /\ Claimable(m)
  /\ \A k \in Mail : k < m => ~Claimable(k)
  /\ outbox' = [outbox EXCEPT ![m] = "sending"]
  /\ attempts' = [attempts EXCEPT ![m] = @ + 1]
  /\ due' = [due EXCEPT ![m] = FALSE]
  /\ worker' = [step |-> "claimed", row |-> m]
  /\ UNCHANGED <<payload, codes, request, enabled, observed, faults>>

\* A failed delivery is retried unless it was the last attempt or is hopeless.
AfterFailure(m, permanent) ==
  IF permanent \/ attempts[m] >= MaxSends THEN "giveup" ELSE "retry"

\* send(): the provider accepts the mail, and its answer arrives or is lost;
\* or sending is not configured or refused for good; or something fails for now
\* (the payload does not open, settings cannot be read, the provider is down).
Submit(m) ==
  /\ worker = [step |-> "claimed", row |-> m]
  /\ \/ /\ enabled
        /\ accepted' = [accepted EXCEPT ![m] = @ + 1]
        /\ \E step \in {"sent", AfterFailure(m, FALSE)} : worker' = [worker EXCEPT !.step = step]
     \/ /\ \E permanent \in BOOLEAN :
              worker' = [worker EXCEPT !.step = AfterFailure(m, permanent)]
        /\ UNCHANGED accepted
  /\ UNCHANGED <<rows, codes, request, enabled, redeemed, refused, faults>>

WorkerIdle == worker' = [step |-> "idle", row |-> Idle]

\* The batch of two UPDATEs, one implicit transaction.  The challenge starts
\* its ten minutes only if it is still queued.
RecordSent(m) ==
  /\ worker = [step |-> "sent", row |-> m]
  /\ outbox' = [outbox EXCEPT ![m] = "sent"]
  /\ payload' = [payload EXCEPT ![m] = FALSE]
  /\ challenge' = [challenge EXCEPT ![m] = IF @ = "queued" THEN "sent" ELSE @]
  /\ WorkerIdle
  /\ UNCHANGED <<attempts, due, guesses, expired, request, enabled, observed, faults>>

\* Back to the queue with an exponential back-off.
RecordRetry(m) ==
  /\ worker = [step |-> "retry", row |-> m]
  /\ outbox' = [outbox EXCEPT ![m] = "queued"]
  /\ due' = [due EXCEPT ![m] = FALSE]
  /\ WorkerIdle
  /\ UNCHANGED <<payload, attempts, codes, request, enabled, observed, faults>>

\* Giving up takes two separate statements: first the outbox row ...
RecordGiveUp(m) ==
  /\ worker = [step |-> "giveup", row |-> m]
  /\ outbox' = [outbox EXCEPT ![m] = "failed"]
  /\ payload' = [payload EXCEPT ![m] = FALSE]
  /\ worker' = [worker EXCEPT !.step = "abandon"]
  /\ UNCHANGED <<attempts, due, codes, request, enabled, observed, faults>>

\* ... then the challenge.
RecordAbandon(m) ==
  /\ worker = [step |-> "abandon", row |-> m]
  /\ challenge' = [challenge EXCEPT ![m] = IF @ = "queued" THEN "failed" ELSE @]
  /\ WorkerIdle
  /\ UNCHANGED <<rows, guesses, expired, request, enabled, observed, faults>>

Fault == faults < MaxFaults /\ faults' = faults + 1

\* The answer of the claiming COMMIT is lost, or a later write fails: the claim
\* or the outcome is forgotten, except that the failure of the first statement
\* of giving up does not stop the second.
RecordFails ==
  /\ worker.step # "idle"
  /\ Fault
  /\ IF worker.step = "giveup"
     THEN worker' = [worker EXCEPT !.step = "abandon"]
     ELSE WorkerIdle
  /\ UNCHANGED <<rows, codes, request, enabled, observed>>

-----------------------------------------------------------------------------
(* Verify: one call per request slot.                                      *)

\* SELECT ... FOR UPDATE waits for the row, then the checks run on what it
\* returned.  A call whose purpose or user does not match, or that finds the
\* code not sent or expired, answers at once and changes nothing.
VerifyRead(r, m) ==
  /\ request[r] = FreeRequest
  /\ ~Locked(m)
  /\ challenge[m] = "sent" /\ ~expired[m]
  /\ \E right \in BOOLEAN :
        request' = [request EXCEPT ![r] = [row |-> m, right |-> right, read |-> guesses[m]]]
  /\ UNCHANGED <<rows, codes, worker, enabled, observed, faults>>

Matches(r) == request[r].right /\ request[r].read < MaxGuesses

Release(r) == request' = [request EXCEPT ![r] = FreeRequest]

\* The right code: the challenge is used up and the caller told so.
VerifyAccept(r, m) ==
  /\ Holding(r, m) /\ Matches(r)
  /\ challenge' = [challenge EXCEPT ![m] = "used"]
  /\ redeemed' = [redeemed EXCEPT ![m] = @ + 1]
  /\ Release(r)
  /\ UNCHANGED <<rows, guesses, expired, worker, enabled, accepted, refused, faults>>

\* A wrong code: counted, and the last permitted one kills the challenge.
VerifyRefuse(r, m) ==
  /\ Holding(r, m) /\ ~Matches(r)
  /\ guesses' = [guesses EXCEPT ![m] = request[r].read + 1]
  /\ challenge' = [challenge EXCEPT ![m] =
                     IF request[r].read + 1 >= MaxGuesses THEN "failed" ELSE "sent"]
  /\ refused' = [refused EXCEPT ![m] = @ + 1]
  /\ Release(r)
  /\ UNCHANGED <<rows, expired, worker, enabled, accepted, redeemed, faults>>

\* The UPDATE or the COMMIT fails.  With the right code the caller gets an
\* error, the row being used up if only the answer of the COMMIT was lost; with
\* a wrong one both errors are ignored and the caller is told "wrong code".
VerifyFails(r, m) ==
  /\ Holding(r, m)
  /\ Fault
  /\ IF Matches(r)
     THEN /\ challenge' \in {challenge, [challenge EXCEPT ![m] = "used"]}
          /\ UNCHANGED refused
     ELSE /\ refused' = [refused EXCEPT ![m] = @ + 1]
          /\ UNCHANGED challenge
  /\ Release(r)
  /\ UNCHANGED <<rows, guesses, expired, worker, enabled, accepted, redeemed>>

-----------------------------------------------------------------------------
\* The process dies and is started again: the worker and every call in flight
\* are gone, open transactions roll back, the lease of a claimed row stays.
Crash ==
  /\ Fault
  /\ WorkerIdle
  /\ request' = [r \in Request |-> FreeRequest]
  /\ UNCHANGED <<rows, codes, enabled, observed>>

Deliver ==
  \/ \E m \in Mail :
       \/ Claim(m) \/ Submit(m)
       \/ RecordSent(m) \/ RecordRetry(m) \/ RecordGiveUp(m) \/ RecordAbandon(m)
  \/ RecordFails

Verify ==
  \E r \in Request, m \in Mail :
    VerifyRead(r, m) \/ VerifyAccept(r, m) \/ VerifyRefuse(r, m) \/ VerifyFails(r, m)

Next ==
  \/ ToggleMail
  \/ \E m \in Mail : Enqueue(m) \/ BecomeDue(m) \/ Expire(m)
  \/ Deliver
  \/ Verify
  \/ Crash

Spec == Init /\ [][Next]_vars

\* Run polls for ever, so the worker takes every step it can; deadlines pass.
Fairness ==
  /\ WF_vars(Deliver)
  /\ \A m \in Mail : WF_vars(BecomeDue(m))

LiveSpec == Spec /\ Fairness

-----------------------------------------------------------------------------
(* Properties.                                                             *)

\* The encrypted template parameters are kept exactly as long as the mail may
\* still have to be sent: a row the worker can claim always has a payload to
\* open, and a row that was sent or given up has none left.
PayloadKeptWhilePending ==
  \A m \in Mail : payload[m] <=> outbox[m] \in Pending

\* A code can be tried only once its mail was accepted by the provider and
\* recorded as sent, and recording it sent never leaves the challenge queued,
\* whatever retries, crashes and half-recorded failures came before.
UsableOnceDelivered ==
  \A m \in Mail :
    /\ challenge[m] \in {"sent", "used"} \/ guesses[m] > 0
         => outbox[m] = "sent" /\ accepted[m] > 0
    /\ outbox[m] = "sent" => challenge[m] # "queued"

\* The provider accepts a mail no more often than attempts were counted,
\* and MaxSends attempts are exceeded only by outcomes that went unrecorded.
SendsBounded ==
  \A m \in Mail : accepted[m] <= attempts[m] /\ attempts[m] <= MaxSends + faults

\* However the calls of Verify interleave, at most one of them is told that the
\* code was right, and then the challenge is used up.
RedeemedOnce ==
  \A m \in Mail : redeemed[m] <= 1 /\ (redeemed[m] = 1 => challenge[m] = "used")

\* No wrong guess is lost by concurrent calls: every refusal was counted unless
\* its own write failed, and a challenge with no guess left is dead.
GuessesCounted ==
  \A m \in Mail :
    /\ refused[m] <= guesses[m] + faults
    /\ guesses[m] <= MaxGuesses
    /\ guesses[m] = MaxGuesses => challenge[m] = "failed"

-----------------------------------------------------------------------------
(* The inductive invariant behind the state properties above.              *)

\* A call of Verify that holds a row is alone on it, and what it read is still
\* what the row says: this is what the row lock buys.
LockInv ==
  \A r \in Request, m \in Mail : Holding(r, m) =>
    /\ challenge[m] = "sent" /\ request[r].read = guesses[m]
    /\ \A q \in Request : Holding(q, m) => q = r

\* What the worker has in hand at each of its steps.
WorkerInv ==
  /\ worker.step = "idle" <=> worker.row = Idle
  /\ \A m \in Mail : worker.row = m =>
       /\ outbox[m] = "sending" \/ (worker.step = "abandon" /\ outbox[m] = "failed")
       /\ worker.step = "claimed" => accepted[m] < attempts[m]
       /\ worker.step = "sent" => accepted[m] > 0
       /\ worker.step = "retry" => attempts[m] < MaxSends

\* A row not being worked on still has an attempt left, or owes it to a fault.
AttemptsLeft ==
  \A m \in Mail :
    outbox[m] \in Pending /\ (worker.row = m => worker.step = "abandon")
      => attempts[m] < MaxSends + faults

\* Outbox row and challenge are born together; a live code has guesses left, and
\* only a code that was sent expires.
RowsInv ==
  \A m \in Mail :
    /\ outbox[m] = "none" <=> challenge[m] = "none"
    /\ outbox[m] = "none" => attempts[m] = 0
    /\ outbox[m] = "sent" => accepted[m] > 0
    /\ challenge[m] = "sent" => guesses[m] < MaxGuesses
    /\ expired[m] => challenge[m] \in {"sent"} \cup Spent

IInv ==
  /\ LockInv /\ WorkerInv /\ AttemptsLeft /\ RowsInv
  /\ PayloadKeptWhilePending /\ UsableOnceDelivered /\ SendsBounded
  /\ RedeemedOnce /\ GuessesCounted

-----------------------------------------------------------------------------
(* What a step may never do, what must happen, and what all this implements. *)

\* A used or failed challenge stays so: neither a redelivery of its mail nor a
\* call of Verify that read it earlier revives or rewrites it.
SpentForGood ==
  [][\A m \in Mail : challenge[m] \in Spent =>
       challenge'[m] = challenge[m] /\ guesses'[m] = guesses[m]]_vars

\* An outbox row that was sent or given up is never claimed or changed again.
SettledForGood ==
  [][\A m \in Mail : outbox[m] \in Final =>
       outbox'[m] = outbox[m] /\ attempts'[m] = attempts[m] /\ accepted'[m] = accepted[m]]_vars

\* The worker settles every mail that was queued, if faults are finitely many:
\* retries end, a claimed row whose worker died is claimed again, and no row is
\* starved by rows with lower ids.
EveryMailSettles ==
  \A m \in Mail : outbox[m] \in Pending ~> outbox[m] \in Final

\* The abstract code a mail's challenge implements.  A challenge past its expiry
\* is void unless a call of Verify still holds the row it read in time.
Phase(m) ==
  CASE challenge[m] = "none"   -> "unissued"
    [] challenge[m] = "queued" -> "pending"
    [] challenge[m] = "sent"   -> IF expired[m] /\ ~Locked(m) THEN "void" ELSE "live"
    [] challenge[m] = "used"   -> "redeemed"
    [] challenge[m] = "failed" -> "void"

Abstract == INSTANCE VerificationCode
  WITH Code <- Mail, phase <- [m \in Mail |-> Phase(m)], wrong <- guesses

\* Outbox, worker, locks and faults together implement the abstract code: every
\* step of theirs is a step of one code's life or changes nothing about it.
ImplementsVerificationCode == Abstract!Spec
=============================================================================
