-------------------------- MODULE EmailOutboxProofs --------------------------
(***************************************************************************)
(* Theorems about EmailOutbox for every number of mails, calls of Verify,  *)
(* sends, guesses and faults.                                              *)
(***************************************************************************)
EXTENDS EmailOutbox, TLAPS

\* Every variable keeps its type: the columns their CHECK constraints, the
\* worker and the calls of Verify rows that exist.
THEOREM TypeCorrect == Spec => []TypeOK
<1>1. ASSUME Init PROVE TypeOK
  <2>1. worker \in [step : WorkerSteps, row : Mail \cup {Idle}]
    BY <1>1 DEF Init, WorkerSteps
  <2>2. request \in [Request -> [row : Mail \cup {Idle}, right : BOOLEAN, read : Nat]]
    BY <1>1 DEF Init, FreeRequest
  <2>3. outbox \in [Mail -> {"none"} \cup Pending \cup Final]
    BY <1>1 DEF Init
  <2>4. challenge \in [Mail -> {"none", "queued", "sent"} \cup Spent]
    BY <1>1 DEF Init
  <2>5. QED
    BY <1>1, <2>1, <2>2, <2>3, <2>4 DEF Init, TypeOK
<1>2. TypeOK /\ [Next]_vars => TypeOK'
  <2> SUFFICES ASSUME TypeOK, [Next]_vars PROVE TypeOK'
    OBVIOUS
  <2> USE DEF TypeOK, Pending, Final, Spent, WorkerSteps, rows, codes, observed
  <2>1. CASE ToggleMail
    BY <2>1 DEF ToggleMail
  <2>2. ASSUME NEW m \in Mail, Enqueue(m) PROVE TypeOK'
    BY <2>2 DEF Enqueue
  <2>3. ASSUME NEW m \in Mail, BecomeDue(m) PROVE TypeOK'
    BY <2>3 DEF BecomeDue
  <2>4. ASSUME NEW m \in Mail, Expire(m) PROVE TypeOK'
    BY <2>4 DEF Expire
  <2>5. ASSUME NEW m \in Mail, Claim(m) PROVE TypeOK'
    BY <2>5 DEF Claim
  <2>6. ASSUME NEW m \in Mail, Submit(m) PROVE TypeOK'
    BY <2>6 DEF Submit, AfterFailure
  <2>7. ASSUME NEW m \in Mail, RecordSent(m) PROVE TypeOK'
    BY <2>7 DEF RecordSent, WorkerIdle
  <2>8. ASSUME NEW m \in Mail, RecordRetry(m) PROVE TypeOK'
    BY <2>8 DEF RecordRetry, WorkerIdle
  <2>9. ASSUME NEW m \in Mail, RecordGiveUp(m) PROVE TypeOK'
    BY <2>9 DEF RecordGiveUp
  <2>10. ASSUME NEW m \in Mail, RecordAbandon(m) PROVE TypeOK'
    BY <2>10 DEF RecordAbandon, WorkerIdle
  <2>11. CASE RecordFails
    BY <2>11 DEF RecordFails, WorkerIdle, Fault
  <2>12. ASSUME NEW r \in Request, NEW m \in Mail, VerifyRead(r, m) PROVE TypeOK'
    BY <2>12 DEF VerifyRead
  <2>13. ASSUME NEW r \in Request, NEW m \in Mail, VerifyAccept(r, m) PROVE TypeOK'
    BY <2>13 DEF VerifyAccept, Release, FreeRequest, Idle
  <2>14. ASSUME NEW r \in Request, NEW m \in Mail, VerifyRefuse(r, m) PROVE TypeOK'
    BY <2>14 DEF VerifyRefuse, Release, FreeRequest, Idle
  <2>15. ASSUME NEW r \in Request, NEW m \in Mail, VerifyFails(r, m) PROVE TypeOK'
    BY <2>15, SMTT(30) DEF VerifyFails, Release, FreeRequest, Idle, Fault
  <2>16. CASE Crash
    BY <2>16 DEF Crash, WorkerIdle, Fault, FreeRequest, Idle
  <2>17. CASE UNCHANGED vars
    BY <2>17 DEF vars
  <2>18. QED
    BY <2>1, <2>2, <2>3, <2>4, <2>5, <2>6, <2>7, <2>8, <2>9, <2>10, <2>11, <2>12,
       <2>13, <2>14, <2>15, <2>16, <2>17 DEF Next, Deliver, Verify
<1>3. QED
  BY <1>1, <1>2, PTL DEF Spec

\* The state properties the runs check, with what makes them inductive: the row
\* lock of Verify and what the worker has in hand.
THEOREM InductiveInvariant == Spec => []IInv
<1>1. Init => IInv
  BY EmailAssumption DEF Init, IInv, LockInv, WorkerInv, AttemptsLeft, RowsInv,
     PayloadKeptWhilePending, UsableOnceDelivered, SendsBounded, RedeemedOnce,
     GuessesCounted, Holding, FreeRequest, Idle, Mail, Pending
<1>2. TypeOK /\ IInv /\ [Next]_vars => IInv'
  <2> SUFFICES ASSUME TypeOK, IInv, [Next]_vars PROVE IInv'
    OBVIOUS
  <2> Idle \notin Mail
    BY DEF Idle, Mail
  <2> USE EmailAssumption DEF TypeOK, Pending, Final, Spent, WorkerSteps, Holding,
      rows, codes, observed, IInv, LockInv, WorkerInv, AttemptsLeft, RowsInv,
      PayloadKeptWhilePending, UsableOnceDelivered, SendsBounded, RedeemedOnce, GuessesCounted
  <2>1. CASE ToggleMail
    BY <2>1 DEF ToggleMail
  <2>2. ASSUME NEW m \in Mail, Enqueue(m) PROVE IInv'
    BY <2>2 DEF Enqueue
  <2>3. ASSUME NEW m \in Mail, BecomeDue(m) PROVE IInv'
    BY <2>3 DEF BecomeDue
  <2>4. ASSUME NEW m \in Mail, Expire(m) PROVE IInv'
    BY <2>4 DEF Expire
  <2>5. ASSUME NEW m \in Mail, Claim(m) PROVE IInv'
    BY <2>5 DEF Claim, Claimable
  <2>6. ASSUME NEW m \in Mail, Submit(m) PROVE IInv'
    <3>1. /\ worker.step = "claimed" /\ worker.row = m
          /\ worker' = [worker EXCEPT !.step = worker'.step]
      BY <2>6, ZenonT(60) DEF Submit
    <3>2. CASE worker'.step = "sent" /\ accepted' = [accepted EXCEPT ![m] = @ + 1]
      BY <2>6, <3>1, <3>2 DEF Submit
    <3>3. CASE worker'.step = "giveup" /\ accepted' = [accepted EXCEPT ![m] = @ + 1]
      BY <2>6, <3>1, <3>3 DEF Submit
    <3>4. CASE /\ worker'.step = "retry" /\ attempts[m] < MaxSends
               /\ accepted' = [accepted EXCEPT ![m] = @ + 1]
      BY <2>6, <3>1, <3>4 DEF Submit
    <3>5. CASE worker'.step = "giveup" /\ accepted' = accepted
      BY <2>6, <3>1, <3>5 DEF Submit
    <3>6. CASE worker'.step = "retry" /\ attempts[m] < MaxSends /\ accepted' = accepted
      BY <2>6, <3>1, <3>6 DEF Submit
    <3>7. QED
      BY <2>6, <3>1, <3>2, <3>3, <3>4, <3>5, <3>6 DEF Submit, AfterFailure
  <2>7. ASSUME NEW m \in Mail, RecordSent(m) PROVE IInv'
    BY <2>7 DEF RecordSent, WorkerIdle
  <2>8. ASSUME NEW m \in Mail, RecordRetry(m) PROVE IInv'
    BY <2>8 DEF RecordRetry, WorkerIdle
  <2>9. ASSUME NEW m \in Mail, RecordGiveUp(m) PROVE IInv'
    BY <2>9 DEF RecordGiveUp
  <2>10. ASSUME NEW m \in Mail, RecordAbandon(m) PROVE IInv'
    BY <2>10 DEF RecordAbandon, WorkerIdle
  <2>11. CASE RecordFails
    BY <2>11 DEF RecordFails, WorkerIdle, Fault
  <2>12. ASSUME NEW r \in Request, NEW m \in Mail, VerifyRead(r, m) PROVE IInv'
    BY <2>12 DEF VerifyRead, Locked
  <2>13. ASSUME NEW r \in Request, NEW m \in Mail, VerifyAccept(r, m) PROVE IInv'
    <3>1. challenge[m] = "sent"
      BY <2>13 DEF VerifyAccept
    <3>2. RedeemedOnce'
      BY <2>13, <3>1 DEF VerifyAccept
    <3>3. LockInv'
      BY <2>13 DEF VerifyAccept, Release, FreeRequest
    <3>4. GuessesCounted' /\ UsableOnceDelivered' /\ RowsInv'
      BY <2>13, <3>1 DEF VerifyAccept
    <3>5. WorkerInv' /\ AttemptsLeft' /\ PayloadKeptWhilePending' /\ SendsBounded'
      BY <2>13 DEF VerifyAccept
    <3>6. QED
      BY <3>2, <3>3, <3>4, <3>5
  <2>14. ASSUME NEW r \in Request, NEW m \in Mail, VerifyRefuse(r, m) PROVE IInv'
    BY <2>14 DEF VerifyRefuse, Release, FreeRequest, Matches
  <2>15. ASSUME NEW r \in Request, NEW m \in Mail, VerifyFails(r, m) PROVE IInv'
    <3>1. challenge[m] = "sent"
      BY <2>15 DEF VerifyFails
    <3>2. LockInv'
      BY <2>15 DEF VerifyFails, Release, FreeRequest
    <3>3. CASE UNCHANGED challenge
      BY <2>15, <3>2, <3>3 DEF VerifyFails, Fault
    <3>4. CASE challenge' = [challenge EXCEPT ![m] = "used"] /\ UNCHANGED refused
      BY <2>15, <3>1, <3>2, <3>4 DEF VerifyFails, Fault
    <3>5. QED
      BY <2>15, <3>3, <3>4 DEF VerifyFails
  <2>16. CASE Crash
    BY <2>16 DEF Crash, WorkerIdle, FreeRequest, Fault
  <2>17. CASE UNCHANGED vars
    BY <2>17 DEF vars, Locked
  <2>18. QED
    BY <2>1, <2>2, <2>3, <2>4, <2>5, <2>6, <2>7, <2>8, <2>9, <2>10, <2>11, <2>12, <2>13, <2>14, <2>15, <2>16, <2>17 DEF Next, Deliver, Verify
<1>3. QED
  BY <1>1, <1>2, TypeCorrect, PTL DEF Spec

\* The properties of the runs follow from the inductive invariant.
THEOREM PayloadKept == Spec => []PayloadKeptWhilePending
  BY InductiveInvariant, PTL DEF IInv

\* No code is usable before its mail was accepted and recorded as sent.
THEOREM UsableAfterDelivery == Spec => []UsableOnceDelivered
  BY InductiveInvariant, PTL DEF IInv

\* The provider accepts a mail at most MaxSends times plus once per fault.
THEOREM SendsAreBounded == Spec => []SendsBounded
  BY InductiveInvariant, PTL DEF IInv

\* Concurrent calls of Verify redeem a code at most once.
THEOREM AtMostOneRedemption == Spec => []RedeemedOnce
  BY InductiveInvariant, PTL DEF IInv

\* Concurrent wrong guesses are all counted, up to MaxGuesses.
THEOREM EveryGuessCounted == Spec => []GuessesCounted
  BY InductiveInvariant, PTL DEF IInv

\* No redelivery and no stale call of Verify changes a spent challenge.
THEOREM SpentStaysSpent == Spec => SpentForGood
<1> DEFINE Kept == \A m \in Mail : challenge[m] \in Spent =>
                     challenge'[m] = challenge[m] /\ guesses'[m] = guesses[m]
<1>1. TypeOK /\ IInv /\ [Next]_vars => [Kept]_vars
  <2> SUFFICES ASSUME TypeOK, IInv, Next PROVE Kept
    OBVIOUS
  <2> Idle \notin Mail
    BY DEF Idle, Mail
  <2> USE DEF TypeOK, Spent, codes
  <2>1. CASE UNCHANGED <<challenge, guesses>>
    BY <2>1
  <2>2. ASSUME NEW m \in Mail, Enqueue(m) PROVE Kept
    BY <2>2 DEF Enqueue, IInv, RowsInv
  <2>3. ASSUME NEW m \in Mail, RecordSent(m) \/ RecordAbandon(m) PROVE Kept
    BY <2>3 DEF RecordSent, RecordAbandon
  <2>4. ASSUME NEW r \in Request, NEW m \in Mail,
               VerifyAccept(r, m) \/ VerifyRefuse(r, m) \/ VerifyFails(r, m)
        PROVE  Kept
    <3>1. challenge[m] = "sent"
      BY <2>4 DEF IInv, LockInv, VerifyAccept, VerifyRefuse, VerifyFails
    <3>2. QED
      BY <2>4, <3>1 DEF VerifyAccept, VerifyRefuse, VerifyFails
  <2>5. QED
    BY <2>1, <2>2, <2>3, <2>4
    DEF Next, Deliver, Verify, ToggleMail, BecomeDue, Expire, Claim, Submit, RecordRetry,
        RecordGiveUp, RecordFails, VerifyRead, Crash
<1>2. QED
  BY <1>1, TypeCorrect, InductiveInvariant, PTL DEF Spec, SpentForGood

\* Nothing is sent, claimed or rewritten once the outbox row is final.
THEOREM SettledStaysSettled == Spec => SettledForGood
<1> DEFINE Kept == \A m \in Mail : outbox[m] \in Final =>
       outbox'[m] = outbox[m] /\ attempts'[m] = attempts[m] /\ accepted'[m] = accepted[m]
<1>1. TypeOK /\ IInv /\ [Next]_vars => [Kept]_vars
  <2> SUFFICES ASSUME TypeOK, IInv, Next PROVE Kept
    OBVIOUS
  <2> Idle \notin Mail
    BY DEF Idle, Mail
  <2> USE DEF TypeOK, Final, rows, observed
  <2>1. CASE UNCHANGED <<outbox, attempts, accepted>>
    BY <2>1
  <2>2. ASSUME NEW m \in Mail, Enqueue(m) \/ Claim(m) PROVE Kept
    BY <2>2 DEF Enqueue, Claim, Claimable, Pending
  <2>3. ASSUME NEW m \in Mail,
               Submit(m) \/ RecordSent(m) \/ RecordRetry(m) \/ RecordGiveUp(m)
        PROVE  Kept
    <3>1. \E step \in {"claimed", "sent", "retry", "giveup"} : worker = [step |-> step, row |-> m]
      BY <2>3 DEF Submit, RecordSent, RecordRetry, RecordGiveUp
    <3>2. outbox[m] = "sending"
      BY <3>1 DEF IInv, WorkerInv
    <3>3. QED
      BY <2>3, <3>2 DEF Submit, RecordSent, RecordRetry, RecordGiveUp
  <2>4. QED
    BY <2>1, <2>2, <2>3
    DEF Next, Deliver, Verify, ToggleMail, BecomeDue, Expire, RecordAbandon, RecordFails,
        VerifyRead, VerifyAccept, VerifyRefuse, VerifyFails, Crash
<1>2. QED
  BY <1>1, TypeCorrect, InductiveInvariant, PTL DEF Spec, SettledForGood

\* A call of Verify that ends gives up the only lock on its row.
LEMMA ReleaseUnlocks ==
  ASSUME TypeOK, LockInv, NEW r \in Request, NEW m \in Mail, Holding(r, m), Release(r)
  PROVE  Locked(m) /\ ~Locked(m)' /\ \A k \in Mail \ {m} : Locked(k)' <=> Locked(k)
<1> Idle \notin Mail
  BY DEF Idle, Mail
<1>1. \A q \in Request : q # r => request'[q] = request[q]
  BY DEF TypeOK, Release
<1>2. request'[r].row = Idle
  BY DEF TypeOK, Release, FreeRequest
<1>3. QED
  BY <1>1, <1>2 DEF LockInv, Locked, Holding

\* Queue, worker, row locks and faults implement the abstract code.
THEOREM Refinement == Spec => ImplementsVerificationCode
<1> DEFINE phase == [m \in Mail |-> Phase(m)]
<1>1. Init => Abstract!Init
  BY DEF Init, Abstract!Init, Phase
<1>2. TypeOK /\ IInv /\ [Next]_vars => [Abstract!Next]_<<phase, guesses>>
  <2> SUFFICES ASSUME TypeOK, IInv, [Next]_vars
               PROVE  Abstract!Next \/ UNCHANGED <<phase, guesses>>
    OBVIOUS
  <2> Idle \notin Mail
    BY DEF Idle, Mail
  <2> USE DEF TypeOK, Spent, codes, IInv, RowsInv
  <2> DEFINE Only(m) == \A k \in Mail \ {m} : Phase(k)' = Phase(k)
  <2>0. ASSUME NEW m \in Mail, NEW x, Only(m), Phase(m)' = x
        PROVE  phase' = [phase EXCEPT ![m] = x]
    BY <2>0
  <2>1. CASE UNCHANGED <<challenge, guesses, expired, request>>
    BY <2>1 DEF Phase, Locked, Holding
  <2>2. ASSUME NEW m \in Mail, Enqueue(m) PROVE Abstract!Issue(m)
    <3>1. Only(m) /\ Phase(m) = "unissued" /\ Phase(m)' = "pending"
      BY <2>2 DEF Enqueue, Phase, Locked, Holding
    <3>2. QED
      BY <2>0, <2>2, <3>1 DEF Enqueue, Abstract!Issue, Abstract!Move
  <2>3. ASSUME NEW m \in Mail, Expire(m)
        PROVE  Abstract!Lapse({m}) \/ UNCHANGED <<phase, guesses>>
    <3>1. Only(m) /\ Phase(m) = "live" /\ Phase(m)' \in {"live", "void"}
      BY <2>3 DEF Expire, Phase, Locked, Holding
    <3>2. QED
      BY <2>3, <3>1 DEF Expire, Abstract!Lapse
  <2>4. ASSUME NEW m \in Mail, RecordSent(m)
        PROVE  Abstract!Activate(m) \/ UNCHANGED <<phase, guesses>>
    <3>1. Only(m)
      BY <2>4 DEF RecordSent, Phase, Locked, Holding
    <3>2. CASE challenge[m] = "queued"
      <4>1. Phase(m) = "pending" /\ Phase(m)' = "live"
        BY <2>4, <3>2 DEF RecordSent, Phase
      <4>2. QED
        BY <2>0, <2>4, <3>1, <4>1 DEF RecordSent, Abstract!Activate, Abstract!Move
    <3>3. CASE challenge[m] # "queued"
      BY <2>4, <3>3 DEF RecordSent, Phase, Locked, Holding
    <3>4. QED
      BY <3>2, <3>3
  <2>5. ASSUME NEW m \in Mail, RecordAbandon(m)
        PROVE  Abstract!Abandon(m) \/ UNCHANGED <<phase, guesses>>
    <3>1. Only(m)
      BY <2>5 DEF RecordAbandon, Phase, Locked, Holding
    <3>2. CASE challenge[m] = "queued"
      <4>1. Phase(m) = "pending" /\ Phase(m)' = "void"
        BY <2>5, <3>2 DEF RecordAbandon, Phase
      <4>2. QED
        BY <2>0, <2>5, <3>1, <4>1 DEF RecordAbandon, Abstract!Abandon, Abstract!Move
    <3>3. CASE challenge[m] # "queued"
      BY <2>5, <3>3 DEF RecordAbandon, Phase, Locked, Holding
    <3>4. QED
      BY <3>2, <3>3
  <2>6. ASSUME NEW r \in Request, NEW m \in Mail, VerifyRead(r, m)
        PROVE  UNCHANGED <<phase, guesses>>
    <3>1. ~expired[m] /\ \A k \in Mail \ {m} : Locked(k)' <=> Locked(k)
      BY <2>6 DEF VerifyRead, Locked, Holding, FreeRequest
    <3>2. \A k \in Mail : Phase(k)' = Phase(k)
      BY <2>6, <3>1 DEF VerifyRead, Phase
    <3>3. QED
      BY <2>6, <3>2 DEF VerifyRead
  <2>7. ASSUME NEW r \in Request, NEW m \in Mail, Holding(r, m), Release(r)
        PROVE  challenge[m] = "sent" /\ request[r].read = guesses[m] /\ Phase(m) = "live"
    BY <2>7, ReleaseUnlocks DEF LockInv, Phase
  <2>8. ASSUME NEW r \in Request, NEW m \in Mail, VerifyAccept(r, m)
        PROVE  Abstract!Redeem(m)
    <3>1. Only(m) /\ Phase(m) = "live" /\ Phase(m)' = "redeemed"
      BY <2>7, <2>8, ReleaseUnlocks DEF VerifyAccept, Phase
    <3>2. QED
      BY <2>0, <2>8, <3>1 DEF VerifyAccept, Abstract!Redeem, Abstract!Move
  <2>9. ASSUME NEW r \in Request, NEW m \in Mail, VerifyRefuse(r, m)
        PROVE  Abstract!Guess(m)
    <3>1. Only(m) /\ Phase(m) = "live" /\ guesses' = [guesses EXCEPT ![m] = @ + 1]
      BY <2>7, <2>9, ReleaseUnlocks, ZenonT(60) DEF VerifyRefuse, Phase
    <3>2. Phase(m)' = "void" \/ (Phase(m)' = "live" /\ guesses[m] + 1 < MaxGuesses)
      BY <2>7, <2>9, ReleaseUnlocks, EmailAssumption DEF VerifyRefuse, Phase
    <3>3. QED
      BY <2>0, <3>1, <3>2 DEF Abstract!Guess, Abstract!Move
  <2>10. ASSUME NEW r \in Request, NEW m \in Mail, VerifyFails(r, m)
         PROVE  Abstract!Redeem(m) \/ Abstract!Lapse({m}) \/ UNCHANGED <<phase, guesses>>
    <3>1. Holding(r, m) /\ Release(r) /\ UNCHANGED <<guesses, expired>>
      BY <2>10 DEF VerifyFails
    <3>2. challenge[m] = "sent" /\ Phase(m) = "live" /\ ~Locked(m)'
      BY <2>7, <3>1, ReleaseUnlocks
    <3>3. challenge' \in {challenge, [challenge EXCEPT ![m] = "used"]}
      BY <2>10 DEF VerifyFails
    <3>4. Only(m) /\ Phase(m)' \in {"redeemed", "void", "live"}
      BY <3>1, <3>2, <3>3, ReleaseUnlocks DEF Phase
    <3>5. CASE Phase(m)' = "redeemed"
      BY <2>0, <3>1, <3>2, <3>4, <3>5 DEF Abstract!Redeem, Abstract!Move
    <3>6. CASE Phase(m)' \in {"void", "live"}
      BY <3>1, <3>2, <3>4, <3>6 DEF Abstract!Lapse
    <3>7. QED
      BY <3>4, <3>5, <3>6
  <2>11. ASSUME Crash
         PROVE  Abstract!Lapse({m \in Mail : Phase(m) = "live" /\ expired[m]})
    <3>1. \A m \in Mail : ~Locked(m)'
      BY <2>11 DEF Crash, FreeRequest, Locked, Holding
    <3>2. \A m \in Mail : Phase(m)' = IF Phase(m) = "live" /\ expired[m] THEN "void" ELSE Phase(m)
      BY <2>11, <3>1 DEF Crash, Phase
    <3>3. QED
      BY <2>11, <3>2 DEF Crash, Abstract!Lapse
  <2>12. QED
    <3>1. \A S \in SUBSET Mail : Abstract!Lapse(S) => Abstract!Next
      BY DEF Abstract!Next
    <3>2. ASSUME NEW m \in Mail,
                 \/ Abstract!Issue(m) \/ Abstract!Activate(m) \/ Abstract!Abandon(m)
                 \/ Abstract!Redeem(m) \/ Abstract!Guess(m)
          PROVE  Abstract!Next
      BY <3>2 DEF Abstract!Next
    <3>3. CASE ToggleMail \/ RecordFails \/ UNCHANGED vars
      BY <2>1, <3>3 DEF ToggleMail, RecordFails, vars
    <3>4. CASE \E m \in Mail : \/ BecomeDue(m) \/ Claim(m) \/ Submit(m)
                              \/ RecordRetry(m) \/ RecordGiveUp(m)
      BY <2>1, <3>4 DEF BecomeDue, Claim, Submit, RecordRetry, RecordGiveUp
    <3>5. ASSUME NEW m \in Mail, Enqueue(m) \/ Expire(m) \/ RecordSent(m) \/ RecordAbandon(m)
          PROVE  Abstract!Next \/ UNCHANGED <<phase, guesses>>
      <4>1. CASE Enqueue(m)
        BY <2>2, <3>2, <4>1
      <4>2. CASE Expire(m)
        <5>1. {m} \in SUBSET Mail
          OBVIOUS
        <5>2. QED
          BY <2>3, <3>1, <4>2, <5>1
      <4>3. CASE RecordSent(m)
        BY <2>4, <3>2, <4>3
      <4>4. CASE RecordAbandon(m)
        BY <2>5, <3>2, <4>4
      <4>5. QED
        BY <3>5, <4>1, <4>2, <4>3, <4>4
    <3>6. ASSUME NEW r \in Request, NEW m \in Mail,
                 VerifyRead(r, m) \/ VerifyAccept(r, m) \/ VerifyRefuse(r, m) \/ VerifyFails(r, m)
          PROVE  Abstract!Next \/ UNCHANGED <<phase, guesses>>
      <4>1. CASE VerifyRead(r, m)
        BY <2>6, <4>1
      <4>2. CASE VerifyAccept(r, m)
        BY <2>8, <3>2, <4>2
      <4>3. CASE VerifyRefuse(r, m)
        BY <2>9, <3>2, <4>3
      <4>4. CASE VerifyFails(r, m)
        BY <2>10, <3>1, <3>2, <4>4
      <4>5. QED
        BY <3>6, <4>1, <4>2, <4>3, <4>4
    <3>7. CASE Crash
      BY <2>11, <3>1, <3>7
    <3>8. QED
      BY <3>3, <3>4, <3>5, <3>6, <3>7 DEF Next, Deliver, Verify
<1>3. QED
  BY <1>1, <1>2, TypeCorrect, InductiveInvariant, PTL
  DEF Spec, ImplementsVerificationCode, Abstract!Spec
=============================================================================
