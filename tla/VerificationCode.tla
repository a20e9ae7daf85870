--------------------------- MODULE VerificationCode ---------------------------
(***************************************************************************)
(* What a verification code promises to the handlers that rely on it,      *)
(* without queue, worker, locks or faults: a code is issued, becomes live  *)
(* when its mail is out, survives fewer than MaxGuesses wrong guesses, and *)
(* ends either redeemed, by one redemption of a live code, or void.        *)
(***************************************************************************)
EXTENDS Naturals

CONSTANTS Code, MaxGuesses

VARIABLES phase, wrong

TypeOK ==
  /\ phase \in [Code -> {"unissued", "pending", "live", "redeemed", "void"}]
  /\ wrong \in [Code -> Nat]

Init ==
  /\ phase = [c \in Code |-> "unissued"]
  /\ wrong = [c \in Code |-> 0]

Move(c, from, to) == phase[c] = from /\ phase' = [phase EXCEPT ![c] = to]

Issue(c)    == Move(c, "unissued", "pending") /\ UNCHANGED wrong
Activate(c) == Move(c, "pending", "live") /\ UNCHANGED wrong
Abandon(c)  == Move(c, "pending", "void") /\ UNCHANGED wrong
Redeem(c)   == Move(c, "live", "redeemed") /\ UNCHANGED wrong

\* A wrong guess is counted; the last permitted one, or one whose code lapsed
\* meanwhile, leaves the code void.
Guess(c) ==
  /\ wrong' = [wrong EXCEPT ![c] = @ + 1]
  /\ \/ Move(c, "live", "live") /\ wrong[c] + 1 < MaxGuesses
     \/ Move(c, "live", "void")

\* Time makes live codes void, several at once if their calls end together.
Lapse(S) ==
  /\ \A c \in S : phase[c] = "live"
  /\ phase' = [c \in Code |-> IF c \in S THEN "void" ELSE phase[c]]
  /\ UNCHANGED wrong

Next ==
  \/ \E c \in Code : Issue(c) \/ Activate(c) \/ Abandon(c) \/ Redeem(c) \/ Guess(c)
  \/ \E S \in SUBSET Code : Lapse(S)

Spec == Init /\ [][Next]_<<phase, wrong>>
=============================================================================
