\* Two mails, two concurrent calls of Verify and one fault anywhere, under the
\* fairness of the worker's loop.
SPECIFICATION LiveSpec
CONSTANTS
  r1 = r1
  r2 = r2
  Request <- MCRequest
  MaxMail = 2
  MaxSends = 2
  MaxGuesses = 2
  MaxFaults = 1
INVARIANTS
  PayloadKeptWhilePending
  UsableOnceDelivered
  SendsBounded
  RedeemedOnce
  GuessesCounted
PROPERTIES
  ImplementsVerificationCode
  EveryMailSettles
