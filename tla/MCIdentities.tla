----------------------------- MODULE MCIdentities -----------------------------
(* A small instance of Identities for TLC. *)
EXTENDS Identities, TLC

CONSTANTS a1, a2, n1, n2, e1, c1, c2, r1, r2

\* Accounts, names, codes and requests are interchangeable.
MCSymmetry ==
  Permutations({a1, a2}) \cup Permutations({n1, n2})
    \cup Permutations({c1, c2}) \cup Permutations({r1, r2})
=============================================================================
