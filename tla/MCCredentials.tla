---------------------------- MODULE MCCredentials ----------------------------
(***************************************************************************)
(* A small instance of Credentials.  One user: no step of a request about  *)
(* one user reads or writes anything of another.                           *)
(***************************************************************************)
EXTENDS Credentials, TLC

CONSTANTS u1, s1, s2, r1, r2

\* Sessions and requests have no identity of their own.
Symmetry == Permutations(Session) \cup Permutations(Request)
=============================================================================
