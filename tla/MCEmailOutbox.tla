---------------------------- MODULE MCEmailOutbox ----------------------------
(* A small instance of EmailOutbox for TLC.  Its calls of Verify are           *)
(* interchangeable, but symmetry is unsound for what must eventually happen.   *)
EXTENDS EmailOutbox

CONSTANTS r1, r2

MCRequest == {r1, r2}
=============================================================================
