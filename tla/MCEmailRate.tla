----------------------------- MODULE MCEmailRate -----------------------------
(* Small instances of EmailRate for TLC.                                   *)
EXTENDS EmailRate, TLC

CONSTANTS r1, r2, a, b, s, z

MCRequest == {r1, r2}
MCEmail   == {a, b}
MCSource  == {s, z}

\* Calls, addresses and sources are interchangeable.
MCSymmetry == Permutations(MCRequest) \cup Permutations(MCEmail)
                \cup Permutations(MCSource)
=============================================================================
