----------------------------- MODULE MCFeedback -----------------------------
EXTENDS Feedback, TLC

CONSTANTS l1, b1, d1, d2, e1, p1, p2, p3, u1, f1, f2

Symmetry == Permutations({d1, d2}) \cup Permutations({p1, p2, p3}) \cup Permutations({f1, f2})
=============================================================================
