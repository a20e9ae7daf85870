----------------------------- MODULE MCLoadouts -----------------------------
(* Two rows, two data versions and two requests at once: a creation or a    *)
(* restoration that meets a build taken meanwhile, an edit under other game *)
(* data, and two edits of one loadout.  One row may be older than           *)
(* build_hash, with one write left for what may follow.                     *)
EXTENDS Loadouts, TLC

CONSTANTS l1, l2, b1, d1, d2, n1, e1, e2

MCInit == /\ Init
          /\ \E l \in Loadout : /\ row[l].version \in {0, MaxWrites - 1}
                              /\ \A k \in Loadout \ {l} : row[k] = NoRow
MCSpec == MCInit /\ [][Next]_store

Symmetry == Permutations({l1, l2}) \cup Permutations({d1, d2}) \cup Permutations({e1, e2})
=============================================================================
