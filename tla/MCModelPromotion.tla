--------------------------- MODULE MCModelPromotion ---------------------------
(* Two runs, two administrators, two Golden sets.                           *)
EXTENDS ModelPromotion, TLC

CONSTANTS n1, n2, q1, q2, g1, g2

MCRun     == {n1, n2}
MCRequest == {q1, q2}
MCDigest  == {g1, g2}

Symmetry == Permutations(MCRun) \cup Permutations(MCRequest) \cup Permutations(MCDigest)
=============================================================================
