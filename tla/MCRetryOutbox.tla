--------------------------- MODULE MCRetryOutbox ---------------------------
(* Small instances of RetryOutbox: one camera, two tracks.                  *)
EXTENDS RetryOutbox, TLC

CONSTANTS guess, strict, other, plateA, plateB, s1, s2

\* A review-only guess and its strict correction on one track, and a strict
\* reading of another plate that the tracker still associates with that track:
\* it does not follow the guess, but may inherit its event.  A review reading may
\* follow a strict one of its track too: it has no plate that could differ.
MCKeys    == {guess, strict, other}
MCScope   == [k \in MCKeys |-> 1]
MCIdent   == (guess :> NoPlate) @@ (strict :> plateA) @@ (other :> plateB)
MCFollows == {<<guess, strict>>, <<strict, guess>>} \cup {<<k, k>> : k \in MCKeys}

\* Only the guess and its correction.
ChainKeys    == {guess, strict}
ChainScope   == [k \in ChainKeys |-> 1]
ChainIdent   == (guess :> NoPlate) @@ (strict :> plateA)
ChainFollows == {<<guess, strict>>} \cup {<<k, k>> : k \in ChainKeys}

Symmetry == Permutations({s1, s2})

\* Bound: the camera is removed only where nothing crashes and nobody corrects.
RemovedAlone == removals > 0 => crashes = 0 /\ corrections = 0
=============================================================================
