---------------------------- MODULE MCEventReview ----------------------------
(* An event with an image, a reading of the same crop, two operators.       *)
EXTENDS EventReview, TLC

CONSTANTS a, b, x, y, r1, r2, same

MCReading == {a, b}
MCOld     == {a}
MCPlate   == {x, y}
Unnamed   == [i \in MCOld |-> Unread]
OneCamera == [i \in MCReading |-> 1]
Alike     == [i \in MCReading |-> same]
Two       == {r1, r2}

Symmetry == Permutations(Two) \cup Permutations(MCPlate)
=============================================================================
