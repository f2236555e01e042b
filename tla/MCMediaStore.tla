---------------------------- MODULE MCMediaStore ----------------------------
(* Two events that write, one piece of earlier evidence, room for two.      *)
EXTENDS MediaStore, TLC

CONSTANTS a, b, o

MCPath == {a, b, o}
MCOld  == {o}
Unit   == [p \in MCPath |-> 1]

Symmetry == Permutations({a, b})
=============================================================================
