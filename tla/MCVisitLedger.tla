---------------------------- MODULE MCVisitLedger ----------------------------
(* Two plates that differ in one slot and one that differs from both; two     *)
(* tracks at one place, one of which may read two of the plates.              *)
EXTENDS VisitLedger

CONSTANTS t1, t2, p, q, r

MCTracks == {t1, t2}
MCPlates == {p, q, r}
MCNear   == {<<k, k>> : k \in MCPlates} \cup {<<p, q>>, <<q, p>>}
MCClose  == MCTracks \X MCTracks
MCReads  == {<<t1, p>>, <<t1, r>>, <<t2, q>>}
=============================================================================
