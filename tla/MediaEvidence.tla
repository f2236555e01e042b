--------------------------- MODULE MediaEvidence ---------------------------
(***************************************************************************)
(* What the media store promises about a file, without journals, quarantine *)
(* or crashes: a file is published, and may be withdrawn as long as no row  *)
(* of the database names it; once a row does, only the quota or retention   *)
(* may discard it, and what is discarded never returns.                     *)
(***************************************************************************)
CONSTANT Id

VARIABLES held,     \* files that exist, in place or set aside
          owned,    \* files some committed row named
          expired   \* files the quota or retention discarded

vars == <<held, owned, expired>>

Init == held \subseteq Id /\ owned = held /\ expired = {}

Publish(i) ==
    /\ i \notin held \cup owned \cup expired
    /\ held' = held \cup {i}
    /\ UNCHANGED <<owned, expired>>

\* A row may still come to name a file that has just been discarded.
Own(i) ==
    /\ i \in held \cup expired
    /\ owned' = owned \cup {i}
    /\ UNCHANGED <<held, expired>>

Withdraw(i) ==
    /\ i \in held \ owned
    /\ held' = held \ {i}
    /\ UNCHANGED <<owned, expired>>

Discard(S) ==
    /\ held' = held \ S /\ expired' = expired \cup S
    /\ UNCHANGED owned

Next == \/ \E i \in Id : Publish(i) \/ Own(i) \/ Withdraw(i)
        \/ \E S \in SUBSET held : Discard(S)

Spec == Init /\ [][Next]_vars
=============================================================================
