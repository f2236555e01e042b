---------------------------- MODULE EventJournal ----------------------------
(***************************************************************************)
(* What the retry queue promises, without slots, locks, caches or crashes.  *)
(* A persistence id is owed from the moment its row is durable; it is       *)
(* settled exactly once, by a receipt that names an event; an event is      *)
(* inserted under the id that is being settled, once, or as a repetition;   *)
(* nothing but retention removes an event.                                  *)
(***************************************************************************)
EXTENDS Naturals

CONSTANTS Obs, None,
          Copies     \* names of events that are no id's own

VARIABLES owed,      \* ids durably accepted and not settled
          receipts,  \* id -> the event that settled it
          stored     \* events that exist

vars == <<owed, receipts, stored>>

Init == owed = {} /\ receipts = [o \in Obs |-> None] /\ stored = {}

\* The sidecar takes an id that has no receipt yet.
Accept(o) ==
    /\ receipts[o] = None
    /\ owed' = owed \cup {o}
    /\ UNCHANGED <<receipts, stored>>

\* An id is settled by its own new event, or by one that was there before.
Settle(o) ==
    /\ receipts[o] = None
    /\ o \in owed
    /\ \/ /\ o \notin stored
          /\ receipts' = [receipts EXCEPT ![o] = o]
          /\ stored' = stored \cup {o}
       \/ \E v \in stored :
            /\ receipts' = [receipts EXCEPT ![o] = v]
            /\ UNCHANGED stored
    /\ owed' = owed \ {o}

Expire(v) ==
    /\ v \in stored
    /\ stored' = stored \ {v}
    /\ UNCHANGED <<owed, receipts>>

\* A second reading of what was settled already is set aside for review.
Repeat(c) ==
    /\ c \notin stored
    /\ \E o \in Obs : receipts[o] # None
    /\ stored' = stored \cup {c}
    /\ UNCHANGED <<owed, receipts>>

Next ==
    \/ \E o \in Obs : Accept(o) \/ Settle(o)
    \/ \E v \in stored : Expire(v)
    \/ \E c \in Copies : Repeat(c)

Spec == Init /\ [][Next]_vars
=============================================================================
