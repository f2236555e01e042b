----------------------------- MODULE EventRecord -----------------------------
(***************************************************************************)
(* What the row of an event promises, without readings that are retried,    *)
(* times, images, locks or the steps between.  A row is inserted without a  *)
(* decision.  One refresh at a time is planned for it; the plan names the   *)
(* row's plate, or its first one, and carries over the decision that the    *)
(* row shows when the plan is made.  The row changes to its plan, or by a   *)
(* decision, and a decided row is not deleted.                              *)
(***************************************************************************)
CONSTANTS Event, Plate, Unread

VARIABLES event,     \* rows that exist
          plate,     \* what they show
          reviewed,  \* rows that show a decision
          plan       \* event -> what a refresh under way will write

vars == <<event, plate, reviewed, plan>>

Known == Plate \cup {Unread}

Init == /\ event \subseteq Event /\ reviewed = {}
        /\ plate \in [Event -> Known]
        /\ plan = [e \in Event |-> {}]

Insert(e) ==
    /\ e \notin event
    /\ event' = event \cup {e}
    /\ \E p \in Known : plate' = [plate EXCEPT ![e] = p]
    /\ UNCHANGED <<reviewed, plan>>

Plan(e) ==
    /\ e \in event /\ plan[e] = {}
    /\ \E p \in Known :
          /\ plate[e] \in {Unread, p}
          /\ plan' = [plan EXCEPT ![e] = {[plate |-> p, reviewed |-> e \in reviewed]}]
    /\ UNCHANGED <<event, plate, reviewed>>

Refresh(e) ==
    /\ \E row \in plan[e] :
          /\ plate'    = [plate EXCEPT ![e] = row.plate]
          /\ reviewed' = IF row.reviewed THEN reviewed \cup {e} ELSE reviewed \ {e}
    /\ plan' = [plan EXCEPT ![e] = {}]
    /\ UNCHANGED event

\* A refresh fails, or the process ends with all of them.
GiveUp(e) == plan' = [plan EXCEPT ![e] = {}] /\ UNCHANGED <<event, plate, reviewed>>
End == plan' = [e \in Event |-> {}] /\ UNCHANGED <<event, plate, reviewed>>

Decide(e) ==
    /\ e \in event
    /\ \E p \in Plate : plate' = [plate EXCEPT ![e] = p]
    /\ reviewed' = reviewed \cup {e}
    /\ UNCHANGED <<event, plan>>

Delete(e) ==
    /\ e \in event \ reviewed /\ plan[e] = {}
    /\ event' = event \ {e}
    /\ UNCHANGED <<plate, reviewed, plan>>

Next ==
    \/ \E e \in Event : Insert(e) \/ Plan(e) \/ Refresh(e) \/ GiveUp(e) \/ Decide(e) \/ Delete(e)
    \/ End

Spec == Init /\ [][Next]_vars
=============================================================================
