------------------------ MODULE RetryOutboxLiveness ------------------------
(* RetryOutbox under the fairness of its two threads, with a history of the  *)
(* rows that failing passes of the pump have taken and not published.        *)
EXTENDS RetryOutbox

VARIABLE dropped   \* history: those rows, since the worker started

liveVars == <<vars, dropped>>

LiveInit == Init /\ dropped = {}
LiveNext ==
    \/ /\ \/ \E s \in Slots : \/ Holder(s) \/ Camera(s) \/ Publish(s) \/ Prune(s)
                              \/ \E o \in Obs : Hydrate(s, o) \/ Evict(s, o)
          \/ Store
       /\ UNCHANGED dropped
    \/ \E s \in Slots : HydrateFails(s) /\ dropped' = dropped \cup Held(s)
    \/ (Stop \/ Crash) /\ dropped' = {}   \* a new worker has new _loaded_outbox_ids

\* The pump wakes at least every half second, drains every state that has
\* entries, and calls hydrate first; a frame's drain runs to its end.  I/O
\* succeeds again after the faults the bound allows; passes that fail for another
\* reason are not bounded.
Settle(s) == Upsert(s) \/ Register(s) \/ Resolve(s) \/ Commit(s)
                \/ Delete(s) \/ Acknowledge(s)

\* Backoff is at most eight seconds, and the recovery cursor wraps: neither an
\* entry nor a row is passed over for ever, but each may be passed over often.
Fairness ==
    /\ \A s \in Slots : WF_vars(Settle(s) \/ EndDrain(s) \/ Publish(s))
    /\ \A o \in Obs : /\ SF_vars(\E s \in Slots : Visit(s, o))
                     /\ SF_vars(\E s \in Slots : Hydrate(s, o))
    /\ SF_vars(\E s \in Slots, o \in Obs : Evict(s, o))

LiveSpec == LiveInit /\ [][LiveNext]_liveVars /\ Fairness

\* Some copy of p survives from which p can still be settled, or it is settled.
Reachable(p) == receipts[p] # None \/ Pending(p) \/ \E s \in Slots : p \in Held(s)

\* A failed pass left the id of p in _loaded_outbox_ids: this worker has no entry
\* of it and does not read its row again.
Forgotten(p) == p \in dropped /\ \A s \in Slots : p \notin Held(s)

\* The row is forgotten by this worker, or waits for a predecessor that is, or
\* that will never have a receipt.
Stranded(o) ==
    LET Lost[p \in Obs] == \/ ~Reachable(p)
                           \/ /\ Pending(p) /\ receipts[p] = None
                              /\ \/ Forgotten(p)
                                 \/ /\ outbox[p].event = None /\ outbox[p].pred \in 1 .. p - 1
                                    /\ Lost[outbox[p].pred]
    IN  Pending(o) /\ Lost[o]

\* Every pending row is settled in the end, across failing I/O, a full memory,
\* failing passes of the pump, camera removals and crashes, unless it waits for an
\* entry that is lost, or this worker has forgotten it or what it waits for; the
\* next worker owes a forgotten row again.
EventuallySettled ==
    \A o \in Obs : Pending(o) ~> ~Pending(o) \/ receipts[o] # None \/ Stranded(o)
=============================================================================
