---------------------------- MODULE StorageGate ----------------------------
(***************************************************************************)
(* How HTTP requests that change data share the process with a save of the  *)
(* storage settings: WriterPreferredGate (src/app/storage_policy.py), the   *)
(* dependency that takes it for a request and the middleware that gives it  *)
(* back (src/app/main.py).  Every method of the gate is one critical        *)
(* section; between two tries a request sleeps.                             *)
(*                                                                         *)
(* A process r \in Requests is a client that sends one request after the    *)
(* other: a save of the storage settings (r \in Savers), or any other       *)
(* mutation.  A ticket is fresh for each save; it is named by its request,  *)
(* which never has two.                                                     *)
(***************************************************************************)
EXTENDS Naturals, FiniteSets, SequencesExt

CONSTANTS Requests, \* clients
          Savers,   \* those that POST /settings/storage
          NoTicket

ASSUME RequestsAssumption ==
    /\ IsFiniteSet(Requests)
    /\ Savers \subseteq Requests
    /\ NoTicket \notin Requests

VARIABLES
    readers,  \* _readers
    writer,   \* _writer
    waiting,  \* _waiting_writers
    pc,       \* how far each request has come
    required   \* _STORAGE_RESTART_REQUIRED

gateVars == <<readers, writer, waiting, pc, required>>

\* idle: not sent, or answered; polling: sleeps between two tries; admitted:
\* owns the gate, the restart flag not read yet; handling: the endpoint runs;
\* done: the endpoint returned, raised or was never reached.
GateSteps == {"idle", "polling", "admitted", "handling", "done"}

\* The request owns its slot: storage_gate_mode is published.
Owns(r) == pc[r] \in {"admitted", "handling", "done"}

Goes(r, from, to) == pc[r] = from /\ pc' = [pc EXCEPT ![r] = to]

GateInit ==
    /\ readers = 0
    /\ writer = NoTicket
    /\ waiting = <<>>
    /\ pc = [r \in Requests |-> "idle"]
    /\ required = FALSE

-----------------------------------------------------------------------------
(* The request arrives, its body read and parsed.                           *)

Arrive(r) ==
    /\ Goes(r, "idle", "polling")
    /\ waiting' = IF r \in Savers THEN Append(waiting, r) ELSE waiting
    /\ UNCHANGED <<readers, writer, required>>

\* try_acquire_shared() answered True.
AcquireShared(r) ==
    /\ r \notin Savers
    /\ Goes(r, "polling", "admitted")
    /\ writer = NoTicket /\ waiting = <<>>
    /\ readers' = readers + 1
    /\ UNCHANGED <<writer, waiting, required>>

\* Mutant: a save does not wait for the readers at work.
AcquireExclusiveEarly(r) ==
    /\ r \in Savers
    /\ Goes(r, "polling", "admitted")
    /\ writer = NoTicket
    /\ waiting # <<>> /\ Head(waiting) = r
    /\ waiting' = Tail(waiting)
    /\ writer' = r
    /\ UNCHANGED <<readers, required>>

\* try_acquire_exclusive(ticket) answered True.
AcquireExclusive(r) ==
    /\ r \in Savers
    /\ Goes(r, "polling", "admitted")
    /\ writer = NoTicket /\ readers = 0
    /\ waiting # <<>> /\ Head(waiting) = r
    /\ waiting' = Tail(waiting)
    /\ writer' = r
    /\ UNCHANGED <<readers, required>>

\* Mutant: the ticket of a cancelled save stays in the queue.
CancelKeepsTicket(r) ==
    /\ Goes(r, "polling", "idle")
    /\ UNCHANGED <<readers, writer, waiting, required>>

\* The sleep of a polling request is cancelled; its ticket, which stands in the
\* queue once, is removed.
Cancel(r) ==
    /\ Goes(r, "polling", "idle")
    /\ IF \E i \in 1 .. Len(waiting) : waiting[i] = r
       THEN \E i \in 1 .. Len(waiting) : waiting[i] = r /\ waiting' = RemoveAt(waiting, i)
       ELSE UNCHANGED waiting
    /\ UNCHANGED <<readers, writer, required>>

\* Mutant: the flag is not read again after the wait.
AdmitUnchecked(r) ==
    /\ Goes(r, "admitted", "handling")
    /\ UNCHANGED <<readers, writer, waiting, required>>

\* The dependency reads the flag with the slot in hand: _StorageRestartRequired.
CheckRestart(r) ==
    /\ Goes(r, "admitted", IF required THEN "done" ELSE "handling")
    /\ UNCHANGED <<readers, writer, waiting, required>>

-----------------------------------------------------------------------------
(* The endpoint, on a thread of its own.                                    *)

\* The save moved the storage root, or could not stop what writes to it: no
\* change may be made any more before the process is restarted.
RequireRestart(r) ==
    /\ r \in Savers /\ pc[r] = "handling"
    /\ required' = TRUE
    /\ UNCHANGED <<readers, writer, waiting, pc>>

Return(r) ==
    /\ Goes(r, "handling", "done")
    /\ UNCHANGED <<readers, writer, waiting, required>>

\* The middleware's finally clause, before a streaming body is consumed.
Release(r) ==
    /\ Goes(r, "done", "idle")
    /\ IF r \in Savers
       THEN writer = r /\ writer' = NoTicket /\ UNCHANGED readers
       ELSE readers > 0 /\ readers' = readers - 1 /\ UNCHANGED writer
    /\ UNCHANGED <<waiting, required>>

GateNext == \E r \in Requests :
    \/ Arrive(r) \/ AcquireShared(r) \/ AcquireExclusive(r) \/ Cancel(r)
    \/ CheckRestart(r) \/ RequireRestart(r) \/ Return(r) \/ Release(r)

GateSpec == GateInit /\ [][GateNext]_gateVars

\* The event loop wakes every sleeper again and endpoints come to an end;
\* nobody has to send a request, and none has to be cancelled.
Fairness == \A r \in Requests :
    WF_gateVars(AcquireExclusive(r) \/ CheckRestart(r) \/ Return(r) \/ Release(r))

FairGateSpec == GateSpec /\ Fairness

-----------------------------------------------------------------------------
(* Properties.                                                              *)

\* Every variable has its type.
GateTypeOK ==
    /\ readers \in Nat
    /\ writer \in Savers \cup {NoTicket}
    /\ waiting \in Seq(Savers)
    /\ pc \in [Requests -> GateSteps]
    /\ required \in BOOLEAN

\* A save of the storage settings has the data to itself: while it owns the
\* gate no other request that changes data owns it or is being handled.
Exclusion ==
    \A r \in Savers, q \in Requests : Owns(r) /\ Owns(q) => q = r

\* No slot and no ticket leaks, whoever is cancelled, refused or answered:
\* the gate counts the shared owners, knows its exclusive owner, and each save
\* that still polls stands in the queue once.  (A leaked reader or ticket would
\* lock every later request out.)
NoLeak ==
    /\ readers = Cardinality({r \in Requests \ Savers : Owns(r)})
    /\ \A r \in Savers : Owns(r) <=> writer = r
    /\ \A r \in Savers : pc[r] = "polling" <=> \E i \in 1 .. Len(waiting) : waiting[i] = r
    /\ \A i, j \in 1 .. Len(waiting) : waiting[i] = waiting[j] => i = j

\* Once a restart is required no endpoint that changes data starts: a request
\* admitted before the flag was set never slips past it.
FenceStep == required => \A r \in Requests : pc'[r] = "handling" => pc[r] = "handling"
Fence == [][FenceStep]_gateVars

\* And when it is set nobody but that save is at work.
FenceIsQuiet ==
    \A q \in Requests : required /\ pc[q] = "handling" => q \in Savers /\ writer = q

\* However many other requests keep arriving, a queued save is admitted, or
\* its client gives up ("so a continuous stream of normal requests cannot
\* starve the migration").
SaveServed == \A r \in Savers : pc[r] = "polling" ~> pc[r] # "polling"
=============================================================================
