---------------------------- MODULE RetryOutbox ----------------------------
(***************************************************************************)
(* The retry queue of the live ANPR worker (src/app/ai/live_worker.py), its *)
(* durable sidecar (src/app/ai/persistence_outbox.py) and the rows the two  *)
(* finally write in the primary database: plate_events and                  *)
(* anpr_persistence_receipts.  One camera.                                   *)
(*                                                                         *)
(* An observation is a plate reading the tracker emitted; observations are  *)
(* numbered in the order they were made, and the number of the observation  *)
(* an entry was first built for stands for its uuid (persistence_id).  An   *)
(* event is named by the persistence id whose transaction inserted it.      *)
(*                                                                         *)
(* A slot is a _CameraState object that holds a persistence_retry map: the  *)
(* camera's live state, or a detached one (a removed camera's leftovers, or *)
(* rows the pump hydrated from the sidecar).  A slot is drained under its   *)
(* model_switch_lock, one entry at a time, by the inference thread, the     *)
(* pump, or remove()'s flush: task[s] is where that holder stands.          *)
(***************************************************************************)
EXTENDS Naturals, FiniteSets

CONSTANTS Slots,      \* _CameraState objects
          Keys,       \* retry keys: generation, revision, track, identity, kind
          Scope,      \* [Keys -> track scope]   (_retry_scope)
          Ident,      \* [Keys -> strict plate identity, or NoPlate]
          NoPlate,    \* a review-only reading: plate_norm stays empty
          Follows,    \* pairs of keys of one visual visit  (_retry_can_follow)
          LowCount,   \* PERSISTENCE_RETRY_LOW_COUNT, 16 in the code
          MaxObs,     \* bound: observations made
          MaxFaults,  \* bound: failing I/O calls and corrupted rows
          MaxCrashes, \* bound: process crashes
          MaxExpired, \* bound: events deleted by retention
          MaxCopies,  \* bound: rows inserted by replays
          MaxRemovals,    \* bound: camera removals
          MaxCorrections  \* bound: plates corrected by an operator

ASSUME BoundsAssumption ==
    /\ LowCount \in Nat \ {0}
    /\ MaxObs \in Nat \ {0}
    /\ MaxFaults \in Nat /\ MaxCrashes \in Nat
    /\ MaxExpired \in Nat /\ MaxCopies \in Nat
    /\ MaxRemovals \in Nat /\ MaxCorrections \in Nat

Obs  == 1 .. MaxObs
None == 0                        \* Python's None, and the empty predecessor_id
Ids  == Obs \cup {None}

\* Events: the one inserted with the receipt of an id, and the further rows that
\* replays insert.
EventIds  == 1 .. MaxObs + MaxCopies
Copies    == EventIds \ Obs
EventRefs == EventIds \cup {None}

\* The data the assumptions are about is opaque; only its shape matters.
ASSUME KeysAssumption ==
    /\ Follows \subseteq Keys \X Keys
    /\ DOMAIN Scope = Keys
    /\ DOMAIN Ident = Keys

Plates == {Ident[k] : k \in Keys} \cup {NoPlate}

VARIABLES
    outbox,     \* sidecar rows by retry_id                          (durable)
    receipts,   \* anpr_persistence_receipts: persistence id -> event (durable)
    events,     \* plate_events                                      (durable)
    slot,       \* what each _CameraState object is used for
    queue,      \* persistence_retry of each slot, by persistence id
    task,       \* progress of the holder of the slot's model_switch_lock
    failed,     \* failed_predecessors of the running drain
    known,      \* entries whose event is known: resolved_predecessors, and for
                \* the live slot its track bindings, visits and lineages
    loaded,     \* _loaded_outbox_ids
    nextObs,    \* the next observation
    faults, crashes, expired, removals, corrections,    \* uses of the bounds
    accepted,   \* history: newest payload whose upsert committed, per id
    inserts,    \* history: INSERTs into plate_events per persistence id
    copied,     \* history: the id whose replay inserted a further row
    recorded,   \* history: the payload behind each receipt
    lineage,    \* history: the predecessor an entry awaits its event from
    emitted     \* history: the keys each persistence id was emitted under

durable  == <<outbox, receipts, events>>
memory   == <<slot, queue, task, failed, known, loaded>>
bounds   == <<faults, crashes, expired, removals, corrections>>
history  == <<accepted, inserts, copied, recorded, lineage, emitted>>
vars     == <<durable, memory, nextObs, bounds, history>>

-----------------------------------------------------------------------------
(* Records.                                                                 *)

Entry == [key: Keys, obs: Obs, pred: Ids, event: EventRefs, spooled: BOOLEAN,
          committed: BOOLEAN, tried: BOOLEAN, rekeyed: BOOLEAN]
NoEntry == [obs |-> None]

Row   == [status: {"pending", "quarantined"}, key: Keys, obs: Obs,
          pred: Ids, event: EventRefs, tried: BOOLEAN]
NoRow == [status |-> "absent"]

Event   == [stored: BOOLEAN, ident: Plates, shows: Ids, newest: Ids,
            confirmed: BOOLEAN]
NoEvent == [stored |-> FALSE, ident |-> NoPlate, shows |-> None, newest |-> None,
            confirmed |-> FALSE]
NewEvent(ident, o) == [stored |-> TRUE, ident |-> ident, shows |-> o, newest |-> o,
                       confirmed |-> FALSE]

Known == [key: Keys, obs: Obs, event: EventIds]

Idle   == [pc |-> "idle", id |-> None, next |-> "idle"]
Task   == [pc: {"upsert", "register", "resolve", "commit", "delete", "discard"},
           id: Obs, next: {"idle", "resolve", "commit"}] \cup {Idle}

-----------------------------------------------------------------------------
(* Helpers.                                                                 *)

Held(s)  == {o \in Obs : queue[s][o] # NoEntry}
IsIdle(s) == task[s].pc = "idle"
Pending(o) == outbox[o].status = "pending"
InMemory == {c \in Slots \X Obs : c[2] \in Held(c[1])}

\* Of records that stand in one map, those whose observation is the newest.
Newest(S) == {x \in S : \A y \in S : y.obs =< x.obs}

\* Two observations of one visit, the second not older than the first.  That
\* they are at most 1.5 s apart is part of what Follows says of their keys.
CanFollow(p, e) == p.obs =< e.obs /\ <<p.key, e.key>> \in Follows

SameScope(p, e) == Scope[p.key] = Scope[e.key]

\* Nobody is inside a drain of s: its lock is free.
BetweenDrains(s) ==
    /\ IsIdle(s)
    /\ failed[s] = {}
    /\ slot[s] = "detached" => known[s] = {}

\* The live slot's own caches name the event of a reading's track or visit.
Hints(s, e) == {h.event : h \in {k \in known[s] : SameScope(k, e) \/ CanFollow(k, e)}}

\* resolved_predecessors: the last of the same track, else the only compatible.
ResolvedEvents(s, e) ==
    LET same   == {k \in known[s] : SameScope(k, e)}
        compat == {k \in known[s] : CanFollow(k, e)}
    IN  IF same # {} THEN {k.event : k \in Newest(same)}
        ELSE IF Cardinality(compat) = 1 THEN {k.event : k \in compat}
        ELSE {None}

\* The unfinished entry a new one has to wait for.
Predecessors(s, e) ==
    LET candidates == {o \in Held(s) : queue[s][o].event = None
                                       /\ CanFollow(queue[s][o], e)}
        same == {o \in candidates : SameScope(queue[s][o], e)}
    IN  IF same # {}
        THEN {o \in same : queue[s][o] \in Newest({queue[s][p] : p \in same})}
        ELSE IF Cardinality(candidates) = 1 THEN candidates
        ELSE {None}

Init ==
    /\ outbox = [o \in Obs |-> NoRow]
    /\ receipts = [o \in Obs |-> None]
    /\ events = [v \in EventIds |-> NoEvent]
    /\ slot \in [Slots -> {"live", "free"}]
    /\ \E s \in Slots : \A t \in Slots : slot[t] = "live" <=> t = s
    /\ queue = [s \in Slots |-> [o \in Obs |-> NoEntry]]
    /\ task = [s \in Slots |-> Idle]
    /\ failed = [s \in Slots |-> {}]
    /\ known = [s \in Slots |-> {}]
    /\ loaded = {}
    /\ nextObs = 1
    /\ faults = 0 /\ crashes = 0 /\ expired = 0 /\ removals = 0 /\ corrections = 0
    /\ accepted = [o \in Obs |-> None]
    /\ inserts = [o \in Obs |-> 0]
    /\ copied = [c \in Copies |-> None]
    /\ recorded = [o \in Obs |-> None]
    /\ lineage = [o \in Obs |-> None]
    /\ emitted = [o \in Obs |-> {}]

-----------------------------------------------------------------------------
(* Enqueue: what _process does with each emitted reading, under the lock.   *)

\* The entry stored under key k itself, not one re-keyed behind it.
Previous(s, k) == {o \in Held(s) : queue[s][o].key = k /\ ~queue[s][o].rekeyed}

NewEntry(k, pred, event, tried) ==
    [key |-> k, obs |-> nextObs, pred |-> pred, event |-> event,
     spooled |-> FALSE, committed |-> FALSE, tried |-> tried, rekeyed |-> FALSE]

StartSpool(s, o, next) ==
    task' = [task EXCEPT ![s] = [pc |-> "upsert", id |-> o, next |-> next]]

Enqueue(s, k) ==
    /\ slot[s] = "live" /\ IsIdle(s) /\ nextObs =< MaxObs
    /\ nextObs' = nextObs + 1
    /\ \E bound \in Hints(s, NewEntry(k, None, None, FALSE)) \cup {None} :
        \/ \* no unfinished emission of this key
           /\ Previous(s, k) = {}
           /\ \E pred \in Predecessors(s, NewEntry(k, None, bound, FALSE)) :
                 queue' = [queue EXCEPT ![s][nextObs] = NewEntry(k, pred, bound, FALSE)]
           /\ StartSpool(s, nextObs, "idle")
        \/ \* refreshed in place: same persistence id, newer payload
           \E o \in Previous(s, k) :
              /\ ~queue[s][o].committed
              /\ LET old == queue[s][o]
                     event == IF old.event # None THEN old.event ELSE bound
                 IN  queue' = [queue EXCEPT ![s][o] =
                                 NewEntry(k, old.pred, event, old.tried)]
              /\ StartSpool(s, o, "idle")
        \/ \* a receipt froze the old payload: fresh id behind the old entry
           \E o \in Previous(s, k) :
              /\ queue[s][o].committed
              /\ queue' = [queue EXCEPT
                    ![s][o].rekeyed = TRUE,
                    ![s][nextObs] = NewEntry(k, o, queue[s][o].event, FALSE)]
              /\ StartSpool(s, nextObs, "idle")
    /\ LET o == task'[s].id
           e == queue'[s][o]
       IN  /\ lineage' = [lineage EXCEPT ![o] = IF e.event = None THEN e.pred ELSE None]
           /\ emitted' = [emitted EXCEPT ![o] = @ \cup {k}]
    /\ UNCHANGED <<durable, slot, failed, known, loaded, bounds, accepted, inserts,
                   copied, recorded>>

-----------------------------------------------------------------------------
(* _spool_retry: the upsert commits, and only then, in a second critical    *)
(* section, is the id entered in _loaded_outbox_ids.                        *)

Continue(s) ==
    task' = IF task[s].next = "idle" THEN [task EXCEPT ![s] = Idle]
                                     ELSE [task EXCEPT ![s].pc = task[s].next]

\* A failed attempt leaves the entry in the queue and lets the drain go on.
MarkFailure(s, o) ==
    /\ queue' = [queue EXCEPT ![s][o].tried = TRUE]
    /\ failed' = [failed EXCEPT ![s] = @ \cup {o}]
    /\ task' = [task EXCEPT ![s] = Idle]

\* update_failure: counts the attempt in the row, if it is pending.
CountAttempt(o) ==
    outbox' = IF Pending(o) THEN [outbox EXCEPT ![o].tried = TRUE] ELSE outbox

Fault == faults < MaxFaults /\ faults' = faults + 1

Upsert(s) ==
    /\ task[s].pc = "upsert"
    /\ LET o == task[s].id
           e == queue[s][o]
           old == outbox[o]
           rowEvent == IF old # NoRow /\ old.event # None THEN old.event ELSE e.event
           attempts == IF old # NoRow THEN old.tried ELSE e.tried
       IN  /\ outbox' = [outbox EXCEPT ![o] =
                 [status |-> "pending", key |-> e.key, obs |-> e.obs,
                  pred |-> e.pred, event |-> rowEvent, tried |-> attempts]]
           /\ accepted' = [accepted EXCEPT ![o] = e.obs]
    /\ task' = [task EXCEPT ![s].pc = "register"]
    /\ UNCHANGED <<receipts, events, slot, queue, failed, known, loaded, nextObs,
                   bounds, inserts, copied, recorded, lineage, emitted>>

UpsertFails(s) ==
    /\ task[s].pc = "upsert"
    /\ Fault
    /\ IF task[s].next = "idle"
       THEN /\ task' = [task EXCEPT ![s] = Idle]
            /\ UNCHANGED <<queue, failed>>
       ELSE MarkFailure(s, task[s].id)
    /\ UNCHANGED <<durable, slot, known, loaded, nextObs, crashes, expired, removals,
                   corrections, history>>

Register(s) ==
    /\ task[s].pc = "register"
    /\ loaded' = loaded \cup {task[s].id}
    /\ queue' = [queue EXCEPT ![s][task[s].id].spooled = TRUE]
    /\ Continue(s)
    /\ UNCHANGED <<durable, slot, failed, known, nextObs, bounds, history>>

-----------------------------------------------------------------------------
(* _drain_persistence_retry_locked, one entry at a time.                    *)

PredecessorHeld(s, o) == queue[s][o].pred \in Held(s) \ {o}
BlockedByFailure(s, o) == \E p \in failed[s] : CanFollow(queue[s][p], queue[s][o])

\* The retry is not due yet (exponential backoff, at most 8 s): it counts as
\* a failed predecessor of this drain.
NotDue(s, o) ==
    /\ IsIdle(s) /\ slot[s] # "loading"
    /\ o \in Held(s) \ failed[s] /\ queue[s][o].tried
    /\ failed' = [failed EXCEPT ![s] = @ \cup {o}]
    /\ UNCHANGED <<durable, slot, queue, task, known, loaded, nextObs, bounds, history>>

Eligible(s, o) ==
    /\ o \in Held(s) \ failed[s]
    /\ ~PredecessorHeld(s, o)
    /\ ~BlockedByFailure(s, o)

\* The live map is in order of first emission, but for entries re-keyed to its
\* end.  Hydrated entries stand in cursor order, which wraps: left open.
Earlier(s, p, o) == slot[s] = "live" /\ p < o /\ ~queue[s][p].rekeyed

Visit(s, o) ==
    /\ IsIdle(s) /\ slot[s] # "loading" /\ Eligible(s, o)
    /\ \A p \in Held(s) : Earlier(s, p, o) => ~Eligible(s, p)
    /\ IF queue[s][o].spooled
       THEN task' = [task EXCEPT ![s] = [pc |-> "resolve", id |-> o, next |-> "idle"]]
       ELSE StartSpool(s, o, "resolve")
    /\ UNCHANGED <<durable, slot, queue, failed, known, loaded, nextObs, bounds, history>>

\* Which event the write belongs to: the entry's own, one this drain or the
\* camera's caches know, or the one its predecessor's receipt names.
EffectiveEvents(s, o) ==
    LET e == queue[s][o]
        resolved == ResolvedEvents(s, e)
    IN  IF e.event # None THEN {e.event}
        ELSE IF resolved # {None} THEN resolved
        ELSE IF e.pred # None THEN {receipts[e.pred]}
        ELSE {None}

\* Mutant: an entry whose predecessor has no receipt is written on its own.
ResolveUnlinked(s) ==
    /\ task[s].pc = "resolve"
    /\ \E event \in EffectiveEvents(s, task[s].id) :
          queue' = [queue EXCEPT ![s][task[s].id].event = event]
    /\ task' = [task EXCEPT ![s].pc = "commit"]
    /\ UNCHANGED <<durable, slot, failed, known, loaded, nextObs, bounds, history>>

Resolve(s) ==
    /\ task[s].pc = "resolve"
    /\ LET o == task[s].id
       IN  \E event \in EffectiveEvents(s, o) :
           \/ \* "durable retry predecessor has no receipt"
              /\ event = None /\ queue[s][o].pred # None
              /\ MarkFailure(s, o)
              /\ CountAttempt(o)
           \/ \* the resolved chain is spooled before the write
              /\ event # None /\ queue[s][o].event # event
              /\ queue' = [queue EXCEPT ![s][o].event = event]
              /\ StartSpool(s, o, "commit")
              /\ UNCHANGED <<failed, outbox>>
           \/ /\ event # None => queue[s][o].event = event
              /\ event = None => queue[s][o].pred = None
              /\ task' = [task EXCEPT ![s].pc = "commit"]
              /\ UNCHANGED <<queue, failed, outbox>>
    /\ UNCHANGED <<receipts, events, slot, known, loaded, nextObs, bounds, history>>

-----------------------------------------------------------------------------
(* _persist, under the camera's event_commit_lock: the event and its receipt *)
(* commit in one transaction.                                               *)

StoredEvents == {v \in EventIds : events[v].stored}

\* Recent-identity reuse of a fresh strict reading: an event of the same
\* plate.  That it is recent is left open, so it may also be passed over.
Reusable(s, e) ==
    IF e.event = None /\ Ident[e.key] # NoPlate /\ slot[s] = "live"
    THEN {v \in StoredEvents : events[v].ident = Ident[e.key]}
    ELSE {}

\* What the row of event v becomes when entry e is written into it.
Refreshed(v, e) ==
    [stored |-> TRUE, ident |-> Ident[e.key], shows |-> e.obs,
     newest |-> IF events[v].newest > e.obs THEN events[v].newest ELSE e.obs,
     confirmed |-> events[v].confirmed]

\* The entry conflicts with the identity the event already has.
Conflicting(v, e) ==
    v \in StoredEvents /\ events[v].ident # NoPlate /\ Ident[e.key] # events[v].ident

\* It is a strict reading of another plate.
Contradicts(v, e) == Conflicting(v, e) /\ Ident[e.key] # NoPlate

\* Mutant: a late retry overwrites what the event shows.
NeverOutdated(v, e) == FALSE

\* The event already shows a later reading of the same plate.
Outdated(v, e) ==
    /\ v \in StoredEvents /\ events[v].newest > e.obs
    /\ Ident[e.key] # NoPlate /\ Ident[e.key] = events[v].ident

InsertEvent(o, e, ident) ==
    /\ events' = [events EXCEPT ![o] = NewEvent(ident, e.obs)]
    /\ inserts' = [inserts EXCEPT ![o] = @ + 1]

\* The write of entry o against event v (None: no event yet); its outcome is
\* the event the receipt names.
WriteEvent(o, e, v) ==
    \/ /\ Contradicts(v, e)                                \* a row for review
       /\ InsertEvent(o, e, NoPlate)
       /\ receipts' = [receipts EXCEPT ![o] = o]
    \/ /\ Conflicting(v, e) /\ Ident[e.key] = NoPlate      \* never a downgrade
       /\ receipts' = [receipts EXCEPT ![o] = v]
       /\ UNCHANGED <<events, inserts>>
    \/ /\ Outdated(v, e)                                   \* acknowledged only
       /\ receipts' = [receipts EXCEPT ![o] = v]
       /\ UNCHANGED <<events, inserts>>
    \/ /\ v \in StoredEvents
       /\ ~Conflicting(v, e) /\ ~Outdated(v, e)
       /\ events' = [events EXCEPT ![v] = Refreshed(v, e)]
       /\ receipts' = [receipts EXCEPT ![o] = v]
       /\ UNCHANGED inserts
    \/ /\ v \notin StoredEvents                             \* none, or expired
       /\ InsertEvent(o, e, Ident[e.key])
       /\ receipts' = [receipts EXCEPT ![o] = o]

Persisted(s, o, v) ==
    /\ queue' = [queue EXCEPT ![s][o] = [@ EXCEPT !.event = v, !.committed = TRUE]]
    /\ task' = [task EXCEPT ![s].pc = "delete"]

\* The name of the next row a replay inserts.
NextCopy(c) == c \in Copies /\ copied[c] = None /\ \A d \in Copies : d < c => copied[d] # None

\* A replay: the receipt is the answer, even if the event is gone.  But when the
\* event has another plate by now, the answer is dropped, and a row for review
\* inserted; the receipt stays as it is, so the next replay inserts one more.
Replay(s, o, e) ==
    /\ \/ /\ ~Contradicts(receipts[o], e)
          /\ Persisted(s, o, receipts[o])
          /\ UNCHANGED <<events, inserts, copied>>
       \/ /\ Contradicts(receipts[o], e)
          /\ \E c \in Copies :
               /\ NextCopy(c)
               /\ events' = [events EXCEPT ![c] = NewEvent(NoPlate, e.obs)]
               /\ copied' = [copied EXCEPT ![c] = o]
               /\ Persisted(s, o, c)
          /\ inserts' = [inserts EXCEPT ![o] = @ + 1]
    /\ UNCHANGED <<receipts, recorded>>

FirstWrite(s, o, e) ==
    /\ \E v \in Reusable(s, e) \cup {e.event} : WriteEvent(o, e, v)
    /\ recorded' = [recorded EXCEPT ![o] = e.obs]
    /\ Persisted(s, o, receipts'[o])
    /\ UNCHANGED copied

\* Mutant: the receipt is not looked up before the write.
CommitWithoutLookup(s) ==
    /\ task[s].pc = "commit"
    /\ FirstWrite(s, task[s].id, queue[s][task[s].id])
    /\ UNCHANGED <<outbox, slot, failed, known, loaded, nextObs, bounds, accepted,
                   lineage, emitted>>

Commit(s) ==
    /\ task[s].pc = "commit"
    /\ LET o == task[s].id
           e == queue[s][o]
       IN  IF receipts[o] # None THEN Replay(s, o, e) ELSE FirstWrite(s, o, e)
    /\ UNCHANGED <<outbox, slot, failed, known, loaded, nextObs, bounds, accepted,
                   lineage, emitted>>

CommitFails(s) ==
    /\ task[s].pc = "commit"
    /\ Fault
    /\ MarkFailure(s, task[s].id)
    /\ CountAttempt(task[s].id) \/ UNCHANGED outbox
    /\ UNCHANGED <<receipts, events, slot, known, loaded, nextObs,
                   crashes, expired, removals, corrections, history>>

-----------------------------------------------------------------------------
(* Acknowledgement: the sidecar row goes, then the id, then the entry.      *)

Delete(s) ==
    /\ task[s].pc = "delete"
    /\ outbox' = [outbox EXCEPT ![task[s].id] = NoRow]
    /\ task' = [task EXCEPT ![s].pc = "discard"]
    /\ UNCHANGED <<receipts, events, slot, queue, failed, known, loaded, nextObs,
                   bounds, history>>

DeleteFails(s) ==
    /\ task[s].pc = "delete"
    /\ Fault
    /\ MarkFailure(s, task[s].id)
    /\ CountAttempt(task[s].id) \/ UNCHANGED outbox
    /\ UNCHANGED <<receipts, events, slot, known, loaded, nextObs,
                   crashes, expired, removals, corrections, history>>

Acknowledge(s) ==
    /\ task[s].pc = "discard"
    /\ LET o == task[s].id
           e == queue[s][o]
       IN  /\ loaded' = loaded \ {o}
           /\ known' = [known EXCEPT ![s] = @ \cup
                          {[key |-> e.key, obs |-> e.obs, event |-> e.event]}]
           /\ queue' = [queue EXCEPT ![s][o] = NoEntry]
    /\ task' = [task EXCEPT ![s] = Idle]
    /\ UNCHANGED <<durable, slot, failed, nextObs, bounds, history>>

\* The lock is released.  The live caches may lose what they knew: the track
\* ended, the visit or lineage aged out, or the detector was switched.
EndDrain(s) ==
    /\ IsIdle(s) /\ (failed[s] # {} \/ known[s] # {})
    /\ failed' = [failed EXCEPT ![s] = {}]
    /\ \/ known' = [known EXCEPT ![s] = {}]
       \/ slot[s] = "live" /\ failed[s] # {} /\ UNCHANGED known
    /\ UNCHANGED <<durable, slot, queue, task, loaded, nextObs, bounds, history>>

-----------------------------------------------------------------------------
(* _hydrate_outbox_entries, on the pump thread.                             *)

Detached == {s \in Slots : slot[s] = "detached"}
Loading  == {s \in Slots : slot[s] = "loading"}
Free     == {s \in Slots : slot[s] = "free"}

\* The entry that a row becomes in memory; late: another entry has its key.
FromRow(o, late) ==
    LET row == outbox[o]
    IN  [key |-> row.key, obs |-> row.obs, pred |-> row.pred, event |-> row.event,
         spooled |-> TRUE, committed |-> FALSE, tried |-> row.tried, rekeyed |-> late]

\* One row not in memory yet joins the detached state of its camera, or a new
\* one (new_groups) that nobody else sees until the pass ends.  load, the check
\* and the entry in _loaded_outbox_ids are one section.
Hydrate(s, o) ==
    /\ Pending(o) /\ o \notin loaded
    /\ Cardinality(InMemory) < LowCount
    /\ IF Loading # {} THEN s \in Loading
       ELSE IF Detached # {} THEN s \in Detached ELSE s \in Free
    /\ BetweenDrains(s)
    /\ o \notin Held(s)
    /\ loaded' = loaded \cup {o}
    /\ slot' = [slot EXCEPT ![s] = IF @ = "free" THEN "loading" ELSE @]
    /\ queue' = [queue EXCEPT ![s][o] =
                   FromRow(o, \E p \in Held(s) : queue[s][p].key = outbox[o].key)]
    /\ UNCHANGED <<durable, task, failed, known, nextObs, bounds, history>>

\* The pass ends: its new group joins _detached_retry_states.
Publish(s) ==
    /\ slot[s] = "loading"
    /\ slot' = [slot EXCEPT ![s] = "detached"]
    /\ UNCHANGED <<durable, queue, task, failed, known, loaded, nextObs, bounds, history>>

\* The load of a later row raises: the new group is dropped with the pass, its
\* ids are not.
HydrateFails(s) ==
    /\ slot[s] = "loading" /\ BetweenDrains(s) /\ Cardinality(InMemory) < LowCount
    /\ slot' = [slot EXCEPT ![s] = "free"]
    /\ queue' = [queue EXCEPT ![s] = [o \in Obs |-> NoEntry]]
    /\ UNCHANGED <<durable, task, failed, known, loaded, nextObs, bounds, history>>

\* Mutant: an unreadable row is dropped.
QuarantineDrops(o) ==
    /\ Pending(o)
    /\ Fault
    /\ outbox' = [outbox EXCEPT ![o] = NoRow]
    /\ UNCHANGED <<receipts, events, memory, nextObs, crashes, expired, removals,
                   corrections, history>>

\* A row whose checksum or schema does not verify is set aside when load reads
\* it, whether or not its entry is in memory.
Quarantine(o) ==
    /\ Pending(o)
    /\ Fault
    /\ outbox' = [outbox EXCEPT ![o].status = "quarantined"]
    /\ UNCHANGED <<receipts, events, memory, nextObs, crashes, expired, removals,
                   corrections, history>>

\* Mutant: the evicted id stays in _loaded_outbox_ids.
EvictKeepsLoaded(s, o) ==
    /\ Cardinality(InMemory) >= LowCount /\ Loading = {}
    /\ slot[s] = "detached" /\ BetweenDrains(s)
    /\ o \in Held(s) /\ queue[s][o].spooled /\ queue[s][o].tried
    /\ \A p \in Held(s) : queue[s][p].pred # o
    /\ queue' = [queue EXCEPT ![s][o] = NoEntry]
    /\ UNCHANGED <<durable, slot, task, failed, known, loaded, nextObs, bounds, history>>

\* A full memory gives up one detached leaf that has failed already.
Evict(s, o) ==
    /\ Cardinality(InMemory) >= LowCount /\ Loading = {}
    /\ slot[s] = "detached" /\ BetweenDrains(s)
    /\ o \in Held(s) /\ queue[s][o].spooled /\ queue[s][o].tried
    /\ \A p \in Held(s) : queue[s][p].pred # o
    /\ queue' = [queue EXCEPT ![s][o] = NoEntry]
    /\ loaded' = loaded \ {o}
    /\ UNCHANGED <<durable, slot, task, failed, known, nextObs, bounds, history>>

\* The pump forgets detached states that have nothing left.
Prune(s) ==
    /\ slot[s] = "detached" /\ BetweenDrains(s) /\ Held(s) = {} /\ Loading = {}
    /\ slot' = [slot EXCEPT ![s] = "free"]
    /\ UNCHANGED <<durable, queue, task, failed, known, loaded, nextObs, bounds, history>>

-----------------------------------------------------------------------------
(* The camera and the process come and go.                                  *)

\* remove(): the state is retired; what its flush leaves stays detached.
Remove(s) ==
    /\ slot[s] = "live" /\ BetweenDrains(s) /\ removals < MaxRemovals
    /\ removals' = removals + 1
    /\ slot' = [slot EXCEPT ![s] = IF Held(s) = {} THEN "free" ELSE "detached"]
    /\ known' = [known EXCEPT ![s] = {}]
    /\ UNCHANGED <<durable, queue, task, failed, loaded, nextObs, faults, crashes,
                   expired, corrections, history>>

\* The next frame of the camera makes a new state.
Create(s) ==
    /\ \A t \in Slots : slot[t] # "live"
    /\ slot[s] = "free"
    /\ slot' = [slot EXCEPT ![s] = "live"]
    /\ UNCHANGED <<durable, queue, task, failed, known, loaded, nextObs, bounds, history>>

\* A new worker: nothing of the old one's memory is left, and the constructor
\* loads rows, as many as memory may hold, before any camera is served, those
\* first that the sidecar took first: in order, unless a spool failed.  (If that
\* load raises, the worker has no outbox and writes nothing until it is replaced
\* in turn.)
Restart ==
    /\ \E s \in Slots, S \in SUBSET {o \in Obs : Pending(o)} :
         /\ Cardinality(S) =< LowCount
         /\ \A o \in Obs : Pending(o) /\ o \notin S =>
               /\ Cardinality(S) = LowCount
               /\ faults = 0 => \A p \in S : p < o
         /\ slot' = [t \in Slots |-> IF t = s /\ S # {} THEN "detached" ELSE "free"]
         /\ queue' = [t \in Slots |-> [o \in Obs |->
               IF t = s /\ o \in S
               THEN FromRow(o, \E p \in S : p < o /\ outbox[p].key = outbox[o].key)
               ELSE NoEntry]]
         /\ loaded' = S
    /\ task' = [s \in Slots |-> Idle]
    /\ failed' = [s \in Slots |-> {}]
    /\ known' = [s \in Slots |-> {}]

\* shutdown() that flushed everything: the pump has stopped and no entry is
\* left.  (What a shutdown could not flush is, but for its durable rows, lost
\* with that worker: Crash.)
Stop ==
    /\ \E s \in Slots : slot[s] # "free"
    /\ \A s \in Slots : BetweenDrains(s) /\ Held(s) = {}
    /\ Restart
    /\ UNCHANGED <<durable, nextObs, bounds, history>>

\* Mutant: the receipts of an expired event go with it.
ExpireWithReceipts(v) ==
    /\ \A s \in Slots : slot[s] # "live"
    /\ events[v].stored /\ expired < MaxExpired
    /\ expired' = expired + 1
    /\ events' = [events EXCEPT ![v] = NoEvent]
    /\ receipts' = [o \in Obs |-> IF receipts[o] = v THEN None ELSE receipts[o]]
    /\ UNCHANGED <<outbox, memory, nextObs, faults, crashes, removals,
                   corrections, history>>

\* Retention deletes an event, before the worker starts or while a save of the
\* storage settings has the cameras stopped; a status poll may have started the
\* pump again by then (StorageMigration).  The receipts stay as tombstones, and
\* so does what an operator confirmed.
Expire(v) ==
    /\ \A s \in Slots : slot[s] # "live"
    /\ events[v].stored /\ ~events[v].confirmed /\ expired < MaxExpired
    /\ expired' = expired + 1
    /\ events' = [events EXCEPT ![v] = NoEvent]
    /\ UNCHANGED <<outbox, receipts, memory, nextObs, faults, crashes, removals,
                   corrections, history>>

\* An operator confirms or corrects the plate of an event: the event is as new
\* as the clock, and retention passes it over from now on.
Correct(v, p) ==
    /\ events[v].stored /\ corrections < MaxCorrections
    /\ corrections' = corrections + 1
    /\ events' = [events EXCEPT ![v].ident = p, ![v].confirmed = TRUE,
          ![v].newest = IF @ > nextObs - 1 THEN @ ELSE nextObs - 1]
    /\ UNCHANGED <<outbox, receipts, memory, nextObs, faults, crashes, expired,
                   removals, history>>

\* The process dies at any point and is started again.
Crash ==
    /\ crashes < MaxCrashes
    /\ crashes' = crashes + 1
    /\ Restart
    /\ UNCHANGED <<durable, nextObs, faults, expired, removals, corrections, history>>

-----------------------------------------------------------------------------
Holder(s) ==
    \/ Upsert(s) \/ UpsertFails(s) \/ Register(s)
    \/ Resolve(s) \/ Commit(s) \/ CommitFails(s)
    \/ Delete(s) \/ DeleteFails(s) \/ Acknowledge(s)
    \/ EndDrain(s)
    \/ \E o \in Obs : NotDue(s, o) \/ Visit(s, o)

Pump(s) == Publish(s) \/ HydrateFails(s) \/ Prune(s) \/ \E o \in Obs : Hydrate(s, o) \/ Evict(s, o)

Camera(s) == Remove(s) \/ Create(s) \/ \E k \in Keys : Enqueue(s, k)

Store ==
    \/ \E o \in Obs : Quarantine(o)
    \/ \E v \in EventIds : Expire(v) \/ \E p \in Plates \ {NoPlate} : Correct(v, p)

Next ==
    \/ \E s \in Slots : Holder(s) \/ Pump(s) \/ Camera(s)
    \/ Store
    \/ Stop
    \/ Crash

Spec == Init /\ [][Next]_vars

-----------------------------------------------------------------------------
(* Properties.                                                              *)

\* Every variable has its type, and a task stands on an entry that is held.
TypeOK ==
    /\ outbox \in [Obs -> Row \cup {NoRow}]
    /\ receipts \in [Obs -> EventRefs]
    /\ events \in [EventIds -> Event]
    /\ slot \in [Slots -> {"live", "detached", "loading", "free"}]
    /\ queue \in [Slots -> [Obs -> Entry \cup {NoEntry}]]
    /\ task \in [Slots -> Task]
    /\ failed \in [Slots -> SUBSET Obs]
    /\ known \in [Slots -> SUBSET Known]
    /\ loaded \in SUBSET Obs
    /\ nextObs \in 1 .. MaxObs + 1
    /\ faults \in Nat /\ crashes \in Nat /\ expired \in Nat /\ removals \in Nat
    /\ corrections \in Nat
    /\ accepted \in [Obs -> Ids]
    /\ inserts \in [Obs -> Nat] /\ copied \in [Copies -> Ids]
    /\ recorded \in [Obs -> Ids] /\ lineage \in [Obs -> Ids]
    /\ emitted \in [Obs -> SUBSET Keys]

\* An id whose row was once durable is never lost: until its receipt is
\* committed the row is there, pending or quarantined, through every failure,
\* eviction, camera removal and crash (module doc of persistence_outbox.py).
NothingLost ==
    \A o \in Obs : accepted[o] # None => outbox[o] # NoRow \/ receipts[o] # None

\* The rows that replays of q inserted, its event having another plate by then.
Repeats(q) == {c \in Copies : copied[c] = q}

\* No persistence id inserts two events, whatever copies of its entry are
\* drained, replayed after a crash, or retried after a failed ACK, but for one more
\* with each replay that found its event with another plate; and the only ids
\* without a receipt are those that inserted nothing.
InsertedOnce ==
    \A o \in Obs : /\ inserts[o] =< 1 + Cardinality(Repeats(o))
                   /\ receipts[o] = None => inserts[o] = 0

\* The events that the writes of entry q made or found: the one its receipt
\* names, and the rows its replays inserted once that event had another plate.
Outcomes(q) == IF receipts[q] = None THEN {}
               ELSE {receipts[q]} \cup Repeats(q)

\* Entry p has the track of entry o, or o may follow it.
SameVisit(p, o) ==
    \E j \in emitted[p], k \in emitted[o] : Scope[j] = Scope[k] \/ <<j, k>> \in Follows

\* The receipt of a correction never precedes that of the entry it corrects, or
\* of another one of the visit that was settled first, and names an event of
\* that entry: the correction never makes a second event while the visit's first
\* is still owed.  An event of its own it becomes only if that one has another
\* plate or is gone; one for review, which has no plate, only after retention.
\* (Order across failures, hydration, eviction and crashes.)
ChainKept ==
    \A o \in Obs : receipts[o] # None /\ lineage[o] # None =>
        /\ \E q \in Obs \ {o} : /\ q = lineage[o] \/ SameVisit(q, o)
                                /\ receipts[q] # None
                                /\ receipts[o] \in {o} \cup Outcomes(q)
        /\ receipts[o] = o => \/ expired > 0
                             \/ \E k \in emitted[o] : Ident[k] # NoPlate

\* A receipt is never rewritten, an identified event never loses its plate,
\* only an operator changes it, and the event never goes back to an older
\* reading: only retention takes it away, and then for good.
FrozenStep ==
    /\ \A o \in Obs : receipts[o] # None => receipts'[o] = receipts[o]
    /\ \A v \in EventIds : events[v].stored /\ events[v].ident # NoPlate =>
          \/ ~events'[v].stored
          \/ /\ events'[v].shows >= events[v].shows
             /\ events'[v].ident # NoPlate
             /\ events'[v].ident = events[v].ident \/ corrections' # corrections
    /\ \A v \in Obs : inserts[v] > 0 /\ ~events[v].stored => ~events'[v].stored
Frozen == [][FrozenStep]_vars

\* The queue implements the journal: crashes, hydration, eviction, retries
\* and replays are stuttering steps of what it promises.
Journal == INSTANCE EventJournal WITH
    Copies   <- Copies,
    owed     <- {o \in Obs : accepted[o] # None /\ receipts[o] = None},
    stored   <- StoredEvents
JournalSpec == Journal!Spec
=============================================================================
