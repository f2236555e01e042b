----------------------------- MODULE VisitLedger -----------------------------
(***************************************************************************)
(* The visit ledger of one camera (PlateVisitLedger of                      *)
(* src/app/ai/event_dedup.py) with the two parts of the live worker that    *)
(* use it: the frame, which shows the ledger the raw readings and asks it   *)
(* which event a stable result belongs to, and the drain, which writes the  *)
(* queued results and registers what was written                            *)
(* (src/app/ai/live_worker.py, _process_frame and                           *)
(* _drain_persistence_retry_locked).                                        *)
(*                                                                         *)
(* A track is a tracker id; a tracker never uses one again once it is gone. *)
(* A plate is a complete normalized reading.  What stays of a bounding box  *)
(* is which tracks are close to each other, so the last box of a visit is   *)
(* the track it was seen at.  All of it runs under the camera's             *)
(* model_switch_lock: the sidecar, its crashes and its detached states are  *)
(* RetryOutbox's.                                                           *)
(***************************************************************************)
EXTENDS Integers, FiniteSets, SequencesExt

CONSTANTS Tracks, Plates,
          NoTrack, NoPlate,
          Near,         \* pairs of plates that differ in one slot at most
          Close,        \* pairs of tracks at one place (_spatially_continuous)
          Reads,        \* bound: the plates the OCR may read at a track
          Cooldown,     \* duplicate_seconds
          AbsenceObservations, AbsenceTime,
          MaxGap,       \* the 1.5 s between two readings of a fragmented visit
          Window,       \* the 2 s around an observation a row counts as recent in
          Ticks,        \* time that may pass from a frame to the next
          MaxTime,      \* bound: the clock
          MaxEntries,   \* bound: results put in the queue
          MaxFaults     \* bound: writes that fail and detector models activated

ASSUME PlatesAssumption ==
    /\ NoPlate \notin Plates /\ NoTrack \notin Tracks
    /\ Near \subseteq Plates \X Plates
    /\ \A k \in Plates : <<k, k>> \in Near
    /\ \A p \in Near : <<p[2], p[1]>> \in Near
    /\ Close \subseteq Tracks \X Tracks
    /\ Reads \subseteq Tracks \X Plates

ASSUME TimesAssumption ==
    /\ {Cooldown, AbsenceTime, MaxGap, Window} \subseteq Nat
    /\ AbsenceObservations \in Nat \ {0}
    /\ Ticks \subseteq Nat \ {0}
    /\ {MaxTime, MaxEntries, MaxFaults} \subseteq Nat

Time     == 0 .. MaxTime
EntryIds == 1 .. MaxEntries
EventIds == 1 .. MaxEntries          \* an entry inserts one row at most
None     == 0
Refs     == EventIds \cup {None}

VARIABLES
    ledger,     \* the PlateVisitLedger
    now,        \* the frame's timestamp
    phase,      \* where the frame stands
    live,       \* active_track_ids() of the tracker
    gone,       \* ids the tracker has dropped
    leaving,    \* tracks that expired with this frame
    due,        \* tracks that may still have a row, then a result, in this frame
    observed,   \* visits a row of this frame has refreshed
    retired,    \* tracks observe() has found to be another vehicle's
    trackEvent, \* track_event_ids
    queue,      \* persistence_retry, in insertion order
    todo,       \* ids the running drain has still to try
    failed,     \* entries it has found failed
    resolved,   \* entries it has written, in order, each with its event
    lineages,   \* retry_lineages
    saved,      \* receipts: the event of each entry that was written
    row,        \* plate_events: plate_norm and updated_at
    nextId,     \* the next entry
    faults,     \* uses of the bound
    unseen,     \* history: frames since the visit was last refreshed
    aside       \* history: events inserted for an identity conflict

frame == <<now, phase, live, gone, leaving, due, observed, retired>>
pass  == <<todo, failed, resolved>>
store == <<saved, row>>
history == <<unseen, aside>>
vars  == <<ledger, frame, trackEvent, queue, pass, lineages, store, nextId,
           faults, history>>

-----------------------------------------------------------------------------
(* Readings.  A strict one is valid; a review one is a complete guess whose *)
(* plate_norm stays empty; a provisional guess may be upgraded on its own   *)
(* track, and an unstable one is provisional and names no visit.            *)

Blank == [key |-> NoPlate, strict |-> FALSE, provisional |-> FALSE, stable |-> TRUE]
Strict(k) == [Blank EXCEPT !.key = k, !.strict = TRUE]
Review(k) == [Blank EXCEPT !.key = k]
Guess(k, stable) == [Review(k) EXCEPT !.provisional = TRUE, !.stable = stable]

Rows    == {Blank} \cup {Strict(k) : k \in Plates} \cup {Review(k) : k \in Plates}
Results == Rows \cup {Guess(k, b) : k \in Plates, b \in BOOLEAN}

At(t, readings) ==
    {x \in readings : x.key = NoPlate \/ <<t, x.key>> \in Reads}

Larger(a, b) == IF a < b THEN b ELSE a

-----------------------------------------------------------------------------
(* The ledger.                                                              *)

EmptyLedger ==
    [ref       |-> [k \in Plates |-> None],
     confirmed |-> {},
     active    |-> {},
     seen      |-> [k \in Plates |-> 0],
     missing   |-> [k \in Plates |-> 0],
     absent    |-> [k \in Plates |-> None],
     box       |-> [k \in Plates |-> NoTrack],
     owner     |-> [k \in Plates |-> NoTrack],
     key       |-> [t \in Tracks |-> NoPlate],
     tracks    |-> [k \in Plates |-> {}]]

Known(L) == {k \in Plates : L.ref[k] # None}

Unbind(L, T) ==
    [L EXCEPT !.key = [t \in Tracks |-> IF t \in T THEN NoPlate ELSE @[t]],
              !.tracks = [k \in Plates |-> @[k] \ {t \in T : L.key[t] = k}]]

Bind(L, T, k) ==
    [Unbind(L, {t \in T : L.key[t] # k})
        EXCEPT !.key = [t \in Tracks |-> IF t \in T THEN k ELSE @[t]],
               !.tracks[k] = @ \cup T]

Touch(L, k, time) ==
    [L EXCEPT !.active = @ \cup {k}, !.seen[k] = Larger(@, time),
              !.missing[k] = 0, !.absent[k] = None]

\* Mutant: a visit that is forgotten keeps its event.
ForgetLoosely(L, K) ==
    LET clear(f, x) == [k \in Plates |-> IF k \in K THEN x ELSE f[k]]
    IN [Unbind(L, UNION {L.tracks[k] : k \in K})
           EXCEPT !.confirmed = @ \ K, !.active = @ \ K,
                  !.seen = clear(@, 0), !.box = clear(@, NoTrack),
                  !.owner = clear(@, NoTrack), !.missing = clear(@, 0),
                  !.absent = clear(@, None)]

Forget(L, K) ==
    LET clear(f, x) == [k \in Plates |-> IF k \in K THEN x ELSE f[k]]
    IN [Unbind(L, UNION {L.tracks[k] : k \in K})
           EXCEPT !.ref = clear(@, None), !.confirmed = @ \ K, !.active = @ \ K,
                  !.seen = clear(@, 0), !.box = clear(@, NoTrack),
                  !.owner = clear(@, NoTrack), !.missing = clear(@, 0),
                  !.absent = clear(@, None)]

Reusable(L, k) ==
    k \in Known(L) /\ (k \in L.active \/ now - L.seen[k] < Cooldown)

\* The provisional visits a strict reading of another track may continue.
Aliases(L, t, k) ==
    {a \in L.active \ L.confirmed :
        /\ a # k /\ <<a, k>> \in Near
        /\ now - L.seen[a] =< MaxGap
        /\ <<L.box[a], t>> \in Close}

\* The upgrade only the track that owns a provisional visit may make.
Upgrades(L, t, bound, reading) ==
    reading.strict /\ bound \notin L.confirmed /\ L.owner[bound] = t

CanReuse(L, t, reading) ==
    LET bound == L.key[t]
        key   == reading.key
    IN IF bound # NoPlate /\ ~reading.stable THEN bound \in Known(L)
       ELSE \/ NoPlate \in {bound, key}
            \/ bound = key
            \/ /\ bound \notin L.confirmed
               /\ (Upgrades(L, t, bound, reading) \/ <<bound, key>> \in Near)

\* A reading that cannot be the bound visit's is the boundary of a vehicle.
Conflicts(L, t, reading) ==
    LET bound == L.key[t]
    IN /\ NoPlate \notin {bound, reading.key} /\ bound # reading.key
       /\ \/ bound \in L.confirmed
          \/ (~Upgrades(L, t, bound, reading) /\ <<bound, reading.key>> \notin Near)

\* The visit of a row: the one its track is bound to, the one of its plate, the
\* only provisional one it may continue, or for a row without a plate the only
\* one that is active.
VisitOf(L, t, reading) ==
    LET key     == reading.key
        aliases == Aliases(L, t, key)
    IN CASE L.key[t] # NoPlate -> L.key[t]
         [] L.key[t] = NoPlate /\ key # NoPlate ->
              IF Reusable(L, key) THEN key
              ELSE IF reading.strict /\ Cardinality(aliases) = 1
                   THEN CHOOSE a \in aliases : TRUE ELSE NoPlate
         [] OTHER -> IF Cardinality(L.active) = 1
                     THEN CHOOSE a \in L.active : TRUE ELSE NoPlate

\* register(): the visit that ends up with the event, and the ledger.
Holders(L, key, event) == {a \in Plates \ {key} : L.ref[a] = event}

\* Mutant: a confirmed visit is protected only from plates that are far from it.
ProtectedFar(L, t, reading, a) ==
    /\ <<a, reading.key>> \notin Near
    /\ ~(a = L.key[t] /\ Upgrades(L, t, a, reading))

ProtectedAlias(L, t, reading, a) ==
    \/ a \in L.confirmed
    \/ /\ <<a, reading.key>> \notin Near
       /\ ~(a = L.key[t] /\ Upgrades(L, t, a, reading))

Registered(L, t, reading, event, time) ==
    LET key     == reading.key
        holders == Holders(L, key, event)
        guarded == {a \in holders : ProtectedAlias(L, t, reading, a)}
        alias   == CHOOSE a \in guarded : TRUE
        moved   == UNION {L.tracks[a] : a \in holders}
        seen    == {L.seen[a] : a \in holders} \cup {time}
        newest  == CHOOSE s \in seen : \A other \in seen : other =< s
        freed   == Forget(L, holders)
        other   == L.ref[key] \notin {None, event}
        base    == IF other
                   THEN [Unbind(freed, freed.tracks[key]) EXCEPT !.confirmed = @ \ {key}]
                   ELSE freed
        owned   == [base EXCEPT
                      !.ref[key] = event,
                      !.confirmed = IF reading.strict THEN @ \cup {key} ELSE @,
                      !.owner[key] = IF ~reading.strict /\ reading.provisional
                                     THEN t ELSE NoTrack]
    IN IF guarded # {}
       THEN [Touch(Bind(L, {t}, alias), alias, time) EXCEPT !.box[alias] = t]
       ELSE [Touch(Bind(owned, moved \cup {t}, key), key, newest) EXCEPT !.box[key] = t]

-----------------------------------------------------------------------------
(* The frame.                                                               *)

Init ==
    /\ ledger = EmptyLedger
    /\ now = 0 /\ phase = "idle" /\ live = {} /\ gone = {}
    /\ leaving = {} /\ due = {} /\ observed = {} /\ retired = {}
    /\ trackEvent = [t \in Tracks |-> None]
    /\ queue = <<>> /\ todo = <<>> /\ failed = {} /\ resolved = <<>>
    /\ lineages = {}
    /\ saved = [i \in EntryIds |-> None]
    /\ row = [e \in EventIds |-> [plate |-> NoPlate, at |-> None]]
    /\ nextId = 1 /\ faults = 0
    /\ unseen = [k \in Plates |-> 0] /\ aside = {}

\* The tracker has been shown the frame: some tracks have expired, some are new.
\* observe() begins by unbinding those that are not active.
StartFrame(tick, kept, new) ==
    /\ phase = "idle" /\ now + tick =< MaxTime
    /\ now' = now + tick
    /\ phase' = "rows"
    /\ live' = kept \cup new
    /\ leaving' = live \ kept
    /\ gone' = gone \cup leaving'
    /\ due' = live'
    /\ observed' = {} /\ retired' = {}
    /\ ledger' = Unbind(ledger, Tracks \ live')
    /\ UNCHANGED <<trackEvent, queue, pass, lineages, store, nextId, faults, history>>

\* One round of observe()'s loop over the rows.
ObserveRow(t, reading) ==
    LET conflict == Conflicts(ledger, t, reading)
        freed    == IF conflict THEN Unbind(ledger, {t}) ELSE ledger
        visit    == VisitOf(freed, t, reading)
        bound    == Bind(freed, {t}, visit)
    IN /\ phase = "rows" /\ t \in due
       /\ due' = due \ {t}
       /\ retired' = IF conflict THEN retired \cup {t} ELSE retired
       /\ IF visit \in Known(freed)
          THEN /\ ledger' = [Touch(bound, visit, now) EXCEPT !.box[visit] = t]
               /\ observed' = observed \cup {visit}
               /\ unseen' = [unseen EXCEPT ![visit] = 0]
          ELSE ledger' = freed /\ UNCHANGED <<observed, unseen>>
       /\ UNCHANGED <<now, phase, live, gone, leaving, trackEvent, queue, pass,
                      lineages, store, nextId, faults, aside>>

\* The rest of observe(): an active visit that no row refreshed has been missed
\* once more, one missed long enough is over, and one that is over and past its
\* cooldown is forgotten.  The frame then drops the tracks it was told to.
ObserveEnd ==
    LET L       == ledger
        missed  == L.active \ observed
        missing == [k \in Plates |-> IF k \in missed THEN L.missing[k] + 1
                                     ELSE L.missing[k]]
        absent  == [k \in Plates |-> IF k \in missed /\ L.absent[k] = None THEN now
                                     ELSE L.absent[k]]
        over    == {k \in missed : /\ missing[k] >= AbsenceObservations
                                   /\ now - absent[k] >= AbsenceTime}
        ended   == UNION {L.tracks[k] : k \in over}
        closed  == [Unbind(L, ended)
                      EXCEPT !.active = @ \ over,
                             !.missing = [k \in Plates |-> IF k \in over THEN 0
                                                           ELSE missing[k]],
                             !.absent = [k \in Plates |-> IF k \in over THEN None
                                                          ELSE absent[k]]]
        stale   == {k \in Known(L) \ closed.active : now - L.seen[k] >= Cooldown}
        next    == Forget(closed, stale)
        out     == retired \cup ended
    IN /\ phase = "rows"
       /\ phase' = "emit"
       /\ ledger' = next
       /\ live' = live \ out
       /\ gone' = gone \cup out
       /\ due' = live \cup leaving /\ leaving' = {}
       /\ trackEvent' = [t \in Tracks |->
                           IF next.key[t] \in Known(next) THEN next.ref[next.key[t]]
                           ELSE IF t \in out THEN None ELSE trackEvent[t]]
       /\ observed' = {} /\ retired' = {}
       /\ unseen' = [k \in Plates |-> IF k \in missed THEN unseen[k] + 1
                                      ELSE unseen[k]]
       /\ UNCHANGED <<now, queue, pass, lineages, store, nextId, faults, aside>>

-----------------------------------------------------------------------------
(* A stable result becomes an entry of the queue.                           *)

RetryKey(e) == <<e.current, e.track, e.reading.key, e.reading.strict>>

\* _retry_can_follow: two writes that belong to one visual visit.
CanFollow(p, e) ==
    LET gap == e.time - p.time
        old == p.reading
        new == e.reading
    IN /\ p.current = e.current
       /\ 0 =< gap /\ gap =< MaxGap
       /\ IF p.track = e.track
          THEN \/ NoPlate \in {old.key, new.key} \/ old.key = new.key
               \/ ~new.stable
               \/ /\ ~old.strict
                  /\ (<<old.key, new.key>> \in Near \/ (new.strict /\ old.provisional))
          ELSE /\ old.key # NoPlate /\ new.strict /\ ~old.strict
               /\ <<old.key, new.key>> \in Near
               /\ <<p.track, e.track>> \in Close

Queued == {queue[i] : i \in DOMAIN queue}

\* Of the entries of a sequence that may be followed (at the positions fit), the
\* last of e's track or else the only one.
Chosen(s, e, fit) ==
    LET same == {i \in fit : s[i].track = e.track}
        last == CHOOSE i \in same : \A j \in same : j =< i
    IN IF same # {} THEN {s[last]}
       ELSE IF Cardinality(fit) = 1 THEN {s[i] : i \in fit} ELSE {}

\* _select_retry_predecessor: the queued write this one must wait for.
Predecessor(e) ==
    LET waits(p) == p.event = None /\ CanFollow(p, e)
        chosen   == Chosen(queue, e, {i \in DOMAIN queue : waits(queue[i])})
    IN IF chosen = {} THEN None ELSE (CHOOSE p \in chosen : TRUE).id

\* _enqueue_persistence_retry: the same emission is replaced where it stands.
Enqueued(e) ==
    LET at == {i \in DOMAIN queue : RetryKey(queue[i]) = RetryKey(e)}
        merge(p) == [e EXCEPT !.id = p.id, !.pred = p.pred, !.tried = p.tried,
                              !.event = IF p.event # None THEN p.event ELSE @]
    IN IF at = {} THEN Append(queue, [e EXCEPT !.pred = Predecessor(e)])
       ELSE [i \in DOMAIN queue |-> IF i \in at THEN merge(queue[i]) ELSE queue[i]]

\* The frame handles one stable result: it asks whether the event its track is
\* bound to may be reused, then which event the plate's visit has.
Emit(t, reading) ==
    LET bound    == IF /\ trackEvent[t] # None
                       /\ CanReuse(ledger, t, reading) THEN trackEvent[t] ELSE None
        key      == reading.key
        reusable == key # NoPlate /\ Reusable(ledger, key)
        event    == IF reusable THEN ledger.ref[key] ELSE bound
        ignored  == event # None /\ (~reading.stable \/ key = NoPlate)
        entry    == [id |-> nextId, track |-> t, reading |-> reading, time |-> now,
                     event |-> event, pred |-> None, tried |-> FALSE,
                     current |-> TRUE]
    IN /\ phase = "emit" /\ t \in due /\ nextId =< MaxEntries
       /\ due' = due \ {t}
       /\ trackEvent' = IF trackEvent[t] # bound
                        THEN [trackEvent EXCEPT ![t] = None] ELSE trackEvent
       /\ IF reusable
          THEN /\ ledger' = Touch(Bind(ledger, {t}, key), key, now)
               /\ unseen' = [unseen EXCEPT ![key] = 0]
          ELSE UNCHANGED <<ledger, unseen>>
       /\ IF ignored THEN UNCHANGED <<queue, nextId>>
          ELSE queue' = Enqueued(entry) /\ nextId' = nextId + 1
       /\ UNCHANGED <<now, phase, live, gone, leaving, observed, retired, pass,
                      lineages, store, faults, aside>>

-----------------------------------------------------------------------------
(* The drain: at the end of the frame, or between two frames by the pump.   *)

Drain ==
    /\ phase = "emit" \/ (phase = "idle" /\ queue # <<>>)
    /\ phase' = IF phase = "emit" THEN "commit" ELSE "pump"
    /\ due' = {}
    /\ todo' = [i \in DOMAIN queue |-> queue[i].id]
    /\ failed' = {} /\ resolved' = <<>>
    /\ UNCHANGED <<ledger, now, live, gone, leaving, observed, retired, trackEvent,
                   queue, lineages, store, nextId, faults, history>>

Draining == phase \in {"commit", "pump"}
Entry(i) == CHOOSE e \in Queued : e.id = i
Without(i) == RemoveAt(queue, CHOOSE n \in DOMAIN queue : queue[n].id = i)

Bridges(e) == {l \in lineages : CanFollow(l, e)}

\* The event an entry is written to: its own, that of what this pass wrote for
\* its track or for the only entry it may follow, the one its track is bound to,
\* that of the only lineage it may follow, that of its predecessor.
OwnEvent(e) ==
    LET follows(r) == r.current = e.current /\ (r.track = e.track \/ CanFollow(r, e))
        wrote      == Chosen(resolved, e, {i \in DOMAIN resolved : follows(resolved[i])})
    IN IF e.event # None THEN e.event
       ELSE IF wrote # {} THEN saved[(CHOOSE r \in wrote : TRUE).id]
       ELSE IF /\ e.current /\ trackEvent[e.track] # None
               /\ CanReuse(ledger, e.track, e.reading) THEN trackEvent[e.track]
       ELSE None

UsesBridge(e) == /\ OwnEvent(e) = None /\ e.current
                 /\ Cardinality(Bridges(e)) = 1

ResolvedEvent(e) ==
    IF OwnEvent(e) # None THEN OwnEvent(e)
    ELSE IF UsesBridge(e) THEN (CHOOSE l \in Bridges(e) : TRUE).event
    ELSE IF e.pred # None THEN saved[e.pred] ELSE None

\* Of the events of one plate a strict reading may join: the last one updated.
Recent(e) ==
    LET fit == {v \in EventIds :
                  /\ row[v].at # None /\ row[v].plate = e.reading.key
                  /\ row[v].at >= e.time - Larger(Cooldown, Window)
                  /\ row[v].at =< e.time + Window}
    IN IF fit = {} THEN None
       ELSE CHOOSE v \in fit : \A w \in fit :
              row[w].at < row[v].at \/ (row[w].at = row[v].at /\ w =< v)

\* Mutant: a result overwrites whatever event it was sent to.
PersistedAnyway(e, event) ==
    LET target   == IF event = None /\ e.reading.strict /\ e.current
                    THEN Recent(e) ELSE event
        incoming == IF e.reading.strict THEN e.reading.key ELSE NoPlate
        event2   == IF target = None THEN e.id ELSE target
    IN [event |-> event2, aside |-> FALSE,
        row   |-> [row EXCEPT ![event2] = [plate |-> incoming, at |-> e.time]]]

\* Mutant: a strict result of another plate is acknowledged with the event it
\* was sent to, like a review result.
PersistedAcknowledged(e, event) ==
    LET target   == IF event = None /\ e.reading.strict /\ e.current
                    THEN Recent(e) ELSE event
        shown    == IF target = None THEN NoPlate ELSE row[target].plate
        incoming == IF e.reading.strict THEN e.reading.key ELSE NoPlate
        event2   == IF target = None THEN e.id ELSE target
    IN [event |-> event2, aside |-> FALSE,
        row   |-> IF shown \notin {NoPlate, incoming} THEN row
                  ELSE [row EXCEPT ![event2] = [plate |-> incoming, at |-> e.time]]]

\* _persist: the event the entry ends up with, and plate_events.
Persisted(e, event) ==
    LET target   == IF event = None /\ e.reading.strict /\ e.current
                    THEN Recent(e) ELSE event
        shown    == IF target = None THEN NoPlate ELSE row[target].plate
        incoming == IF e.reading.strict THEN e.reading.key ELSE NoPlate
        conflict == shown \notin {NoPlate, incoming}
        kept     == \/ (conflict /\ incoming = NoPlate)
                    \/ (~conflict /\ shown # NoPlate /\ row[target].at > e.time)
        event2   == IF target = None \/ (conflict /\ ~kept) THEN e.id ELSE target
        plate    == IF conflict THEN NoPlate ELSE incoming
        at       == IF event2 = target THEN Larger(e.time, row[target].at) ELSE e.time
    IN [event |-> event2,
        aside |-> conflict /\ ~kept,
        row   |-> IF kept THEN row
                  ELSE [row EXCEPT ![event2] = [plate |-> plate, at |-> at]]]

\* A failed predecessor, or one that is still queued, holds the entry back.
HeldBack(e) ==
    \/ e.pred # None /\ \E p \in Queued : p.id = e.pred
    \/ \E p \in failed : CanFollow(p, e)

\* A write succeeds; _ack_persistence_retry updates the live state and the
\* ledger, unless the entry was tried before and its track is gone by now.
Write ==
    LET e        == Entry(Head(todo))
        event    == ResolvedEvent(e)
        result   == Persisted(e, event)
        updates  == e.current /\ (~e.tried \/ e.track \in live)
        registers == updates /\ e.reading.key # NoPlate
        new      == Registered(ledger, e.track, e.reading, result.event, e.time)
        bridge   == [event |-> result.event, track |-> e.track,
                     reading |-> e.reading, time |-> e.time, current |-> TRUE]
        used     == IF UsesBridge(e) THEN Bridges(e) ELSE {}
    IN /\ Draining /\ todo # <<>> /\ ~HeldBack(e)
       /\ todo' = Tail(todo)
       /\ queue' = Without(e.id)
       /\ saved' = [saved EXCEPT ![e.id] = result.event]
       /\ row' = result.row
       /\ aside' = IF result.aside THEN aside \cup {result.event} ELSE aside
       /\ resolved' = Append(resolved, e)
       /\ trackEvent' = IF updates THEN [trackEvent EXCEPT ![e.track] = result.event]
                        ELSE trackEvent
       /\ ledger' = IF registers THEN new ELSE ledger
       /\ unseen' = IF registers THEN [unseen EXCEPT ![new.key[e.track]] = 0]
                    ELSE unseen
       /\ lineages' = (lineages \cup
                         (IF /\ e.current /\ e.tried /\ e.reading.key # NoPlate
                             /\ e.track \notin live THEN {bridge} ELSE {})) \ used
       /\ UNCHANGED <<frame, failed, nextId, faults>>

WriteFails ==
    LET e == Entry(Head(todo))
    IN /\ Draining /\ todo # <<>> /\ ~HeldBack(e)
       /\ faults < MaxFaults
       /\ faults' = faults + 1
       /\ todo' = Tail(todo)
       /\ queue' = [i \in DOMAIN queue |->
                      IF queue[i].id = e.id
                      THEN [queue[i] EXCEPT !.tried = TRUE, !.event = ResolvedEvent(e)]
                      ELSE queue[i]]
       /\ failed' = failed \cup {e}
       /\ UNCHANGED <<ledger, frame, trackEvent, resolved, lineages, store, nextId,
                      history>>

HoldBack ==
    /\ Draining /\ todo # <<>> /\ HeldBack(Entry(Head(todo)))
    /\ todo' = Tail(todo)
    /\ UNCHANGED <<ledger, frame, trackEvent, queue, failed, resolved, lineages,
                   store, nextId, faults, history>>

\* The frame keeps the events of the tracks that are still active; the pump
\* leaves them alone.
DrainEnd ==
    /\ Draining /\ todo = <<>>
    /\ phase' = "idle"
    /\ trackEvent' = IF phase = "commit"
                     THEN [t \in Tracks |-> IF t \in live THEN trackEvent[t] ELSE None]
                     ELSE trackEvent
    /\ failed' = {} /\ resolved' = <<>>
    /\ UNCHANGED <<ledger, now, live, gone, leaving, due, observed, retired, queue, todo,
                   lineages, store, nextId, faults, history>>

\* A detector model is activated: the tracker starts again, the visits stay.
SwitchModel ==
    /\ phase = "idle" /\ faults < MaxFaults
    /\ faults' = faults + 1
    /\ live' = {} /\ gone' = {}
    /\ ledger' = [EmptyLedger EXCEPT !.ref = ledger.ref, !.confirmed = ledger.confirmed,
                                     !.active = ledger.active, !.seen = ledger.seen,
                                     !.box = ledger.box]
    /\ trackEvent' = [t \in Tracks |-> None]
    /\ lineages' = {}
    /\ queue' = [i \in DOMAIN queue |-> [queue[i] EXCEPT !.current = FALSE]]
    /\ unseen' = [k \in Plates |-> 0]
    /\ UNCHANGED <<now, phase, leaving, due, observed, retired, pass, store, nextId,
                   aside>>

Next ==
    \/ \E tick \in Ticks, kept \in SUBSET live, new \in SUBSET (Tracks \ (live \cup gone)) :
         StartFrame(tick, kept, new)
    \/ \E t \in Tracks : \E reading \in At(t, Rows) : ObserveRow(t, reading)
    \/ ObserveEnd
    \/ \E t \in Tracks : \E reading \in At(t, Results) : Emit(t, reading)
    \/ Drain
    \/ Write
    \/ WriteFails
    \/ HoldBack
    \/ DrainEnd
    \/ SwitchModel

Spec == Init /\ [][Next]_vars

-----------------------------------------------------------------------------
(* Properties.                                                              *)

TypeOK ==
    /\ ledger \in [ref : [Plates -> Refs], confirmed : SUBSET Plates,
                   active : SUBSET Plates, seen : [Plates -> Time],
                   missing : [Plates -> Nat], absent : [Plates -> Time],
                   box : [Plates -> Tracks \cup {NoTrack}],
                   owner : [Plates -> Tracks \cup {NoTrack}],
                   key : [Tracks -> Plates \cup {NoPlate}],
                   tracks : [Plates -> SUBSET Tracks]]
    /\ now \in Time /\ phase \in {"idle", "rows", "emit", "commit", "pump"}
    /\ {live, gone, leaving, due, retired} \subseteq SUBSET Tracks
    /\ live \cap gone = {} /\ observed \subseteq Plates
    /\ trackEvent \in [Tracks -> Refs]
    /\ \A e \in Queued : e.id \in EntryIds /\ e.track \in Tracks /\ e.reading \in Results
    /\ saved \in [EntryIds -> Refs] /\ nextId \in 1 .. MaxEntries + 1
    /\ row \in [EventIds -> [plate : Plates \cup {NoPlate}, at : Time]]

\* The ledger's ten maps agree after every sequence of observations, delayed
\* registrations, migrations and model switches: the two directions of the
\* track bindings are inverse to each other, a track is bound only to a visit
\* that has an event, what is active or confirmed has one, and no event is owned
\* by two plates.
LedgerAgrees ==
    /\ \A t \in Tracks, k \in Plates : t \in ledger.tracks[k] <=> ledger.key[t] = k
    /\ \A t \in Tracks : ledger.key[t] \in Known(ledger) \cup {NoPlate}
    /\ ledger.active \cup ledger.confirmed \subseteq Known(ledger)
    /\ \A j, k \in Known(ledger) : ledger.ref[j] = ledger.ref[k] => j = k

\* The row behind a confirmed visit shows the visit's plate, in whatever order
\* the track's and the plate's events are asked for and the delayed results are
\* written, unless that row was inserted to put an identity conflict aside.
ConfirmedShowsPlate ==
    \A k \in ledger.confirmed :
      ledger.ref[k] \in aside \/ row[ledger.ref[k]].plate = k

\* A row that shows a plate keeps it: two results of one frame, or a delayed one
\* and a fresh one, that were sent to the same event do not overwrite each other.
RowKeepsPlate ==
    \A v \in EventIds : row[v].plate # NoPlate => row'[v].plate = row[v].plate
RowsKeepPlates == [][RowKeepsPlate]_vars

\* A confirmed visit ends by absence only: a step takes it off the active ones
\* after AbsenceObservations frames in a row that did not show it, and no
\* registration, unbinding or boundary of another vehicle does.
VisitStep ==
    \A k \in ledger.confirmed \cap ledger.active :
      k \in ledger'.active \/ (/\ unseen'[k] >= AbsenceObservations
                               /\ phase = "rows")
VisitEndsByAbsence == [][VisitStep]_vars

=============================================================================
