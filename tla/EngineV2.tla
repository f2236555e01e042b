------------------------------- MODULE EngineV2 -------------------------------
(***************************************************************************)
(* The event-driven engine (EventDrivenANPREngine,                          *)
(* src/app/engine_v2/runtime.py) with its shared reader (SharedOCRWorker,   *)
(* src/app/engine_v2/ocr.py), seen from one camera.  A producer submits     *)
(* frames; a central thread takes the newest one, detects, and reads plates *)
(* of tracks from a queue all cameras share; a background thread may read   *)
(* from the same queue; a finalizer ends the camera's input and reads what  *)
(* is left.  Each step below holds the state lock or the ownership lock     *)
(* once; detection and reading run between steps, with no lock but the      *)
(* process lock of the central thread and the finalizer.                    *)
(*                                                                         *)
(* A crop is the number of its frame.  Motion, quality, time and the other  *)
(* cameras are choices: whether a frame wakes the camera, which crop is     *)
(* worth reading, whether a queued task expires or is put out by another    *)
(* camera's.  A frame shows at most one plate, and at most one track is     *)
(* given up with it.  A reading never raises: process_task keeps the errors *)
(* of the recognizer inside the vote.                                       *)
(***************************************************************************)
EXTENDS Integers, Sequences, FiniteSets, FiniteSetsExt, SequencesExt

CONSTANTS MaxFrames,   \* bound: frames submitted
          MaxLives,    \* bound: lifecycles of the producer
          MaxTracks,   \* bound: tracks of one tracker lifecycle
          MaxAttempts, \* max_ocr_attempts
          MaxAudits,   \* max_audit_attempts
          MaxFaults    \* bound: expired and evicted tasks, failing applications
                       \* and callbacks

ASSUME BoundsAssumption == MaxFrames \in Nat /\ MaxLives \in Nat \ {0} /\ MaxTracks \in Nat
                           /\ MaxAttempts \in Nat \ {0} /\ MaxAudits \in Nat \ {0} /\ MaxFaults \in Nat

Track     == 1 .. MaxTracks
Processor == {"central", "worker"}

VARIABLES
    fusion,    \* track_temporal_fusion_enabled
    explicit,  \* the producer attaches a producer_epoch to its frames
    life,      \* lifecycle of the producer (its producer_epoch)
    born,      \* history: [frame -> lifecycle it was submitted in]
    cam,       \* the camera's CameraState
    eps,       \* its tracks: [some of Track -> TrackEpisode]
    tracker,   \* tracks it follows, next id
    packet,    \* its frame in the central queue (latest only)
    queue,     \* its tasks in the shared queue
    abandoned, \* expired and evicted tasks nobody has drained
    completed, \* _completed: last finished task of a key, with its outcome
    run,       \* where the central and the background thread are
    fin,       \* where the finalizer is
    lost,      \* history: keys the central thread forgot, and nobody has told since
    faults

vars == <<fusion, explicit, life, born, cam, eps, tracker, packet, queue, abandoned, completed,
          run, fin, lost, faults>>
mode == <<fusion, explicit>>
past == <<life, born>>

None == [none |-> TRUE]

\* What the state lock protects, as one value: operations below map it to the
\* set of its possible successors.
World     == [cam |-> cam, eps |-> eps, tracker |-> tracker, queue |-> queue]
Become(w) == cam' = w.cam /\ eps' = w.eps /\ tracker' = w.tracker /\ queue' = w.queue

NoCamera   == [phase |-> "idle", epoch |-> 0, number |-> 0, source |-> 0, final |-> FALSE,
               complete |-> FALSE, life |-> 1]   \* life: history, of its last frame
NoTracker  == [live |-> {}, next |-> 1]
NoEpisode  == [t \in {} |-> None]
IdleRun    == [at |-> "idle", frame |-> None, rested |-> FALSE, task |-> None, good |-> FALSE, left |-> {}]
IdleFin    == [at |-> "idle", keys |-> {}, own |-> {}, results |-> {}, tasks |-> {},
               failed |-> {}]

NewEpisode(c, t, n) == [key |-> <<c.epoch, c.number, t>>, first |-> n, done |-> FALSE, submitted |-> FALSE,
                     attempts |-> 0, audits |-> 0, inflight |-> FALSE, rec |-> "open",
                     emitted |-> FALSE, gone |-> FALSE, pending |-> None,
                     crops |-> {}, seen |-> {}, read |-> {}]

-----------------------------------------------------------------------------
(* Camera and tracks *)

With(w, t, e)  == [w EXCEPT !.eps = [u \in DOMAIN @ \cup {t} |-> IF u = t THEN e ELSE @[u]]]
Awake(w)       == [w EXCEPT !.cam.phase = "active"]
AllDone(w)     == \A t \in DOMAIN w.eps : w.eps[t].done
\* The phase after a track was finished.
Rested(w)      == [w EXCEPT !.cam.phase = IF AllDone(w) THEN "done" ELSE "active"]
Keys(es)       == {es[t].key : t \in DOMAIN es}

Cleared(w)     == [w EXCEPT !.cam.phase = "idle", !.eps = NoEpisode, !.tracker = NoTracker]
Woken(w)       == [Awake(w) EXCEPT !.cam.number = @ + 1]
\* _discard_pending_ocr, and the state of a new lifecycle.
Restarted(w)   == [Cleared(w) EXCEPT !.cam.epoch = @ + 1,
                     !.queue = {k \in @ : k.key \notin Keys(w.eps)}]

(* One attempt: what _prepare_ocr_task may decide for an episode *)

Task(e, crops, finalize) == [key |-> e.key, crops |-> crops, finalize |-> finalize]
Attempt(e, crops) ==
    [e |-> [e EXCEPT !.submitted = TRUE, !.attempts = @ + 1, !.inflight = fusion,
                     !.audits = IF e.rec = "locked" THEN @ + 1 ELSE @],
     task |-> Task(e, crops, FALSE)]
Finalize(e)       == [e |-> [e EXCEPT !.submitted = TRUE], task |-> Task(e, {}, TRUE)]
Nothing(e)        == [e |-> e, task |-> None]

\* should_schedule_ocr of a crop not read yet; which are good enough is a choice.
MayRead(e)  == /\ e.crops \ e.seen # {}
               /\ ~e.inflight /\ e.attempts < MaxAttempts
               /\ e.rec = "locked" => e.audits < MaxAudits

Prepared(e, force) ==
    IF e.submitted \/ e.done \/ e.rec = "final" THEN {Nothing(e)}
    ELSE IF e.attempts >= MaxAttempts /\ e.rec # "locked"
    THEN {Nothing([e EXCEPT !.done = TRUE])}
    ELSE IF e.crops = {} THEN {Nothing(e)}
    ELSE IF ~fusion
    THEN {Attempt(e, crops) : crops \in SUBSET e.crops \ {{}}}
         \cup (IF force /\ e.seen # {} THEN {} ELSE {Nothing(e)})
    ELSE (IF MayRead(e) THEN {Attempt(e, {n}) : n \in e.crops \ e.seen} ELSE {})
         \cup (IF e.rec = "locked" THEN {Finalize(e)} ELSE {})
         \cup (IF e.rec = "locked" /\ (force \/ e.audits >= MaxAudits) THEN {} ELSE {Nothing(e)})

\* release_ocr(retryable=True), and the caller's count of attempts.
Released(e) == [e EXCEPT !.submitted = FALSE, !.inflight = FALSE,
                         !.attempts = IF @ > 0 THEN @ - 1 ELSE 0,
                         !.audits = IF e.inflight /\ e.rec = "locked" THEN @ - 1 ELSE @]

\* _maybe_submit_ocr: the shared queue takes the task or refuses it.
Submitted(w, t, force) ==
    UNION {IF p.task = None THEN {With(w, t, p.e)}
           ELSE {Awake([With(w, t, [p.e EXCEPT !.seen = @ \cup p.task.crops])
                          EXCEPT !.queue = @ \cup {p.task}])}
                \cup {Awake(With(w, t, IF p.task.finalize THEN [p.e EXCEPT !.submitted = FALSE]
                                       ELSE Released(p.e)))}
           : p \in Prepared(w.eps[t], force)}

\* _harvest_observations: the crop may be of another moment, or too poor.
Harvested(w, n, t) ==
    LET e == IF t \in DOMAIN w.eps THEN w.eps[t] ELSE NewEpisode(w.cam, t, n)
        kept == With(w, t, [e EXCEPT !.crops = @ \cup {n}])
    IN  IF e.done \/ (e.submitted /\ ~fusion) THEN {w}
        ELSE {w, With(w, t, e)}
             \cup (IF e.submitted THEN {kept} ELSE Submitted(Awake(kept), t, FALSE))

\* The tracker has given the track up.
Exited(w, t) ==
    IF t \notin DOMAIN w.eps THEN {w}
    ELSE {IF v.eps[t].submitted THEN v ELSE With(v, t, [v.eps[t] EXCEPT !.done = TRUE])
          : v \in Submitted(With(w, t, [w.eps[t] EXCEPT !.gone = TRUE]), t, TRUE)}

-----------------------------------------------------------------------------
(* The outcome of an attempt *)

\* A result or an abandonment is for the episode only while it is this one.
Same(w, k) == LET t == k.key[3]
              IN  t \in DOMAIN w.eps /\ w.eps[t].key = k.key /\ k.key[1] = w.cam.epoch
\* Mutant: a late result is applied to a finished episode too.
LiveAnyway(w, k) == Same(w, k)
Live(w, k) == Same(w, k) /\ ~w.eps[k.key[3]].done /\ ~w.eps[k.key[3]].emitted

\* The last step of a recognition: an event, or a duplicate of one.
Claimed(w, t, e) == {Rested(With(w, t, [e EXCEPT !.done = TRUE, !.emitted = b])) : b \in BOOLEAN}
Closed(w, t, e)  == {Rested(With(w, t, [e EXCEPT !.done = TRUE]))}
Kept(w, t, e)    == {Awake(With(w, t, e))}

\* _apply_temporal_fusion_result: good, the evidence is enough for a soft lock.
Fused(w, k, good) ==
    LET t == k.key[3]
        e == [w.eps[t] EXCEPT !.submitted = FALSE, !.inflight = FALSE, !.read = @ \cup k.crops,
                              !.rec = IF k.finalize THEN "final"
                                      ELSE IF good THEN "locked" ELSE "open"]
        final == [e EXCEPT !.rec = "final"]
    IN  CASE w.eps[t].rec = "final" -> {With(w, t, e)}   \* claim_event refuses
          [] e.rec = "final" -> Claimed(w, t, e)
          [] e.rec = "locked" -> Claimed(w, t, final)
                                 \cup (IF e.gone \/ e.audits >= MaxAudits THEN {} ELSE Kept(w, t, e))
          [] OTHER -> IF e.gone \/ e.attempts >= MaxAttempts
                      THEN Closed(w, t, [e EXCEPT !.rec = "closed"]) ELSE Kept(w, t, e)

\* _apply_compatibility_vote_result: good, the vote is valid and sure.
Voted(w, k, good) ==
    LET t == k.key[3]
        e == [w.eps[t] EXCEPT !.submitted = FALSE, !.read = @ \cup k.crops]
    IN  IF good THEN Claimed(w, t, e)
        ELSE IF e.gone \/ e.attempts >= MaxAttempts THEN Closed(w, t, e) ELSE Kept(w, t, e)

\* _apply_ocr_result
Applied(w, k, good) ==
    IF ~Live(w, k) THEN {w} ELSE IF fusion THEN Fused(w, k, good) ELSE Voted(w, k, good)

\* _reconcile_abandoned_ocr
Reconciled(w, k) ==
    LET t == k.key[3] IN
    IF k.finalize THEN Applied(w, k, FALSE)
    ELSE IF ~(Same(w, k) /\ w.eps[t].submitted) THEN {w}
    ELSE LET e == IF fusion THEN [Released(w.eps[t]) EXCEPT !.seen = @ \ k.crops]
                  ELSE [w.eps[t] EXCEPT !.submitted = FALSE]
         IN  IF e.gone \/ e.attempts >= MaxAttempts THEN Closed(w, t, e) ELSE Kept(w, t, e)

-----------------------------------------------------------------------------
(* The producer *)

\* A source that attaches epochs reopens or restarts the camera by itself.
Reopens  == cam.final /\ explicit /\ cam.source # life
Restarts == ~cam.final /\ explicit /\ cam.source \notin {0, life}
Adopted  ==
    LET w == CASE Reopens  -> [Restarted(World) EXCEPT !.cam.number = @ + 1, !.cam.final = FALSE,
                                                       !.cam.complete = FALSE]
               [] Restarts -> Restarted(World)
               [] OTHER    -> World
    IN  [w EXCEPT !.cam.source = IF explicit THEN life ELSE @, !.cam.life = life]

\* submit_frame of frame n: possible worlds, and whether it goes to the detector.
Intake(n) ==
    LET w == Adopted
        to(v)   == [w |-> v, detect |-> TRUE]
        drop(v) == [w |-> v, detect |-> FALSE]
    IN  IF Restarts /\ cam.phase = "active" THEN {to(Woken(w))}
        ELSE CASE w.cam.phase = "idle" -> {drop(w), to([Woken(w) EXCEPT !.tracker = NoTracker])}
               [] w.cam.phase = "done" -> {drop(w), to(w), drop(Cleared(w)), to(Woken(Cleared(w)))}
               [] OTHER -> {to(w), drop(w)} \cup {drop(v) : v \in
                               UNION {Harvested(w, n, t) : t \in w.tracker.live}}

SubmitFrame ==
    LET n == Len(born) + 1 IN
    /\ n <= MaxFrames
    /\ cam.final => Reopens
    /\ born' = Append(born, life)
    /\ \E i \in Intake(n) :
         /\ Become(i.w)
         /\ packet' = IF i.detect THEN [frame |-> n, epoch |-> i.w.cam.epoch] ELSE packet
    /\ UNCHANGED <<mode, life, lost, abandoned, completed, run, fin, faults>>

\* The stream starts over.  A producer without epochs calls notify_stream_restart.
StreamRestarts ==
    /\ life < MaxLives
    /\ life' = life + 1
    /\ IF explicit THEN UNCHANGED <<cam, eps, tracker, queue>>
       ELSE LET w == Woken(Restarted(World))
            IN  Become([w EXCEPT !.cam.phase = IF cam.phase = "active" THEN "active" ELSE "idle",
                                 !.cam.source = 0, !.cam.final = FALSE, !.cam.complete = FALSE,
                                 !.cam.life = life + 1])
    /\ UNCHANGED <<mode, born, lost, packet, abandoned, completed, run, fin, faults>>

-----------------------------------------------------------------------------
(* The central thread (process_next) and the background thread (start) *)

At(p, at) == run[p].at = at
\* Abandoned tasks are reconciled before a result is applied.
Onward(r) == IF r.left # {} THEN [r EXCEPT !.at = "reconcile"]
             ELSE IF r.task = None THEN IdleRun ELSE [r EXCEPT !.at = "apply"]

\* The packet is of the camera's present runtime_epoch.
\* Mutant: detections of an earlier lifecycle are taken for current ones.
CurrentAnyway(f) == f.epoch <= cam.epoch
Current(f)       == f.epoch = cam.epoch

\* process_available calls it while there is work; a packet may be too old.
TakePacket ==
    /\ At("central", "idle") /\ fin.at = "idle"
    /\ packet # None \/ queue # {}
    /\ packet' = None
    /\ \/ run' = [run EXCEPT !["central"].at = "pop"]   \* none, expired or stale
       \/ /\ packet # None /\ Current(packet)
          /\ run' = [run EXCEPT !["central"].at = "detect", !["central"].rested = (cam.phase = "done"),
                                !["central"].frame = packet]
    /\ UNCHANGED <<mode, past, lost, cam, eps, tracker, queue, abandoned, completed, fin, faults>>

\* _process_detector_packet after the inference: the plate is on a followed or
\* a new track, and a track that was missed too often is given up.
Observed(w, n, seen, gone) ==
    LET t == [w EXCEPT !.tracker.live = (@ \ gone) \cup seen,
                       !.tracker.next = IF seen = {@} THEN @ + 1 ELSE @]
        v == IF seen = {} THEN {t} ELSE Harvested(Awake(t), n, Max(seen))
    IN  IF gone = {} THEN v ELSE UNION {Exited(u, Max(gone)) : u \in v}

Settled(w, wasDone, seen) ==
    LET v == IF AllDone(w) /\ (DOMAIN w.eps # {} \/ (wasDone /\ seen # {}))
             THEN [w EXCEPT !.cam.phase = "done"] ELSE w
    IN  {v} \cup (IF seen = {} /\ AllDone(w) THEN {Cleared(v)} ELSE {})

CommitDetection ==
    LET n == run["central"].frame.frame IN
    /\ At("central", "detect")
    /\ IF ~Current(run["central"].frame) THEN UNCHANGED <<cam, eps, tracker, queue>>
       ELSE \E seen \in {{}} \cup {{t} : t \in tracker.live \cup ({tracker.next} \cap Track)},
               gone \in {{}} \cup {{t} : t \in tracker.live} :
              /\ seen \cap gone = {}
              /\ \E v \in Observed(World, n, seen, gone) :
                   \E u \in Settled(v, run["central"].rested, seen) : Become(u)
    /\ run' = [run EXCEPT !["central"] = [IdleRun EXCEPT !.at = "pop"]]
    /\ UNCHANGED <<mode, past, lost, packet, abandoned, completed, fin, faults>>

\* _pop_owned_task, and what the processor has to reconcile: the worker drains
\* the abandoned tasks before it reads, the central thread after it has finished.
Pop(p) ==
    /\ At(p, IF p = "central" THEN "pop" ELSE "idle")
    /\ p = "worker" => queue # {} \/ abandoned # {}
    /\ \E old \in SUBSET queue, k \in queue \cup {None} :
         /\ k \notin old /\ (k = None => old = queue)
         /\ faults + Cardinality(old) <= MaxFaults
         /\ faults' = faults + Cardinality(old)
         /\ queue' = queue \ (old \cup {k})
         /\ LET drain == p = "worker" \/ k = None
                r == [IdleRun EXCEPT !.at = "read", !.task = k,
                                     !.left = IF drain THEN abandoned \cup old ELSE {}]
            IN  /\ run' = [run EXCEPT ![p] = IF k = None THEN Onward(r) ELSE r]
                /\ abandoned' = IF drain THEN {} ELSE abandoned \cup old
    /\ UNCHANGED <<mode, past, lost, cam, eps, tracker, packet, completed, fin>>

Finish(k, good) ==
    completed' = {c \in completed : c.task.key # k.key} \cup {[task |-> k, good |-> good]}

\* process_task; the central thread gives the ownership back at once.
Read(p) ==
    /\ At(p, "read")
    /\ \E good \in IF run[p].task.finalize THEN {FALSE} ELSE BOOLEAN :
         /\ IF p = "central"
            THEN /\ Finish(run[p].task, good)
                 /\ abandoned' = {}
                 /\ run' = [run EXCEPT ![p] = Onward([@ EXCEPT !.good = good, !.left = abandoned])]
            ELSE /\ run' = [run EXCEPT ![p] = Onward([@ EXCEPT !.good = good])]
                 /\ UNCHANGED <<abandoned, completed>>
    /\ UNCHANGED <<mode, past, lost, cam, eps, tracker, packet, queue, fin, faults>>

\* Only a finalization without crops emits an event here, and calls on_event.
Emits(k, w) == Live(World, k) /\ w.eps[k.key[3]].emitted

\* What the callback of the central thread raises ends process_next: whatever it
\* still had in its hands is forgotten.  The reader keeps its errors to itself.
Reconcile(p) ==
    /\ At(p, "reconcile")
    /\ \E k \in run[p].left : \E w \in Reconciled(World, k) :
         /\ Become(w)
         /\ \/ /\ run' = [run EXCEPT ![p] = Onward([run[p] EXCEPT !.left = @ \ {k}])]
               /\ UNCHANGED <<lost, faults>>
            \/ /\ p = "central" /\ Emits(k, w)
               /\ faults < MaxFaults /\ faults' = faults + 1
               /\ run' = [run EXCEPT ![p] = IdleRun]
               /\ lost' = lost \cup {q.key : q \in (run[p].left \cup {run[p].task}) \ {k, None}}
    /\ UNCHANGED <<mode, past, packet, abandoned, completed, fin>>

\* Mutant: the callback needs the process lock.
MayApplyLocked(p) == At(p, "apply") /\ (p = "worker" => fin.at = "idle")
MayApply(p)       == At(p, "apply")

\* The worker gives the ownership back after its callback.
Apply(p) ==
    /\ MayApply(p)
    /\ \E w \in Applied(World, run[p].task, run[p].good) : Become(w)
    /\ IF p = "worker" THEN Finish(run[p].task, run[p].good) ELSE UNCHANGED completed
    /\ run' = [run EXCEPT ![p] = IdleRun]
    /\ UNCHANGED <<mode, past, lost, packet, abandoned, fin, faults>>

\* Mutant: submit drops the task that was put out.
EvictSilently ==
    /\ faults < MaxFaults
    /\ faults' = faults + 1
    /\ \E k \in queue : queue' = queue \ {k}
    /\ UNCHANGED <<mode, past, lost, cam, eps, tracker, packet, abandoned, completed, run, fin>>

\* Another camera's task takes the place of one of this camera's.
Evict ==
    /\ faults < MaxFaults
    /\ faults' = faults + 1
    /\ \E k \in queue : queue' = queue \ {k} /\ abandoned' = abandoned \cup {k}
    /\ UNCHANGED <<mode, past, lost, cam, eps, tracker, packet, completed, run, fin>>

-----------------------------------------------------------------------------
(* finalize_camera *)

FinLatch ==
    /\ fin.at = "idle" /\ At("central", "idle")
    /\ ~(cam.final /\ cam.complete)
    /\ cam' = [cam EXCEPT !.final = TRUE, !.complete = FALSE]
    /\ packet' = None
    /\ eps' = [t \in DOMAIN eps |-> IF eps[t].done THEN [eps[t] EXCEPT !.crops = {}]
                                    ELSE [eps[t] EXCEPT !.gone = TRUE]]
    /\ fin' = [IdleFin EXCEPT !.at = "cancel",
                 !.keys = {eps[t].key : t \in {u \in DOMAIN eps : ~eps[u].done /\ eps[u].submitted}}]
    /\ UNCHANGED <<mode, past, lost, tracker, queue, abandoned, completed, run, faults>>

\* cancel_queued_or_observe_inflight for one key
FinCancel ==
    /\ fin.at = "cancel" /\ fin.keys # {}
    /\ \E k \in fin.keys :
         LET queued == {q \in queue : q.key = k}
             owned  == {run[p].task : p \in {q \in Processor : run[q].task # None /\ run[q].task.key = k}}
             done   == {c \in completed : c.task.key = k}
             own(how, what) == [fin EXCEPT !.keys = @ \ {k},
                                  !.own = @ \cup {[key |-> k, how |-> how, what |-> what]}]
         IN  CASE queued # {} -> /\ \E q \in queued : fin' = own("cancelled", q)
                                 /\ queue' = queue \ queued
                                 /\ UNCHANGED completed
               [] queued = {} /\ owned # {} -> fin' = own("observed", None) /\ UNCHANGED <<queue, completed>>
               [] OTHER -> /\ \E r \in IF done = {} THEN {None} ELSE done : fin' = own("finished", r)
                           /\ completed' = completed \ done
                           /\ UNCHANGED queue
    /\ UNCHANGED <<mode, past, lost, cam, eps, tracker, packet, abandoned, run, faults>>

\* What an observed or finished owner has read, as known when all are done.
Processed(k) == {o.what : o \in {q \in fin.own : q.key = k /\ q.how = "finished" /\ q.what # None}}
                \cup (IF \E o \in fin.own : o.key = k /\ o.how = "observed"
                      THEN {c \in completed : c.task.key = k} ELSE {})
Cancelled(k) == {o.what : o \in {q \in fin.own : q.key = k /\ q.how = "cancelled"}}

\* What becomes of one episode: nothing, a result to apply, or a last attempt.
Collected(e) ==
    LET into(x, task, result) == [e |-> x, task |-> task, result |-> result]
        back == CASE Cancelled(e.key) = {} -> e
                  [] ~fusion -> [e EXCEPT !.attempts = @ - 1]
                  [] e.inflight -> [Released(e) EXCEPT !.seen = @ \ UNION {q.crops : q \in Cancelled(e.key)}]
                  [] OTHER -> e
        owned == e.submitted /\ \E o \in fin.own : o.key = e.key
        ended(x) == [x EXCEPT !.submitted = FALSE, !.done = TRUE, !.crops = {},
                              !.rec = IF @ = "final" \/ ~fusion THEN @ ELSE "closed"]
    IN  CASE e.done -> {into([e EXCEPT !.crops = {}], None, None)}
          [] ~e.done /\ e.pending # None -> {into(e, None, e.pending)}
          [] ~e.done /\ e.pending = None /\ owned /\ Processed(e.key) # {} ->
                {into(e, None, r) : r \in Processed(e.key)}
          [] OTHER -> {IF p.task = None THEN into(ended(p.e), None, None)
                       ELSE into(p.e, p.task, None)
                       : p \in Prepared(IF owned THEN [back EXCEPT !.submitted = FALSE] ELSE e, TRUE)}

\* handle.done.wait() for every owner, then the episodes under the state lock.
FinCollect ==
    /\ fin.at = "cancel" /\ fin.keys = {}
    /\ \A o \in fin.own : o.how = "observed" =>
          \A p \in Processor : run[p].task # None => run[p].task.key # o.key
    /\ \E choice \in [DOMAIN eps -> UNION {Collected(eps[t]) : t \in DOMAIN eps}] :
         /\ \A t \in DOMAIN eps : choice[t] \in Collected(eps[t])
         /\ eps' = [t \in DOMAIN eps |-> choice[t].e]
         /\ cam' = IF \E t \in DOMAIN eps : choice[t].task # None
                   THEN [cam EXCEPT !.phase = "active"] ELSE cam
         /\ fin' = [IdleFin EXCEPT !.at = "drain",
                      !.results = {choice[t].result : t \in DOMAIN eps} \ {None},
                      !.tasks = {choice[t].task : t \in DOMAIN eps} \ {None}]
    /\ UNCHANGED <<mode, past, lost, tracker, packet, queue, abandoned, completed, run, faults>>

\* A result, old or new, is applied; the callback waits until all are.
FinApplied(k, good) ==
    \E w \in Applied(World, k, good) :
       LET t == k.key[3]
       IN  /\ Become(IF t \in DOMAIN w.eps /\ w.eps[t].key = k.key
                     THEN With(w, t, [w.eps[t] EXCEPT !.pending = None]) ELSE w)
           /\ fin' = [fin EXCEPT !.results = @ \ {[task |-> k, good |-> good]},
                                 !.tasks = @ \ {k}]
           /\ UNCHANGED faults

\* How far an application that raises may have come: the episode waits no more,
\* and with fusion the reading may be observed and the event claimed.
HalfApplied(e, k, good) ==
    LET back == [e EXCEPT !.submitted = FALSE]
        rec  == IF k.finalize \/ e.rec = "final" THEN {"final"}
                ELSE IF good THEN {"locked", "final"} ELSE {"open"}
    IN  {back} \cup (IF ~fusion THEN {}
                    ELSE {[back EXCEPT !.inflight = FALSE, !.read = @ \cup k.crops, !.rec = x]
                          : x \in rec})

\* It raises, and the vote is kept for a retry.
FinNotApplied(k, good) ==
    LET t == k.key[3] IN
    /\ faults < MaxFaults
    /\ faults' = faults + 1
    /\ Live(World, k)
    /\ \E x \in HalfApplied(eps[t], k, good) :
         eps' = [eps EXCEPT ![t] = [x EXCEPT !.pending = [task |-> k, good |-> good]]]
    /\ fin' = [fin EXCEPT !.failed = @ \cup {k.key}, !.tasks = @ \ {k},
                          !.results = @ \ {[task |-> k, good |-> good]}]
    /\ UNCHANGED <<cam, tracker, queue>>

FinResult ==
    /\ fin.at = "drain" /\ fin.results # {}
    /\ \E r \in fin.results : FinApplied(r.task, r.good) \/ FinNotApplied(r.task, r.good)
    /\ UNCHANGED <<mode, past, lost, packet, abandoned, completed, run>>

FinRead ==
    /\ fin.at = "drain" /\ fin.results = {} /\ fin.tasks # {}
    /\ \E k \in fin.tasks, good \in BOOLEAN :
         /\ good => ~k.finalize
         /\ FinApplied(k, good) \/ FinNotApplied(k, good)
    /\ UNCHANGED <<mode, past, lost, packet, abandoned, completed, run>>

\* Every episode that did not fail is over; then the callbacks.
FinClose ==
    /\ fin.at = "drain" /\ fin.results = {} /\ fin.tasks = {}
    /\ IF ~cam.final THEN UNCHANGED <<cam, eps, tracker, queue, lost>>
       ELSE /\ lost' = lost \ Keys(eps)
            /\ queue' = {k \in queue : k.key \notin Keys(eps)}
            /\ eps' = [t \in DOMAIN eps |->
                         LET e == [eps[t] EXCEPT !.submitted = FALSE, !.inflight = FALSE]
                         IN  IF e.key \in fin.failed THEN e
                             ELSE [e EXCEPT !.done = TRUE, !.pending = None, !.crops = {}]]
            /\ cam' = [cam EXCEPT !.complete = (fin.failed = {}),
                         !.phase = IF fin.failed # {} THEN "active"
                                   ELSE IF DOMAIN eps = {} THEN "idle" ELSE "done"]
            /\ tracker' = NoTracker
    /\ fin' = IdleFin
    /\ UNCHANGED <<mode, past, packet, abandoned, completed, run, faults>>

-----------------------------------------------------------------------------
Init ==
    /\ fusion \in BOOLEAN /\ explicit \in BOOLEAN
    /\ life = 1 /\ born = <<>>
    /\ cam = NoCamera /\ eps = NoEpisode /\ tracker = NoTracker
    /\ packet = None /\ queue = {} /\ abandoned = {} /\ completed = {}
    /\ run = [p \in Processor |-> IdleRun] /\ fin = IdleFin
    /\ lost = {} /\ faults = 0

Work(p)  == Pop(p) \/ Read(p) \/ Reconcile(p) \/ Apply(p)
Finalizer == FinCancel \/ FinCollect \/ FinResult \/ FinRead \/ FinClose
Next ==
    \/ SubmitFrame \/ StreamRestarts \/ Evict
    \/ TakePacket \/ CommitDetection
    \/ \E p \in Processor : Work(p)
    \/ FinLatch \/ Finalizer

Fairness == WF_vars(Finalizer) /\ WF_vars(Read("worker") \/ Reconcile("worker") \/ Apply("worker"))
Spec == Init /\ [][Next]_vars /\ Fairness

-----------------------------------------------------------------------------
TaskOK(k) == k.crops \subseteq 1 .. MaxFrames /\ k.finalize \in BOOLEAN /\ k.key[3] \in Track
EpisodeOK(e) ==
    /\ e.key[1] \in 0 .. MaxLives /\ e.key[2] \in Nat /\ e.key[3] \in Track
    /\ e.first \in 1 .. MaxFrames
    /\ {e.done, e.submitted, e.inflight, e.emitted, e.gone} \subseteq BOOLEAN
    /\ e.attempts \in 0 .. MaxAttempts /\ e.audits \in 0 .. MaxAudits
    /\ e.rec \in {"open", "locked", "final", "closed"}
    /\ e.crops \cup e.seen \cup e.read \subseteq 1 .. MaxFrames
    /\ e.pending = None \/ TaskOK(e.pending.task)

\* Types, and the limits on attempts and audits.
TypeOK ==
    /\ fusion \in BOOLEAN /\ explicit \in BOOLEAN
    /\ life \in 1 .. MaxLives /\ born \in Seq(1 .. MaxLives) /\ Len(born) <= MaxFrames
    /\ cam.phase \in {"idle", "active", "done"} /\ cam.final \in BOOLEAN /\ cam.complete \in BOOLEAN
    /\ cam.epoch \in 0 .. MaxLives /\ cam.number \in Nat /\ cam.source \in 0 .. MaxLives
    /\ cam.life \in 1 .. MaxLives
    /\ DOMAIN eps \subseteq Track /\ \A t \in DOMAIN eps : EpisodeOK(eps[t])
    /\ tracker.live \subseteq Track /\ tracker.next \in 1 .. MaxTracks + 1
    /\ packet = None \/ packet.frame \in 1 .. MaxFrames
    /\ \A k \in queue \cup abandoned \cup fin.tasks : TaskOK(k)
    /\ \A c \in completed \cup fin.results : TaskOK(c.task) /\ c.good \in BOOLEAN
    /\ \A p \in Processor : run[p].at \in {"idle", "detect", "pop", "read", "reconcile", "apply"}
    /\ fin.at \in {"idle", "cancel", "drain"}
    /\ \A k \in lost : k[3] \in Track
    /\ faults \in 0 .. MaxFaults

\* A task of this key is somewhere it will be read, reconciled or collected.
Held(k) == \/ k \in {q.key : q \in queue \cup abandoned}
           \/ \E p \in Processor : \/ k \in {q.key : q \in run[p].left}
                                   \/ run[p].task # None /\ run[p].task.key = k
           \/ fin.at # "idle"

(* No track is stuck: an episode that waits for a reading is waited for by a
   task in the queue, at a reader or among the abandoned tasks, or by a
   finalizer (docs/ANPR_ENGINE_V2.md).  The exception the code makes: a callback
   that raises in the central thread, while it reconciles, takes with it the
   tasks that thread still had in its hands. *)
SubmittedIsBacked ==
    \A t \in DOMAIN eps : eps[t].submitted => Held(eps[t].key) \/ eps[t].key \in lost

(* A passage is decided once: whoever applies the last reading - the central
   thread, the background reader, the finalizer that waited for it - an episode
   that is over stays over, and reports nothing more. *)
DecidedOnce ==
    [][\A t \in DOMAIN eps \cap DOMAIN eps' :
          eps[t].done /\ eps'[t].first = eps[t].first
          => eps'[t].done /\ eps'[t].emitted = eps[t].emitted]_vars

(* Detections and readings finished after the stream started over touch no
   episode of the new lifecycle: its crops and applied readings are of frames
   of its own (the runtime_epoch checks). *)
EvidenceOfItsLife == \A t \in DOMAIN eps : \A n \in eps[t].crops \cup eps[t].read : born[n] = cam.life

(* A finalization comes to its end: the readers it waits for do not wait for
   it. *)
FinalizeEnds == fin.at # "idle" ~> fin.at = "idle"
=============================================================================
