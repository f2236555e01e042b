# BC Vision: a TLA+ model of its persistence, storage and concurrency protocols

BC Vision reads Iranian license plates from camera streams on one Windows
machine. Its code is under `app/` of the repository (paths here are relative to
that directory: `main.py` is listed as `src/app/main.py` in `PROJECT.json`).
The recognition itself is numerical code. What is hard to get right is around
it: a reading must reach the database exactly once, with its image, under the
right visit, although the camera, the disk, the quota, the detector model, the
storage root, an operator and the process may come in between at any moment.
That is what these modules are about.

## 1. Inventory

| Part | State it keeps | Operations | Interacts with | Module |
| --- | --- | --- | --- | --- |
| Live worker, retry queue (`ai/live_worker.py`) | `persistence_retry` of each `_CameraState`, `_detached_retry_states`, `_loaded_outbox_ids`, caches of visits, tracks and lineages | enqueue, spool, drain, hydrate, evict, prune, remove, shutdown | sidecar, event commit, scheduler | `RetryOutbox` |
| Durable sidecar (`ai/persistence_outbox.py`) | one SQLite table, rows pending or quarantined | upsert, load, update_failure, delete, backup | retry queue, storage move | `RetryOutbox` |
| Event commit (`LiveANPRWorker._persist`) | `plate_events`, `anpr_persistence_receipts` | first write, refresh, replay | media store, operator, retention | `RetryOutbox` (one step), `EventReview` (its two transactions) |
| Operator corrections, retention, capture of training samples (`main.py`, `ai/training.py`) | `plate_events`, `anpr_feedback`, sample files, source pins | correct, confirm, capture, reconcile, recover, delete | event commit, quota | `EventReview` |
| Media quota (`storage_policy.py`, `media_storage.py`, `media_acceptance.py`) | reservation journals, claims, acceptance intents, quarantined files | begin, claim, write, accept, close, recover, evict, expire | event commit, retention | `MediaStore` |
| Visit ledger (`ai/event_dedup.py`, its callers in `ai/live_worker.py`) | plate keys, track bindings, event references | observe, can_reuse, register, reset | tracker, retry queue | `VisitLedger` |
| Live scheduler (`ai/live_worker.py`) | per camera: one `busy` future, one pending frame, detector generation, `retired` | submit, claim, process, drain_video_pass, invalidate_model_cache, remove | streams, retry queue | `LiveScheduler` |
| Streams and manager (`streams.py`) | single-use stream objects, their threads, stop deadlines | start, stop, get, remove, stop_all, status | scheduler, settings | `VideoPass` |
| Storage gate (`storage_policy.py`, `main.py`) | readers, writer, ticket queue, restart flag | acquire, cancel, release | every request that changes data | `StorageGate` |
| Storage save and move, update installation (`main.py`, `config.py`, `update_package.py`) | staging copies, published files, `storage_config.json` | quiesce, copy, publish, switch, roll back, resume, launch | live worker, streams, gate | `StorageMigration` |
| Training and promotion (`ai/training*.py`, `ai/model_manager.py`, `ai/golden.py`) | `anpr_training_runs`, the training thread, the Golden set, `active-model.json` | start, train, evaluate, apply, promote | storage move (an active row refuses it) | `ModelPromotion` |
| Engine v2 (`engine_v2/runtime.py`, `ocr.py`) | latest-only packets, a shared queue of reading tasks, track episodes | submit, restart, detect, read, reconcile, finalize | runs as a shadow of the live worker | `EngineV2` |
| Subprocess jobs (`async_jobs.py`) | result workspace, child process | run, time out, reap | training, tests of videos | - |
| Pipeline, backends, web pages, configuration, benchmarks, launcher | no protocol state | | | - |

The hard behaviours. Two threads (inference and pump) and every remover share
the queue. One reading's life crosses two databases and a directory of images
with no common transaction. Retries are delayed and reordered, the memory for
them is bounded, and room for images is made by moving other evidence away
until the new one is decided. An operator and a camera write one event in
transactions that interleave. A save of the storage settings stops, copies and
restarts everything; a status poll may restart part of it meanwhile. Training
and promotion overlap. The engine's readers work without a lock on tracks that
a restart or a finalization takes away. And the process may die between any two
steps. `PROJECT.json` lists each hazard at the line where it bites
("hazards"), with the properties that watch it.

What makes each part correct, in short: nothing durable is lost; nothing is
written twice; late writes do not undo newer ones; a correction follows what it
corrects; what waits is served in the end; evidence that a row names goes only
by quota or retention, and no image stays that nobody names; an event has one
current truth, a crop one label, and only a refresh begun before may undo an
operator; a row keeps its plate and a visit ends by absence; one inference per
camera at a time, its results in the order of the frames and of one detector; one stream
per camera, nothing of a stopped one left at work; a video is called complete
only after a whole pass; a save has the data to itself; the root the next start
uses is complete; after a failure the service runs or asks for a restart; a model
is replaced only over the base it was judged against; a passage of the engine is
decided once, from evidence of its own lifecycle, and its finalization ends.

## 2. Modules

| Module | What it is | Proofs |
| --- | --- | --- |
| `RetryOutbox` | The retry queue, its sidecar and the event commit, for one camera | `RetryOutboxProofs` |
| `EventJournal` | What the queue promises, without slots, locks, caches or crashes; `RetryOutbox` implements it (`JournalSpec`) | the same |
| `RetryOutboxLiveness` | `RetryOutbox` with the fairness of its threads, and the progress property | - |
| `MediaStore` | Evidence files, their reservations, journals and owner rows | `MediaStoreProofs` |
| `MediaEvidence` | What the media store promises about a file; `MediaStore` implements it (`EvidenceSpec`) | the same |
| `EventReview` | Readings that refresh events, operators that correct them, the capture of training samples | `EventReviewProofs` |
| `EventRecord` | What the row of an event promises, without readings, times, images, locks or crashes; `EventReview` implements it (`RecordSpec`) | the same |
| `VisitLedger` | The visit ledger, the frame that asks it and the drain that tells it | `VisitLedgerProofs` |
| `LiveScheduler` | One camera's frames through `submit`, the executor, the detector switch and `remove` | `VideoPassProofs` |
| `VideoPass` | An uploaded video: requests, the manager, streams and their threads, composed with `LiveScheduler` | `VideoPassProofs` |
| `StorageGate` | The writer-preferring gate and the requests that take it | `StorageProofs` |
| `StorageMigration` | A save of the storage settings or an update, the worker they stop and restart, crashes | `StorageProofs` |
| `ModelPromotion` | Training runs, evaluations and promotions | `ModelPromotionProofs` |
| `EngineV2` | One camera of the event-driven engine with its shared reader | `EngineV2Proofs` |
| `MC...` | Small instances for TLC | |

The modules meet at single steps: `Commit` of `RetryOutbox` is what `EventReview`
splits into `Read`, `Save` and `Write`; `Save` there is all of `MediaStore`'s
retry of one path; `Write` of `VisitLedger` is a drain of `RetryOutbox` whose
event has been chosen; `Settle` of `LiveScheduler` and of `StorageMigration`
stand for `RetryOutbox`; a save of `StorageMigration` is one that `StorageGate`
has admitted alone; `MoveRoot` of `ModelPromotion` is such a save. `VideoPass`
EXTENDS `LiveScheduler` and is proved to implement it.

In every module a variable is durable (files, tables: a crash leaves them) or of
the process (a crash resets them), a history variable records what a property
needs, and the bounds (`MaxFaults`, `MaxCrashes`, ...) are constants with a named
assumption. A failing call is the second disjunct of its action and costs one of
`MaxFaults`.

### RetryOutbox

A *slot* is a `_CameraState` that holds a `persistence_retry` map: `live` for
the camera, `detached` when it is in `_detached_retry_states`, `loading` while a
pass of `_hydrate_outbox_entries` fills it and nobody else sees it. `queue[s]`
is the map, by persistence id; the code's key is a field of the entry, and
`rekeyed` marks an entry whose key was given to a later one. `task[s]` is where
the thread that holds the slot's `model_switch_lock` stands. Everything between
two I/O calls is one step; every I/O call is a step of its own, so threads of
other slots, the pump, retention, an operator and a crash come in between:

| Action | Code |
| --- | --- |
| `Enqueue` | `_process` for one emitted reading: new entry, refresh in place, or a fresh id behind a committed entry; predecessor by `_select_retry_predecessor` |
| `Upsert`, `UpsertFails`, `Register` | `_spool_retry`: the row, then `_loaded_outbox_ids` |
| `NotDue`, `Visit`, `Resolve`, `EndDrain` | `_drain_persistence_retry_locked`: order, back-off, blocked predecessors, which event the write belongs to |
| `Commit` (`FirstWrite`, `Replay`), `CommitFails` | `_persist` and `mark_failure` |
| `Delete`, `DeleteFails`, `Acknowledge` | the ACK: row, id, entry |
| `Hydrate`, `Publish`, `HydrateFails`, `Evict`, `Prune` | the pump's pass over the sidecar |
| `Quarantine` | a row that does not verify when it is read |
| `Remove`, `Create`, `Stop`, `Crash` | camera and process come and go; the constructor's own hydration is part of the last two |
| `Expire`, `Correct` | retention and the operator |

An observation is its number: numbers order readings in time, and the number an
entry was first built for stands for its uuid. A key stands for generation,
revision, track and identity; what the code computes from two keys (same track
scope, same visit within 1.5 s, strict identity) is given by the constants
`Scope`, `Follows`, `Ident`. Confidence and images are abstracted to "which
observation an event shows".

Abstractions to know of: `Commit` is one atomic step (`EventReview` has its two
transactions); detached states of one camera and different scopes are merged
into one; hydration at start-up is atomic, because nothing else runs yet, and it
takes rows in id order unless a spool failed before; back-off times are a choice;
the high-water mark is not modelled (the bound `MaxObs` stands before it); two
processes' workers on one sidecar are the business of `StorageMigration`.

`RetryOutboxLiveness` adds the history `dropped`, the rows that a failing pass had
taken: `_hydrate_outbox_entries` enters an id in `_loaded_outbox_ids` before it
publishes the entry (live_worker.py:489), and when the read of a later row raises, the
new group goes with the exception and the ids stay. Such a row is durable and counted
as backlog, but only the next worker reads it; so does a row that waits for it.
`EventuallySettled` names this exception (`Forgotten`, `Stranded`) instead of bounding
the failing passes.

### MediaStore

A path is the image path of one event, derived from its persistence id; the
attempt `<<p, k>>` is the `k`-th write to it and names the intent, the
reservation, its journal directory and the inode it creates. `pc[p]` is where the
thread that retries the event stands, `lock` who holds `storage_policy._LOCK`
over several steps, `queue` and `whole` the journals an inventory has still to
recover and whether it is complete.

| Action | Code |
| --- | --- |
| `Prepare` / `Adopt` | `_persist`: `create_intent`, or a verified file at the target is taken as it is |
| `Acquire`, `Recover`, `Register`, `Plan`, `Evict`, `Grant`, `Refuse` | `begin_media_write`: conflict, inventory, eager journal, each move planned in the journal and then made or withdrawn, the verdict |
| `Create`, `Claim`, `Write`, `Abort`, `Unlink` | `write_jpeg_bytes_atomic` and its handler |
| `StoreAccepted` / `StoreRow` | the owner transaction, with the acceptance of a pending file or without |
| `Finalize`, `Settle` | `finalize_pending_media`, `settle_pending_media` |
| `FinishCommit`, `FinishRollback` (used by them) | `_finish_quarantine_locked`, whole or interrupted |
| `Ack` | the outbox row is deleted |
| `Inspect`, `Expire`, `EndInspect` | retention, status, start-up maintenance |
| `Crash` | the next process starts with a recovery |

Sizes are a constant function, the oldest file is a choice, the clock is left
out. What the code does for the other writers under the same quota (uploads that
grow, the handoff to a subprocess, protected side paths, source pins, the full
actions "alert" and "stop", a root with a history) is left out; pins are in
`EventReview`.

### EventReview

`rd[i]` is one call of `_persist` with what its first transaction has read;
`op[r]` is a request in `correct_event_plate` with its pin, the crop and the
current feedback it has read; `pc`, `job`, `found` are a capture, for a request
or for the start-up pass.

| Action | Code |
| --- | --- |
| `Emit`, `Read`, `Save`, `Write`, `WriteFails` | `_persist`: a due reading, the first transaction, `save_event_images`, the owner transaction |
| `Retain`, `Select`, `Confirm`, `Correct`, `Fails`, `Audit` | `_retain_correction_source`, the SELECTs, the write, the unique index, `audit` |
| `Lease`, `LeaseFails`, `Look`, `PinRefused`, `Lookup`, `Publish`, `CaptureFails`, `Release` | `capture_feedback_sample`, `_store_unique_feedback_sample` |
| `Reconcile`, `RefreshPins`, `Recover`, `Started` | the order of `_application_lifespan` after a crash |
| `Expire`, `Retention`, `LoseSample`, `Crash` | quota or retention, deletion of events, a damaged sample, the process |

The search for a recent event of the same plate is a choice of the event read, one
of the reading's camera (`CameraId`). `Read` takes the camera's `event_commit_lock`
and `Write`, `WriteFails` or a crash gives it back (`Committing`): the worker keeps
that lock per camera and not per state, since a camera whose state is made anew may
commit while the old state still drains.
The pixels of a crop are its digest.

### VisitLedger

`ledger` is the record of the ten maps of `PlateVisitLedger`; its operations are
operators on that record. A frame is `StartFrame`, one `ObserveRow` per raw
reading, `ObserveEnd`, one `Emit` per stable result, then a drain (`Drain`,
`Write`, `WriteFails`, `HoldBack`, `DrainEnd`); the pump may drain between two
frames, and `SwitchModel` is an activated detector. A text is a strict plate or
an incomplete reading that is stable or not; similarity of two plates (`Near`)
and of two boxes (`Close`) are relations, and what a camera can read at a track
(`Reads`) is a constant. All of it runs under the camera's `model_switch_lock`,
which is why a whole loop round is one step; what a crash does to the queue is
`RetryOutbox`'s.

### LiveScheduler

A frame is its number, in the order of decoding; `cam[s]` are the fields of the
`s`-th `_CameraState` the camera had, `current` the one in `_states`. A future
is a member of `jobs` with its position: queued, inferring, committing (it holds
its state's `model_switch_lock`), ending. `lock` is the worker's lock, a
variable only while its holder waits for a `model_switch_lock`.

| Action | Code |
| --- | --- |
| `Call`, `SubmitEnters`, then `Refuse`, `ConfigFails`, `Skip`, `Hold` or `Schedule`, then `Enqueue` or `EnqueueFails` | `submit` |
| `Claim` | `_claim_latest_payload` |
| `EnterCommit`, `Commit`, `CommitFails`, `InferFails`, `End` | `_process`: inference, the guarded commit, its exceptions and its `finally` |
| `Promote`, `PromoteFails`, `PassComplete` | `drain_video_pass` |
| `SwitchEnters`, `Switch`, `SwitchFails` | `invalidate_model_cache` |
| `RemovePop`, `RemoveRetires`, `RemoveEnds` | `remove` |
| `Settle` | a retry queue is written (abstracted from `RetryOutbox`) |
| `Disable`, `Restart` | the row is disabled; the process ends |

Which of two frames wins, whether an interval has passed, and whether
back-pressure is on are choices, as scores, clocks and the sidecar decide them;
a refused frame counts against the bound on faults. `votes` are the detector
generations of the frames in the tracker.

### VideoPass

A `CameraStream` is single-use: `decoder` is where its decoder thread stands
(`open` before its first frame, `marked` with its condition variable in hand
between the durable mark and the token, `pass`, `handoff`, `drain`, `claim`,
then `shown`, that is, preview only), `submits` its submitter thread, `slot` the
frame between them. `manager` is who has `StreamManager.lock` while a stop waits.
`Read` and `Get` are two steps, as the row is read before the lock is had;
`Upload` inserted the row and starts with what it knows of it. `mark` is durable,
and `Crash` leaves only it. A stop is `RequestStop`, then the threads' exits or
`JoinTimesOut`, then `WorkerStops` (`stop_live_camera`, that is, `remove`).

### StorageGate

`Requests` are clients, `Savers` those that post the storage settings. Each
method of the gate is one step; a request polls between them and may be
cancelled there. `restart` is `_STORAGE_RESTART_REQUIRED`, read once with the
gate in hand. A save may set it and then go on.

### StorageMigration

One save at a time (that is what `StorageGate` proves). A root holds the
database, of which the model keeps the settled readings, and the sidecar, of
which it keeps the owed ones. The save stops the cameras, shuts the worker
down (which may time out), checks that no media write is reserved, copies the
database, then the sidecar, publishes both, replaces the pointer, synchronizes
its directory, and restarts the producers; each step may fail, and the failure
path rolls back what was published unless the pointer names the new root. The
restart of the worker and the cameras may raise as well (`RestartBoth`, `WorkerFails`:
`main.py:3633-3645` and `3684-3688`, either or both; `ResumeWorkerFails`,
`ResumeCamerasFails`: `3236-3241`, where a failing worker leaves the cameras untried).
The code reports that and does **not** set `_STORAGE_RESTART_REQUIRED`, so the service
stays stopped with no fence. The history variable `unstarted` says whose restart raised
and which nothing has started since; it is the stated exception of `ServiceRestored`,
ended by a status poll (worker), a live view (stream), the next save or update, or a
start of the process. A
worker settles a reading in two steps (row in the database, row out of the
sidecar). `Poll` is the status request that replaces a stopped worker at any
moment but while a shutdown has the worker lock.

An update (`BeginUpdate` to `Launch`, `UpdateAborts`, `ResumeWorker`,
`ResumeCameras`: `install_update_zip`, `_quiesce_services_for_update`,
`_resume_services_after_update_abort`) stops the same services but shares the gate
with everything except a save, so live views (`View`) and polls run beside it.
A process crash keeps the renamed pointer; a power cut may bring the old one back
while its directory was not synchronized. The settings other than the root are one
bit; the media files are not moved by the code either.

### ModelPromotion

A model is named by the run that made it, `report[r]` says over which base it was
trained, with which initial weights and on which Golden set it was judged.
`trainer` is the training thread between its reads (`InsertRun`, `Launch`, `Begin`,
`ReadBase`, `ReadCheckpoint`, `ReadGolden`, `Compare`, `Report`, `TrainingFails`:
`start_training`, `_run_training`, `train_candidate`); `rq[q]` is an
administrator's evaluation (`StartEvaluation`, `Evaluated`: no lock) or promotion
(`CheckEvidence`, `FinalGolden`, `FinalModel`, `CopyModel`, `CopyCheckpoint`, `Publish`,
`RecordApplied`, `ApplyEnds`: `apply_candidate` and `promote_crnn_candidate`,
under `_TRAINING_LOCK`). Around them the Golden set is rebuilt, files are damaged,
the root moves, the process crashes. `damaged` remembers the promoted files that were
lost by no doing of the program: only they excuse `PublishedIsWhole` and
`CandidatePure`, a call that fails half-way does not. What a comparison finds is a
choice; what it was made with is state.

### EngineV2

One camera of the engine, with temporal fusion and without (`fusion`), with a
producer that attaches epochs and one that announces restarts (`explicit`): both
are chosen in `Init`. What the state lock protects is one value (`World`), and the
operators from `Harvested` to `Reconciled` give its possible successors; each
action holds that lock or the ownership lock once.

| Action | Code |
| --- | --- |
| `SubmitFrame`, `StreamRestarts` | `submit_frame`, the reopening by epoch, `notify_stream_restart` |
| `TakePacket`, `CommitDetection` | `process_next`, `_process_detector_packet` |
| `Pop`, `Read`, `Reconcile`, `Apply` | `_pop_owned_task`, `process_task`, `_reconcile_abandoned_ocr`, `_apply_ocr_result`, by the central thread or the background reader |
| `Evict` | another camera's task takes a place in the full queue |
| `FinLatch`, `FinCancel`, `FinCollect`, `FinResult`, `FinRead`, `FinNotApplied` (their fault), `FinClose` | `finalize_camera`, `cancel_queued_or_observe_inflight` |

Motion, quality, confidence and time are choices. A frame shows one plate at most.

`_process_one_ocr` tells the episodes of all abandoned tasks, and then applies the
result it has read, in straight code (`runtime.py:1420-1427`). An abandoned
finalization may emit an event there and call the user's `on_event` (1472-1473); if
that raises, the remaining tasks and the result are gone, and their episodes keep
`ocr_submitted` with nobody to clear it, until `finalize_camera` or a restart of the
stream ends them. `Reconcile` has this fault (`Emits`), the history `lost` keeps the
keys, and `SubmittedIsBacked` excepts exactly them. The background reader catches and
counts what its callbacks raise (`ocr.py:412-428`) and loses nothing. `FinNotApplied`
leaves an episode as far as the failing application came (`HalfApplied`).

## 3. What the runs check

A property is stated where it could fail; what holds by a module's shape is not
repeated here. No run repeats a type invariant: each was used while its module was
written, and is proved (section 4).

| Run | Bounds | Shows |
| --- | --- | --- |
| `outbox` | 3 keys of one track (guess, strict correction, other plate), of which guess and strict reading follow each other, 2 slots, memory of 2 entries, 2 observations, 1 fault, any number of failing hydration passes, 1 expiry, 1 crash and 1 correction (with 2 rows inserted by replays) or 1 removal (1.69 million states) | `NothingLost`, `InsertedOnce`, `ChainKept`, `Frozen`, `JournalSpec` |
| `outbox_progress` | 2 keys, memory of 2 entries, 2 observations, 1 fault, any number of failing hydration passes, 1 crash, no removal, fairness (220 000 states) | `EventuallySettled` |
| `media` | 2 retried events and 1 old piece of evidence, room for 2, 2 attempts each, 1 fault, 1 crash; deadlock checked (298 000 states) | `EvidenceKept`, `NoStrayEvidence`, `RecoveryDecides`, `EvidenceSpec` |
| `review` | a stored event and a reading of the same crop, 2 operators, 2 plates, 2 feedback rows, clock to 3, 1 fault, 1 crash (1.6 million states) | `OneTruth`, `OneCurrentTruth`, `TruthNotLost`, `DecisionKept`, `RecordSpec` |
| `visits` | 2 tracks, 3 plates of which 2 are similar, 3 entries, clock to 3, 1 failed write or detector switch | `LedgerAgrees`, `ConfirmedShowsPlate`, `RowsKeepPlates`, `VisitEndsByAbsence` |
| `video_pass` | 2 frames, 2 streams, 2 camera states, 1 switch, 1 fault or refusal, 1 crash, one request beside removals | `OneFuture`, `PureEvidence`, `NoLockDeadlock`, `SingleStream`, `StoppedIsQuiet`, `CompletedIsWhole`, `RestartNeverResubmits`, `FramesInOrder` |
| `storage_gate` | 2 saves, 3 other clients, any number of requests each, fairness; deadlock checked | `Exclusion`, `Fence`, `SaveServed` |
| `storage_move` | 3 roots, 1 reading, 4 worker objects, 2 failing steps, 1 crash or power cut (1.10 million states) | `MoveLosesNothing`, `ServiceRestored` |
| `promotion` | 2 runs, 2 administrators, 2 Golden sets, 1 crash, 1 fault or damaged file, 2 rebuilds | `OneActiveRow`, `CandidatePure`, `PublishedIsWhole`, `PromotionIsCurrent` |
| `engine` | 2 frames, 2 lifecycles, 2 tracks, 2 attempts, 1 audit, 2 expired or evicted tasks or failing results and callbacks, both modes, fairness (191 000 states) | `SubmittedIsBacked`, `EvidenceOfItsLife`, `DecidedOnce`, `FinalizeEnds` |
| `media_adopted` | as `media` | finds `EvidenceNeverLost` violated |
| `review_overwritten` | as `review`, no fault, no crash | finds `DecisionShown` violated |

`CHECK_DEADLOCK FALSE` stands in the configurations whose counters run out or
whose process may stay down. Every property has a mutant in `PROJECT.json`: a
plausible bug of the code, written next to the definition it changes and marked
"Mutant", under which TLC finds the property violated in that same run.

**Why the bounds are enough to be interesting.** Two observations give refresh,
replay, predecessor and duplicate. Two slots are the live state and a detached
one, the only two that can hold copies of one row; with a fault and a crash every
row of the code's failure table is met, and the runs together take every action. A
memory of two entries is full when both rows are in it, so that a leaf is evicted, and
has room again once one of them is settled, so that a pass may take the other and fail
on its next read: the rows such a pass leaves behind (`Forgotten`) occur in
`outbox_progress`. A receipt is not rewritten by a replay that finds its event with
another plate, so every further replay inserts a row; `MaxCopies` = 2 has two of them.
The constraint `RemovedAlone` keeps the removal of the camera apart from the crash and
the correction; the proofs need no such bound. In `media` three paths and room for
two make the second write evict either the old evidence or the first one's, so a
quarantine can hold the evidence of a retry that is itself being written; the second
attempt meets what the first left behind, and the crash may fall between any two steps of both. In
`review` two rows of feedback suffice for a superseded truth, a duplicate and a
conflict; the reading has the crop of the event, which is what makes two labels of
one crop possible. In `visits` two of three plates are similar, so a provisional
visit can be continued, upgraded and mistaken; three ticks are two absences and
what follows. In `storage_move` four workers are two more than a save needs; a
save whose restart needs a fifth worker stays where it is, which hides nothing the
earlier workers have not shown; a second root to move to lets a failed move be
followed by another; two failing steps are a save or an update that fails and the
restart that fails behind it, and what becomes of one reading does not depend on
another. In `video_pass` two frames are one in a future and one that
waits; two streams and two states are an old and a new one, which is all that
removal and replacement set against each other; the same properties were also found
to hold with two requests, and with three frames and either the fault or the crash
left out. In `promotion` two runs are one that trains and one that is promoted
meanwhile. In `engine` two lifecycles are one that ended and one that must not see
its leavings; two attempts and an audit reach every state of a record; two tracks
and two faults reach the abandoned finalization whose callback raises while the task
of the other track is in the same hands.
`NoLockDeadlock` is an invariant because frames run out: it says that whoever
waits with the worker's lock in hand waits for a step that needs no such lock.
Symmetry is used for slots, paths, requests, plates, readings, workers, runs and
Golden sets, only in configurations without liveness, where nothing tells them
apart.

**Fairness.** `RetryOutboxLiveness`: a lock holder goes on to its next step and
a pass of the pump comes to its end (weak); an entry that is due again and
again, a row that may be hydrated again and again, and an eviction that is
possible again and again take place in the end (strong), because back-off is at
most eight seconds, the pump wakes every half second and its cursor wraps.
Nothing is fair about frames, cameras, faults or crashes: progress must not
need a camera. `StorageGate`: sleepers are woken and endpoints return; nobody
has to send a request, and shared requests are not assumed to be admitted, so a
save must be served against any stream of them. `EngineV2`: the finalizer and the
background reader's read, reconciliation and application go on (weak): they are
straight code of a running thread. The central thread is not assumed to go on,
and nobody has to submit, pop or finalize.

### Where the code and its own documentation disagree

Two runs check one statement of the repository and find it violated; "findings"
quotes the lines.

* `media_adopted` (`EvidenceNeverLost`): a retry takes the verified file that an
  interrupted attempt left at its target (`media_storage.py:796`); if recovery has
  failed once, that attempt's journal is still pending, and the next recovery
  deletes the file the row names. `EvidenceKept` is what holds: only files adopted
  while undecided are concerned.
* `review_overwritten` (`DecisionShown`): a refresh that had read the event before
  an operator's correction writes the old plate and clears the review
  (`ai/live_worker.py:2262`). `DecisionKept` is what holds: only a refresh begun
  before the decision can do that, and without the camera's commit lock it would not
  hold either: a second refresh would write over what the first has put back.

The following were met while modelling. The models contain the behaviour, the
properties that hold are worded around it, and no run is spent on it.

*Retry queue.* The pump may settle the older payload of an entry that is refreshed
meanwhile (`ai/live_worker.py:548`; `NothingLost` speaks of ids). A durable
correction whose predecessor never was durable waits for ever after a crash (1304;
`EventuallySettled` excepts it). Every replay after an operator's correction inserts
one more event, because the receipt still names the corrected one (1985, 2319;
`InsertedOnce` counts them). A row whose hydration failed half-way is not read again by
this worker (489; `EventuallySettled` excepts it). A late review-only
retry replaces a newer reading (2021, 2029; `Frozen` is about identified events). A
held-back entry that is retried late may register although its track is gone
(1199-1203).

*Visits.* The event of a confirmed plate may be replaced while its visit goes on. A
row that was put aside for an identity conflict can later be overwritten by another
plate's result of the same leaving track: hence `aside` in `ConfirmedShowsPlate`.

*Evidence.* When evicted evidence returns because the write failed, the quota may
be exceeded (`storage_policy.py:928`). With two failures and room for one file, a
claim that fails leaves its file unowned; another write may set that file aside,
put it back and fail to end its journal; the first one's handler then removes it,
and the second journal waits for a move that is nowhere, so every later inventory is
incomplete. That file was never written whole, so `RecoveryDecides` speaks of whole
images: for them the case cannot happen, with any number of failures. A truth that was captured is
marked missing when the plate is confirmed again after its image expired
(`ai/training.py:320`; `TruthNotLost` is about truths not captured yet). A truth whose
crop is there, and pinned, is marked missing for good when the capture's own pin is
refused because the settings cannot be read for a moment (`storage_policy.py:240`,
caught at `ai/training.py:317` with paths outside the roots; the comment at 373 says
that failures keep the lease for a retry, but the row is no longer pending). That is
`PinRefused`, and the exception that `TruthNotLost` makes.

*Cameras.* A request that read the row of an uploaded video before its first pass
marked it makes a second stream that submits the video again (`main.py:1578`);
`RestartNeverResubmits` says a crash never leads there. A live view opens streams
while an update is stopping them (`main.py:1576`, 3208), and a status poll restarts
the worker during a save; `MoveLosesNothing` holds all the same.

*Training.* After a crash or a failed export a row stays queued or running; it
blocks a move of the storage root until another training starts
(`ai/training.py:1151`, `main.py:3375`). Two evaluations of one run at a time
overwrite each other's verdict, also `applied`. A crash between the manifest and the
record leaves the active run `candidate-ready`. When the promoted model is damaged
the vendor's is used, but a new training still begins with the promoted checkpoint
(hence "unless a promoted file is lost" in `CandidatePure`).

*Engine v2.* A track in soft lock whose exit audit expires or is evicted is closed
without an event, where `docs/engine-v2-tcam.md:19` promises one
(`_reconcile_abandoned_ocr`). `cancel_queued_or_observe_inflight` may hand the
finalizer the result of an older attempt of the same key. An episode's id is used
again when the camera rests while its packet is queued, and the epoch that
`reset_runtime_state` sets may equal one that restarts reach. A finalizer that
waits may close episodes of a lifecycle that was reopened meanwhile. When the queue
refuses the task of a track that exits, its evidence is dropped. In compatibility
mode the reconciliation of an old abandonment may meet the finalizer's newer
attempt. In the live shadow `configure(True)` may re-enable a shadow that is being
shut down, a camera removed and added within one cycle has its new lifecycle
finalized, and a shutdown is permanent; nothing of the program depends on it.

## 4. What is proved

All theorems hold for every value of the constants that meets the named
assumptions: any number of slots, keys, paths, operators, roots, workers, runs,
failures and crashes. Every leaf is checked; no theorem rests on an unproved
statement.

| Module | Assumptions | Inductive invariant |
| --- | --- | --- |
| `RetryOutboxProofs` | `BoundsAssumption`, `KeysAssumption` | `TypeInv` = `TypeOK` + `TaskHeld`; `Ledger` = `RowsBacked` + `EntriesBacked` + `HoldersBacked` + `EventsInserted` + `NothingLost` + `InsertedOnce`; `OutcomesStored`; `Chained` = `RowLinked`, `EntryLinked`, `CacheSettled`, `HolderLinked`, `SlotsUsed`, `Unused`, `ChainAt` |
| `MediaStoreProofs` | `PathAssumption`, `BoundAssumption`, `QuotaAssumption` | `MediaInv` = `Base` (`TypeOK`, `Virgin`, `Stages`, `Clean`) + `Apart` + `Aside` + `Decided`; then `Planned` + `Decidable` |
| `EventReviewProofs` | `ReadingAssumption`, `WorkerAssumption`, `BoundAssumption` | `ReviewInv` = `Base` (`TypeOK`, `Placed`, `Spoken`) + `Fresh` + `Kept` + `Found` + `Secure` + `OneCurrentTruth` + `OneTruth`; then `DecisionInv` = `Serial` + `Timed` + `Named` + `Unstored` + `Snapshot`, which the refinement uses |
| `VisitLedgerProofs` | `PlatesAssumption`, `TimesAssumption` | `VisitInv` = `Typed` + `LedgerAgrees` + `Standing` + `Written` + `ConfirmedShowsPlate` + `Counted` |
| `VideoPassProofs` | `SchedulerAssumption`, `VideoAssumption` | `SchedulerInv` = `SchedulerTypeOK` + `OneFuture` + `PureEvidence` + `Placed`; `VideoInv` for the streams; then `Marked`, `Quiet`, `Ordered` and `PassTold`, one for each property of both |
| `StorageProofs` | `RequestsAssumption`; `RootsAssumption`, `OthersAssumption` | `GateInv` = `GateTypeOK` + `NoLeak` + `WriterAlone`; `MoveInv` = `TypeOK` + `Resting` + `Runs` + `Turns` + `Copies` + `Ahead` + `Safe` + `ServiceRestored` |
| `EngineV2Proofs` | `BoundsAssumption` | `EngineInv` = `Typed` + `WorldFits` + `Fits` of every loose task + `PacketFits` + `RunsFit` + `OwnerFits` + `Modes` + `Finalizing` |
| `ModelPromotionProofs` | `NameAssumption`, `BoundAssumption` | `PromotionInv` = `TypeOK` + `Rows` + `Present` + `Placed` + `Line` + `CandidatePure` |

Each invariant was checked by TLC as an invariant of the module's instance before
it was proved. Why the strengthenings are needed:

* **RetryOutbox** (`TypeCorrect`, `NothingIsLost`, `InsertedAtMostOnce`,
  `ReceiptsAndPlatesFrozen`, `CorrectionsStayWithTheirVisit`, `ImplementsJournal`).
  `TaskHeld` says that the entry a lock holder stands on is in its queue and knows its
  event once it has committed: without it the fields a step reads have no type.
  `Ledger` says that every row, every spooled entry and every entry a holder stands on
  is of an id that was durably accepted, that a holder about to delete a row has the
  receipt, and that an event exists only if its id inserted it. `Delete` is why: it
  removes the row on the word of the entry it stands on, and hydration may have made
  two of them. The refinement maps initial states to initial states and each step to a
  step of `EventJournal` or a stutter. `Chained` is about every copy of a correction,
  in a row or a slot: while it has no event of its own it still names its predecessor
  (`Linked`), so `Resolve` cannot write it before the predecessor's receipt; and what
  copies, caches and lock holders know of events are outcomes of settled entries of
  the same visit (`Settled`, by the keys an id was emitted under, which the history
  variable `emitted` records). So the receipt of a correction names an event of its
  predecessor or of another entry of its visit, never one of a stranger. The proof
  made `ChainKept` more precise: when the predecessor's event got another plate and a
  replay inserted a second row, the correction may be settled on that row, which the
  two observations of the run cannot show. `OutcomesStored` (what was settled is
  stored until retention takes something) is why a correction without a plate becomes
  an event of its own only after retention.
* **MediaStore** (`TypeCorrect`, `NamedEvidenceKept`, `StrayEvidenceHasAJournal`,
  `JournalsCanBeDecided`, `ImplementsEvidence`). That a file a row names is kept
  depends on which journals may still roll back. `Decided` says that none of those
  covers such a file; it needs `Stages` (what a retry knows of its attempt at each
  step), `Virgin` (an attempt that has not created its file has left nothing to
  confuse it with), `Clean` (what a complete inventory has settled before anything is
  evicted) and `Apart` (a file is in one place). `Aside` is what makes
  `NoStrayEvidence` inductive: evidence set aside has no journal of its own, so
  bringing it back makes nothing stray. `RecoveryDecides` is about journals whose
  writer is dead; `Decidable` says it of every open journal, because a crash can make
  any of them such a one. `Planned` is what keeps it: while its writer lives a journal
  has set aside what it planned, but for the one move that is being made (`MakesRoom`,
  on a complete inventory and under the lock), it plans to move only files whose own journal is
  gone, and no attempt that may still unlink its file has written it. TLC finds the
  unwritten file of "Evidence" above as soon as `RecoveryDecides` leaves "whole" out
  (room for one, three faults).
* **EventReview** (`TypeCorrect`, `OneTruthPerEvent`, `OneLabelPerCrop`,
  `ConfirmationKeepsImage`, `DecisionsAreKept`, `ImplementsRecord`). `Found` says that
  what a capture has looked up is still all there is while it holds the lock; `Secure`
  that a crop pinned by a request stays pinned, by the request, its lease or a
  restart, until its sample is stored or a pin is refused (`safe`); `Kept` that no write or crash takes back an
  image which an event, a request or a truth refers to; `Fresh` that a row not made
  yet has no sample. For `DecisionsAreKept`, `Snapshot` says that what a refresh
  between its two transactions knows of its event is still what the event shows, or
  older than the decision made meanwhile. It needs `Serial` (the commit lock: no other
  refresh writes the event), `Timed` (a decision carries a later time than anything
  read), `Named` (a decision names a plate, so that a refresh of a decided event has
  read that plate) and `Unstored` (an insert does not meet an event that is there).
  The proof made the model more precise: `Read` had not taken the commit lock, and
  with two readings of one event `DecisionKept` failed. The run has one reading beside
  the stored event; that the lock is what `DecisionKept` needs was seen with two (one
  operator, clock to 4, no fault: 1.78 million states pass, and without `Committing`
  TLC finds a violation 19 steps long), and is proved for any number.
  `ImplementsRecord` maps a reading between its transactions to the plan of its event:
  the row of an event is inserted once, has one plan at a time, which names the plate
  the row shows or its first one, and changes only to that plan or by a decision;
  retention takes no decided row. The same invariants carry it, and `Conflicts`, the
  rule that a reading without a strict plate leaves an identified event alone.
* **VisitLedger** (`VisitInvariant`, `TypeCorrect`, `LedgerAlwaysAgrees`,
  `ConfirmedRowsShowTheirPlate`, `WrittenRowsKeepTheirPlates`,
  `ConfirmedVisitsEndByAbsence`). Each operation of the ledger has a lemma that says
  which of the ten maps it changes and how; the steps are compositions of them.
  `LedgerAgrees` needs `Standing`: the drain finds the entry it means because ids are
  unique and each is tried once. `Written` says that an event somebody refers to was
  inserted before; without it the id of a new entry could be that of a row that already
  shows a plate. `Counted` compares the ledger's count of misses with how often the
  camera did not show the plate, which is what `VisitEndsByAbsence` is about.
* **LiveScheduler, VideoPass** (`SchedulerTypeCorrect`, `OneFutureAlways`,
  `PureEvidenceAlways`; `ImplementsScheduler`, `SchedulerSafeUnderStreams`,
  `VideoTypeCorrect`, `OneStream`, `SubmittedInOneLife`, `StoppedStreamsAreQuiet`,
  `ReadingsKeepOrder`, `MarkedPassesAreWhole`). `Placed` says that who is inside `submit` has the
  lock, the camera's present state and a frame of the present detector. `OneFuture`
  has to say when `busy` is set, because `Promote` and `Schedule` trust that flag. The
  streams use the worker only through steps of `LiveScheduler`; a live thread is the
  managed stream's, because the manager drops a stream only after both of its threads
  are dead, and only a dropped stream is replaced. For the four last theorems: a decoder
  on its way has set the durable mark before it hands a frame on (`Marked`); a stream is
  joined before its state is removed, one state at most is not retired, and what waits
  or is at work for it came from the managed stream (`Quiet`); a frame in hand is in one
  place, and newer than every committed one (`Ordered`), because slot, `pending` and
  `busy` each hold one; and every frame of the pass under way was replaced in the slot,
  is still on its way, or is in a counter the drain waits for (`PassTold`).
* **StorageGate** (`GateTypeCorrect`, `SavesAreExclusive`, `NothingLeaks`,
  `FenceHolds`, `FenceFindsQuiet`). `NoLeak` counts the owners, so each step is an
  argument about the cardinality of their set.
* **StorageMigration** (`TypeCorrect`, `NoReadingIsLost`, `ServiceIsRestored`). The
  two copies are taken at two times, and a poll may start a worker between them.
  `Copies` says what each copy holds from its moment on, under the condition that
  makes it true (the worker that was stopped before the first copy is still the
  stopped one at the second, which `CopySidecar` insists on); `Ahead` says that the
  pointer is ahead of the process only behind a move that nothing follows.
  `ServiceIsRestored` has the exception the code makes: a restart that raised.
* **EngineV2** (`EngineInvariant`, `NoTrackIsStuck`, `EvidenceKeepsItsLife`,
  `PassagesAreDecidedOnce`). `WorldFits` is about what the state lock protects: every
  episode is of the camera's epoch, with crops and readings of that lifecycle only, and
  every episode that waits has a task in the queue or among `H`, the keys of the tasks
  that left it (popped, read, abandoned). Each operation on a world has a lemma that it
  keeps `WorldFits` and does not reopen an episode (`Goes`); `Applied` and `Reconciled`
  keep it even without the key they serve, which is what lets the task be forgotten.
  What the central thread forgets when a callback raises stays in `H` as `lost`, the
  exception of `SubmittedIsBacked`.
  While the finalizer works, `H` is every key: it has taken the tasks of the camera into
  its own lists and answers for all episodes. `Finalizing` says why that promise can be
  dropped at `FinClose`: a camera that was reopened meanwhile has no track, since the
  central thread rests until the finalizer is done. `Modes` ties the lifecycle of an
  epoch to the two ways a producer announces it.
* **ModelPromotion** (`PromotionTypeCorrect`, `OneRowAlways`, `PublishedWhole`,
  `CandidatesArePure`, `PromotionsAreCurrent`, `MovesFindIdle`). A candidate that mixes
  two models is not refused by any check of its own: `Line` says that promotions form
  one line in which a replaced model never comes back, so its base cannot be active
  again and `BaselineIsActive` refuses it. `Placed` and `Line` hold through every failing
  call and crash; a lost file is all that excuses them.

Only model-checked: what needs fairness (`EventuallySettled`, `SaveServed`,
`FinalizeEnds`) or `ENABLED` (`NoLockDeadlock`), which the prover does not treat. Every
other property of a passing run is a theorem.

## 5. Not modelled, and why

* **Subprocess jobs** (`async_jobs.py`): one job per call, with its own workspace,
  killed and reaped at its time-out. The state that could go wrong is the operating
  system's.
* **The pipeline** (`ai/pipeline.py`, detectors, OCR, plate rules, geometry) and the
  **ONNX backends**: numerical, on one thread; their outputs are the readings and
  results that the other modules take as choices. Which reading is right is measured,
  not checked.
* **Web pages, authentication, export, configuration, schema**: request handling
  without state of its own. Handlers that change shared state are modelled with the
  part they change; `storage_config.json` is `pointer` of `StorageMigration`.
* **The live shadow** of engine v2, its load control, `reset_runtime_state`, voters
  that raise, two plates in one frame.
* **Media store**: uploads that grow under a reservation, the handoff to a
  subprocess, protected side paths, the full actions "alert" and "stop", a root with a
  history, the concurrent eviction by several *kinds* of writers.
* **Streams**: a stream whose thread the operating system refuses to start
  (`Thread.start` raises in `CameraStream.start`). It stays in `manager.streams`, the
  next `get` returns it as it is, and `frames()` starts it a second time, which may
  leave it with two submitters; nothing that is shown of `VideoPass` covers such a
  stream. Also pause, playback, overlays, network cameras (which have no pass), the
  PyAV fallback, which decodes and completes in the same way.
* **Model manager**: download and installation of the vendor's models, which replace
  a verified file; the export of training data and the optimisation itself.
* **Benchmarks, offline video tests, launcher, installer, diagnostics**: offline tools
  and packaging.
* The directories `BCVision_2.2.0-rc18_FastVideo_Source` and `_bcvision_rc18_backup_*`
  of the repository are older copies of the same program; the models are of `app/`.

What would come next: uploads as a second kind of writer in `MediaStore`; two cameras
on one engine queue.
