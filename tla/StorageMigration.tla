-------------------------- MODULE StorageMigration --------------------------
(***************************************************************************)
(* A save of the storage settings (save_storage_settings, src/app/main.py), *)
(* with or without a move of the storage root, and the installation of an   *)
(* update (install_update_zip, the same file), beside the live ANPR worker  *)
(* they stop and start (start_/shutdown_live_anpr_worker and                *)
(* _running_live_anpr_worker, src/app/ai/live_worker.py), the status polls  *)
(* that reach that worker without the gate, and crashes.  A save has the    *)
(* gate for itself, as StorageGate proves; an update shares it with every   *)
(* request but a save.                                                      *)
(*                                                                         *)
(* A root directory holds the primary database and the retry sidecar.  Of   *)
(* the first the model keeps the settled readings, of the second the owed   *)
(* ones; RetryOutbox is what happens inside.  storage_config.json names the *)
(* root the next start of the process will use.                             *)
(***************************************************************************)
EXTENDS Naturals, FiniteSets

CONSTANTS Roots, FirstRoot,   \* storage roots, and the one first installed
          Readings,           \* persistence ids
          Workers,            \* bound: LiveANPRWorker objects ever made
          MaxFaults,          \* bound: failing steps of a save or an update
          MaxCrashes,         \* bound: crashes and power cuts
          None

ASSUME RootsAssumption == FirstRoot \in Roots /\ None \notin Roots
ASSUME OthersAssumption ==
    /\ None \notin Readings \cup Workers
    /\ IsFiniteSet(Workers)
    /\ MaxFaults \in Nat /\ MaxCrashes \in Nat

VARIABLES
    files,    \* what stands in each root: "db", "sidecar"         (durable)
    settled,  \* readings settled in the database of each root     (durable)
    owed,     \* rows in the sidecar of each root                  (durable)
    pointer,  \* the root storage_config.json names                (durable)
    synced,   \* its directory was synchronized since it was replaced
    staged,   \* the copies in the staging directory
    accepted, \* history: readings whose row was durable once
    up,       \* the process runs
    root,     \* DATA_DIR of the process
    current,  \* the module's worker
    stopped,  \* workers with _stopped
    alive,    \* workers with a thread that may still write
    hand,     \* a reading settled by such a thread, its row not deleted yet
    cameras,  \* the streams: on, stopping (a stop timed out), off
    restart,  \* _STORAGE_RESTART_REQUIRED
    unstarted,\* history: whose restart raised, and which nothing has started since
    save,     \* the save at work: where it stands, its root, producers_quiesced
    update,   \* the update at work: where it stands
    faults, crashes

disk    == <<files, settled, owed, pointer, synced, accepted>>
workers == <<current, stopped, alive, hand>>
process == <<up, root, restart, unstarted>>
bounds  == <<faults, crashes>>
vars    == <<disk, staged, workers, process, cameras, save, update, bounds>>

Complete == {"db", "sidecar"}
NoSave   == [pc |-> "idle", target |-> None, quiesced |-> FALSE]
Nothing  == [settled |-> {}, owed |-> {}]

Producers == {"worker", "cameras"}

Steps == {"idle", "stopping", "shutting", "joining", "checking", "quiesced",
          "dbcopied", "copied", "dbpublished", "published", "pointed", "failed"}

UpdateSteps == {"idle", "stopping", "shutting", "joining", "checking",
                "launching", "launched", "resuming", "reopening"}

Init ==
    /\ files = [r \in Roots |-> IF r = FirstRoot THEN Complete ELSE {}]
    /\ settled = [r \in Roots |-> {}]
    /\ owed = [r \in Roots |-> {}]
    /\ pointer = FirstRoot /\ synced = TRUE
    /\ staged = Nothing
    /\ accepted = {}
    /\ up = FALSE
    /\ root = FirstRoot
    /\ current = None
    /\ stopped = {} /\ alive = {}
    /\ hand = [w \in Workers |-> None]
    /\ cameras = "off"
    /\ restart = FALSE /\ unstarted = {}
    /\ save = NoSave
    /\ update = "idle"
    /\ faults = 0 /\ crashes = 0

-----------------------------------------------------------------------------
(* The worker.                                                              *)

Unused == Workers \ (stopped \cup alive)

\* start_live_anpr_worker(): a stopped worker is replaced.
StartWorker ==
    \/ /\ current = None \/ current \in stopped
       /\ \E w \in Unused :
            /\ current' = w
            /\ alive' = alive \cup {w}
       /\ UNCHANGED <<stopped, hand>>
    \/ /\ current # None /\ current \notin stopped
       /\ UNCHANGED workers

\* manager.start_enabled_cameras(), and get() for one: a stream whose stop timed
\* out is waited for once more, and a new one refused while it has not ended.
StartCameras ==
    cameras' \in IF cameras = "stopping" THEN {"on", "stopping"} ELSE {"on"}

\* start_live_anpr_worker() has a worker to make, and does not get it.
WorkerFails == current \in stopped /\ UNCHANGED workers

Fault == faults < MaxFaults /\ faults' = faults + 1

\* The worker, then the cameras, whatever became of the worker.  One that does
\* not start is reported, and that is all.
RestartBoth ==
    \/ StartWorker /\ StartCameras /\ unstarted' = {} /\ UNCHANGED faults
    \/ WorkerFails /\ StartCameras /\ unstarted' = {"worker"} /\ Fault
    \/ StartWorker /\ UNCHANGED cameras /\ unstarted' = {"cameras"} /\ Fault
    \/ WorkerFails /\ UNCHANGED cameras /\ unstarted' = Producers /\ Fault

\* A row is accepted: cameras feed the running worker.
Accept(i) ==
    /\ up /\ cameras # "off" /\ current \in alive \ stopped
    /\ i \notin accepted
    /\ owed' = [owed EXCEPT ![root] = @ \cup {i}]
    /\ accepted' = accepted \cup {i}
    /\ UNCHANGED <<files, settled, pointer, synced, staged, workers, process,
                   cameras, save, update, bounds>>

Joining == "joining" \in {save.pc, update}

\* No drain of the worker that is being shut down is at work.
Drained == Joining => hand[current] = None

\* A worker's pump, or the flush of its shutdown, settles a reading ...  Its
\* shutdown waits for the lock of every state, so afterwards no drain is at
\* work, although the thread may be (its join has a timeout).
Settle(w, i) ==
    /\ up /\ w \in alive /\ hand[w] = None
    /\ w \notin stopped \/ (w = current /\ Joining)
    /\ i \in owed[root]
    /\ settled' = [settled EXCEPT ![root] = @ \cup {i}]
    /\ hand' = [hand EXCEPT ![w] = i]
    /\ UNCHANGED <<files, owed, pointer, synced, staged, accepted, current, stopped,
                   alive, process, cameras, save, update, bounds>>

\* ... and deletes its row.
Delete(w) ==
    /\ up /\ w \in alive /\ hand[w] # None
    /\ owed' = [owed EXCEPT ![root] = @ \ {hand[w]}]
    /\ hand' = [hand EXCEPT ![w] = None]
    /\ UNCHANGED <<files, settled, pointer, synced, staged, accepted, current,
                   stopped, alive, process, cameras, save, update, bounds>>

\* The threads of a stopped worker end.
Exit(w) ==
    /\ up /\ w \in alive \cap stopped /\ hand[w] = None
    /\ alive' = alive \ {w}
    /\ UNCHANGED <<disk, staged, current, stopped, hand, process, cameras, save,
                   update, bounds>>

\* GET /api/cameras/{id}/status, which no gate holds back, asks for the running
\* worker: _running_live_anpr_worker() starts one.  While a shutdown is at work
\* it has the worker lock.
Poll ==
    /\ up /\ ~Joining
    /\ current \in stopped
    /\ StartWorker /\ unstarted' = unstarted \ {"worker"}
    /\ UNCHANGED <<disk, staged, up, root, restart, cameras, save, update, bounds>>

-----------------------------------------------------------------------------
(* The save.                                                                *)

Moves == save.target # root

Reach(from, to) == up /\ save.pc = from /\ save' = [save EXCEPT !.pc = to]

\* Admitted by the gate.  A root that is not empty is refused before anything
\* is stopped.
Begin(t) ==
    /\ up /\ save = NoSave /\ ~restart /\ update \in {"idle", "launched"}
    /\ t = root \/ files[t] = {}
    /\ save' = [pc |-> "stopping", target |-> t, quiesced |-> FALSE]
    /\ UNCHANGED <<disk, staged, workers, process, cameras, update, bounds>>

\* manager.stop_all(): every stream ended ...
StopCameras ==
    /\ Reach("stopping", "shutting")
    /\ cameras' = "off"
    /\ UNCHANGED <<disk, staged, workers, process, update, bounds>>

\* ... or one of them did not in time.
CamerasStuck ==
    /\ Fault
    /\ Reach("stopping", "failed")
    /\ cameras' = IF cameras = "off" THEN "off" ELSE "stopping"
    /\ UNCHANGED <<disk, staged, workers, process, update, crashes>>

\* shutdown_live_anpr_worker() takes the worker lock and raises _stopped.
StopWorker ==
    /\ Reach("shutting", "joining")
    /\ stopped' = stopped \cup {current}
    /\ UNCHANGED <<disk, staged, current, alive, hand, process, cameras, update, bounds>>

\* Its threads ended within the timeout and every entry was flushed.
Joined ==
    /\ Reach("joining", "checking")
    /\ current \notin alive
    /\ UNCHANGED <<disk, staged, workers, process, cameras, update, bounds>>

\* require_media_writes_quiescent(): no reservation is left.
Quiesced ==
    /\ up /\ save.pc = "checking"
    /\ save' = [save EXCEPT !.pc = "quiesced", !.quiesced = TRUE]
    /\ UNCHANGED <<disk, staged, workers, process, cameras, update, bounds>>

\* A save that moves nothing: the settings commit, retention runs, and the
\* producers are started again.
SaveInPlace ==
    /\ up /\ save.pc = "quiesced" /\ ~Moves
    /\ save' = NoSave
    /\ RestartBoth
    /\ UNCHANGED <<disk, staged, up, root, restart, update, crashes>>

CopyDatabase ==
    /\ Moves /\ Reach("quiesced", "dbcopied")
    /\ staged' = [staged EXCEPT !.settled = settled[root]]
    /\ UNCHANGED <<disk, workers, process, cameras, update, bounds>>

\* Mutant: backup_retry_outbox does not insist on a stopped worker.
CopySidecarAnyhow ==
    /\ Reach("dbcopied", "copied")
    /\ staged' = [staged EXCEPT !.owed = owed[root]]
    /\ UNCHANGED <<disk, workers, process, cameras, update, bounds>>

\* backup_retry_outbox() raises unless the worker is stopped and its thread gone.
CopySidecar ==
    /\ current \in stopped \ alive
    /\ Reach("dbcopied", "copied")
    /\ staged' = [staged EXCEPT !.owed = owed[root]]
    /\ UNCHANGED <<disk, workers, process, cameras, update, bounds>>

BackupRefused ==
    /\ current \notin stopped \ alive
    /\ Reach("dbcopied", "failed")
    /\ UNCHANGED <<disk, staged, workers, process, cameras, update, bounds>>

\* Hard links: atomic, and never over an existing file.
PublishDatabase ==
    /\ Reach("copied", "dbpublished")
    /\ files' = [files EXCEPT ![save.target] = @ \cup {"db"}]
    /\ settled' = [settled EXCEPT ![save.target] = staged.settled]
    /\ UNCHANGED <<owed, pointer, synced, staged, accepted, workers, process, cameras,
                   update, bounds>>

PublishSidecar ==
    /\ Reach("dbpublished", "published")
    /\ files' = [files EXCEPT ![save.target] = @ \cup {"sidecar"}]
    /\ owed' = [owed EXCEPT ![save.target] = staged.owed]
    /\ UNCHANGED <<settled, pointer, synced, staged, accepted, workers, process, cameras,
                   update, bounds>>

\* storage_config.json is replaced, atomically; from here on the new root must
\* be kept whatever follows.
ReplacePointer ==
    /\ Reach("published", "pointed")
    /\ pointer' = save.target /\ synced' = FALSE
    /\ restart' = TRUE
    /\ UNCHANGED <<files, settled, owed, accepted, staged, workers, up, root, unstarted,
                   cameras, update, bounds>>

\* The replacement is reported as failed, though it happened.
ReplaceMisreported ==
    /\ Fault
    /\ Reach("published", "failed")
    /\ pointer' = save.target /\ synced' = FALSE
    /\ UNCHANGED <<files, settled, owed, accepted, staged, workers, process,
                   cameras, update, crashes>>

\* The migration marker is published and the directory synchronized.  The
\* process goes on, stopped, until it is restarted.
SyncPointer ==
    /\ up /\ save.pc = "pointed"
    /\ synced' = TRUE
    /\ save' = NoSave
    /\ UNCHANGED <<files, settled, owed, pointer, accepted, staged, workers, process,
                   cameras, update, bounds>>

\* Any step up to the pointer's replacement may raise instead of doing what it
\* does; the marker may fail after it, which changes nothing any more.
Fails ==
    /\ Fault
    /\ Drained
    /\ \/ /\ save.pc \in {"joining", "checking", "quiesced", "dbcopied",
                          "copied", "dbpublished", "published"}
          /\ Reach(save.pc, "failed")
       \/ /\ up /\ save.pc = "pointed"
          /\ save' = NoSave
    /\ UNCHANGED <<disk, staged, workers, process, cameras, update, crashes>>

\* The pointer is read again: a move that did happen is not rolled back.
KeepMoved ==
    /\ up /\ save.pc = "failed" /\ Moves /\ pointer = save.target
    /\ restart' = TRUE
    /\ save' = NoSave
    /\ UNCHANGED <<disk, staged, workers, up, root, unstarted, cameras, update, bounds>>

\* Mutant: a save that failed to stop its producers just ends.
RestartQuiesced ==
    /\ save.quiesced => RestartBoth
    /\ ~save.quiesced => UNCHANGED <<workers, cameras, unstarted, faults>>
    /\ UNCHANGED restart

\* Producers start again only if every one of them was proved to have stopped.
RestartProducers ==
    IF save.quiesced
    THEN RestartBoth /\ UNCHANGED restart
    ELSE restart' = TRUE /\ UNCHANGED <<workers, cameras, unstarted, faults>>

\* Mutant: the rollback does not ask whether the pointer was replaced.
RollBackAnyhow ==
    /\ up /\ save.pc = "failed"
    /\ files' = IF Moves THEN [files EXCEPT ![save.target] = {}] ELSE files
    /\ RestartProducers
    /\ save' = NoSave
    /\ UNCHANGED <<settled, owed, pointer, synced, accepted, staged, up, root, update, crashes>>

\* What was published is removed, or some of it is left: each removal may fail,
\* and then only the report differs.
RollBack ==
    /\ up /\ save.pc = "failed" /\ ~(Moves /\ pointer = save.target)
    /\ \/ files' = IF Moves THEN [files EXCEPT ![save.target] = {}] ELSE files
       \/ Moves /\ UNCHANGED files
    /\ RestartProducers
    /\ save' = NoSave
    /\ UNCHANGED <<settled, owed, pointer, synced, accepted, staged, up, root, update, crashes>>

Saving ==
    \/ \E t \in Roots : Begin(t)
    \/ StopCameras \/ CamerasStuck \/ StopWorker \/ Joined \/ Quiesced \/ SaveInPlace
    \/ CopyDatabase \/ CopySidecar \/ BackupRefused
    \/ PublishDatabase \/ PublishSidecar
    \/ ReplacePointer \/ ReplaceMisreported \/ SyncPointer
    \/ Fails \/ KeepMoved \/ RollBack

-----------------------------------------------------------------------------
(* The update, and the requests beside it.                                  *)

Proceed(from, to) == up /\ update = from /\ update' = to

\* The package was verified; the request has the gate with others.
BeginUpdate ==
    /\ save = NoSave /\ ~restart
    /\ Proceed("idle", "stopping")
    /\ UNCHANGED <<disk, staged, workers, process, cameras, save, bounds>>

\* _quiesce_services_for_update(): the streams, the worker, the reservations.
UpdateStopsCameras ==
    /\ Proceed("stopping", "shutting")
    /\ cameras' = "off"
    /\ UNCHANGED <<disk, staged, workers, process, save, bounds>>

UpdateStopsWorker ==
    /\ Proceed("shutting", "joining")
    /\ stopped' = stopped \cup {current}
    /\ UNCHANGED <<disk, staged, current, alive, hand, process, cameras, save,
                   bounds>>

WorkerJoined ==
    /\ Proceed("joining", "checking")
    /\ current \notin alive
    /\ UNCHANGED <<disk, staged, workers, process, cameras, save, bounds>>

NoWrites ==
    /\ Proceed("checking", "launching")
    /\ UNCHANGED <<disk, staged, workers, process, cameras, save, bounds>>

\* The installer runs; the process ends shortly after the response.
Launch ==
    /\ Proceed("launching", "launched")
    /\ UNCHANGED <<disk, staged, workers, process, cameras, save, bounds>>

\* A stop times out, a reservation is left, or the installer does not start.
UpdateAborts ==
    /\ Fault
    /\ Drained
    /\ update \in {"stopping", "joining", "checking", "launching"}
    /\ Proceed(update, "resuming")
    /\ cameras' = IF update = "stopping" /\ cameras # "off" THEN "stopping" ELSE cameras
    /\ UNCHANGED <<disk, staged, workers, process, save, crashes>>

\* _resume_services_after_update_abort(): the worker, then the streams.  What
\* raises ends it, and is the answer to the request.
ResumeWorker ==
    /\ Proceed("resuming", "reopening")
    /\ StartWorker /\ unstarted' = unstarted \ {"worker"}
    /\ UNCHANGED <<disk, staged, up, root, restart, cameras, save, bounds>>

ResumeWorkerFails ==
    /\ Proceed("resuming", "idle") /\ Fault
    /\ WorkerFails /\ unstarted' = Producers
    /\ UNCHANGED <<disk, staged, up, root, restart, cameras, save, crashes>>

ResumeCameras ==
    /\ Proceed("reopening", "idle")
    /\ StartCameras /\ unstarted' = unstarted \ {"cameras"}
    /\ UNCHANGED <<disk, staged, workers, up, root, restart, save, bounds>>

ResumeCamerasFails ==
    /\ Proceed("reopening", "idle") /\ Fault
    /\ unstarted' = unstarted \cup {"cameras"}
    /\ UNCHANGED <<disk, staged, workers, up, root, restart, cameras, save, crashes>>

\* A live view opens its camera's stream; it shares the gate.
View ==
    /\ up /\ save = NoSave /\ ~restart
    /\ cameras # "on" /\ StartCameras /\ unstarted' = unstarted \ {"cameras"}
    /\ UNCHANGED <<disk, staged, workers, up, root, restart, save, update, bounds>>

Updating ==
    \/ BeginUpdate \/ UpdateStopsCameras \/ UpdateStopsWorker \/ WorkerJoined
    \/ NoWrites \/ Launch \/ UpdateAborts
    \/ ResumeWorker \/ ResumeWorkerFails \/ ResumeCameras \/ ResumeCamerasFails
    \/ View

-----------------------------------------------------------------------------
(* The process.                                                             *)

Down ==
    /\ up' = FALSE
    /\ current' = None
    /\ stopped' = stopped \cup alive /\ alive' = {}
    /\ hand' = [w \in Workers |-> None]
    /\ cameras' = "off"
    /\ save' = NoSave
    /\ update' = "idle"
    /\ staged' = Nothing
    /\ restart' = FALSE /\ unstarted' = {}
    /\ UNCHANGED <<files, settled, owed, accepted, root>>

\* The process ends, by a crash, to be restarted, or behind the installer (then
\* whatever else is at work); the system writes what it has not synchronized.
Quit ==
    /\ up
    /\ \/ restart /\ save = NoSave /\ UNCHANGED crashes
       \/ update = "launched" /\ UNCHANGED crashes
       \/ crashes < MaxCrashes /\ crashes' = crashes + 1
    /\ Down
    /\ synced' = TRUE
    /\ UNCHANGED <<pointer, faults>>

\* The power fails: a pointer that was not synchronized may be the old one again.
PowerCut ==
    /\ up /\ crashes < MaxCrashes /\ crashes' = crashes + 1
    /\ pointer' \in IF synced THEN {pointer} ELSE {pointer, root}
    /\ synced' = TRUE
    /\ Down
    /\ UNCHANGED faults

\* The next start reads the pointer, and refuses a root without a database.
\* The lifespan starts the worker and the cameras.
Boot ==
    /\ ~up /\ "db" \in files[pointer]
    /\ up' = TRUE
    /\ root' = pointer
    /\ StartWorker /\ StartCameras
    /\ UNCHANGED <<disk, staged, save, restart, unstarted, update, bounds>>

Next ==
    \/ Saving \/ Updating
    \/ \E i \in Readings : Accept(i)
    \/ \E w \in Workers : Delete(w) \/ Exit(w) \/ \E i \in Readings : Settle(w, i)
    \/ Poll
    \/ Quit \/ PowerCut \/ Boot

Spec == Init /\ [][Next]_vars

-----------------------------------------------------------------------------
(* Properties.                                                              *)

\* Every variable has its type.
TypeOK ==
    /\ files \in [Roots -> SUBSET Complete]
    /\ settled \in [Roots -> SUBSET Readings] /\ owed \in [Roots -> SUBSET Readings]
    /\ pointer \in Roots /\ root \in Roots
    /\ staged \in [settled: SUBSET Readings, owed: SUBSET Readings]
    /\ accepted \subseteq Readings
    /\ current \in Workers \cup {None}
    /\ stopped \subseteq Workers /\ alive \subseteq Workers
    /\ hand \in [Workers -> Readings \cup {None}]
    /\ {synced, up, restart} \subseteq BOOLEAN /\ unstarted \subseteq Producers
    /\ cameras \in {"on", "stopping", "off"}
    /\ save \in [pc: Steps, target: Roots \cup {None}, quiesced: BOOLEAN]
    /\ update \in UpdateSteps
    /\ faults \in 0 .. MaxFaults /\ crashes \in 0 .. MaxCrashes

\* The roots the next start may use.
Candidates == {pointer} \cup (IF synced THEN {} ELSE {root})

\* Wherever the process is started next, both databases are there, whatever a
\* failing move removes and whenever the power fails ("Deleting it here could
\* leave a persisted pointer aimed at an empty root after power loss"), and so is
\* every reading ever accepted: settled in the database or owed in the sidecar.
\* The copies of the two are not taken at one instant, and a status poll may
\* start a worker in between ("an event could commit between the primary DB and
\* outbox copies, leaving neither destination snapshot responsible for it").
MoveLosesNothing ==
    \A r \in Candidates :
        files[r] = Complete /\ accepted \subseteq settled[r] \cup owed[r]

\* A save or an update that is over leaves the worker and the cameras at work
\* (but for a stream that would not stop when it was told to), or a process
\* that refuses further changes until it is restarted; it never just stops them.
\* Whose restart raised is the exception: it stays stopped without that refusal,
\* until a status poll asks for the worker and a live view for a stream.
ServiceRestored ==
    up /\ save = NoSave /\ update = "idle" =>
        \/ restart
        \/ /\ cameras # "off" \/ "cameras" \in unstarted
           /\ current \in alive \ stopped \/ "worker" \in unstarted
=============================================================================
