----------------------------- MODULE EventReview -----------------------------
(***************************************************************************)
(* Who decides what an event shows.  A camera reading stores or refreshes   *)
(* an event in two transactions with the image write between them           *)
(* (_persist, src/app/ai/live_worker.py).  An operator corrects or confirms *)
(* its plate (correct_event_plate, src/app/main.py); the correction is also *)
(* a training truth, and its crop is copied into the training set           *)
(* (src/app/ai/training.py) before the quota or retention discards it.      *)
(*                                                                         *)
(* A reading is one observation of the camera.  The event it inserts and    *)
(* the image it writes carry its name: both derive from its persistence id. *)
(* What the image store does inside a write is MediaStore; that a reading   *)
(* is not lost and not inserted twice is RetryOutbox.                       *)
(***************************************************************************)
EXTENDS Integers, FiniteSets

CONSTANTS Reading,      \* observations of the camera
          Old,          \* readings whose event was stored earlier
          Plate,        \* plates
          First,        \* [Old -> Plate \cup {Unread}]: what they showed
          Unread,       \* no strict identity (a review-only reading)
          CameraId,     \* [Reading -> the camera it comes from]
          Pixels,       \* [Reading -> digest of the crop]
          None,         \* no event, no image, no digest, lock is free
          Request,      \* operator requests running at the same time
          Recovery,     \* the start-up pass over pending feedback
          MaxFeedback,  \* bound: rows of anpr_feedback
          MaxClock,     \* bound: readings and decisions
          MaxFaults,    \* bound: failing calls and lost sample files
          MaxCrashes    \* bound: process crashes

ASSUME ReadingAssumption == Old \subseteq Reading /\ None \notin Reading
                            /\ First \in [Old -> Plate \cup {Unread}]
                            /\ Unread \notin Plate
                            /\ \A i \in Reading : Pixels[i] # None
ASSUME WorkerAssumption  == Recovery \notin Request /\ None \notin Request
                            /\ None # Recovery
ASSUME BoundAssumption   == MaxFeedback \in Nat /\ MaxClock \in Nat /\ MaxFaults \in Nat
                            /\ MaxCrashes \in Nat

Feedback == 1 .. MaxFeedback
Worker   == Request \cup {Recovery}
Known    == Plate \cup {Unread}
Digest   == {Pixels[i] : i \in Reading}

VARIABLES
    event,    \* ids in plate_events                                (durable)
    plate,    \* plate_norm                                         (durable)
    reviewed, \* events with operator_reviewed                      (durable)
    crop,     \* plate_image_path                                   (durable)
    stamp,    \* updated_at                                         (durable)
    disk,     \* image files in place                               (durable)
    made,     \* feedback rows: 1 .. made                           (durable)
    truth,    \* [Feedback -> [event, label, crop]]                 (durable)
    status,   \* confirmed, superseded                              (durable)
    train,    \* training_status                                    (durable)
    sha,      \* sample_sha256                                      (durable)
    copy,     \* sample_path: the feedback whose file it is         (durable)
    sample,   \* sample files: the feedback that published them     (durable)
    clock,    \* time of readings and corrections
    rd,       \* a reading: where it is, its time, target, snapshot
    op,       \* a request: where it is, event, pin, crop and feedback read, label
    pc, job, found, \* a capture: where it is, its feedback, its duplicates
    mutex,    \* _TRAINING_LOCK
    lease,    \* _PENDING_SOURCE_PINS
    phase, batch, \* start-up, and what its recovery has still to do
    safe,     \* history: confirmed with a crop whose pins were granted and kept
    captured, \* history: had a verified sample
    faults, crashes

store == <<event, plate, reviewed, crop, stamp, disk>>
rows  == <<made, truth, status>>
set   == <<train, sha, copy, sample>>
cap   == <<pc, job, found, mutex, lease>>
boot  == <<phase, batch>>
past  == <<safe, captured>>
vars  == <<store, rows, set, clock, rd, op, cap, boot, past, faults, crashes>>

NoTruth   == [event |-> None, label |-> Unread, crop |-> None]
NoReading == [at |-> "none", seen |-> Unread, time |-> 0, target |-> None, plate |-> Unread,
              reviewed |-> FALSE, crop |-> None, stamp |-> 0]
NoRequest == [at |-> "idle", event |-> None, pin |-> None, crop |-> None,
              current |-> 0, label |-> Unread]

Running == phase = "up"
Fault   == faults < MaxFaults /\ faults' = faults + 1
NoFault == UNCHANGED faults

Confirmed(f) == f \in 1 .. made /\ status[f] = "confirmed"
Pending(f)   == Confirmed(f) /\ train[f] = "pending"
Current(e)   == {f \in 1 .. made : status[f] = "confirmed" /\ truth[f].event = e}
Holds(f)     == train[f] \in {"ready", "duplicate"}

\* What the quota and retention may not discard.
Pinned == {op[r].pin : r \in Request} \cup {truth[f].crop : f \in lease}
          \cup {i \in Reading : rd[i].at = "write" /\ rd[i].crop = i}

Init ==
    /\ event = Old /\ reviewed = {} /\ disk = Old
    /\ plate = [e \in Reading |-> IF e \in Old THEN First[e] ELSE Unread]
    /\ crop  = [e \in Reading |-> IF e \in Old THEN e ELSE None]
    /\ stamp = [e \in Reading |-> 0]
    /\ made = 0 /\ truth = [f \in Feedback |-> NoTruth]
    /\ status = [f \in Feedback |-> "none"]
    /\ train = [f \in Feedback |-> "none"] /\ sha = [f \in Feedback |-> None]
    /\ copy = [f \in Feedback |-> 0] /\ sample = {}
    /\ clock = 0 /\ rd = [i \in Reading |-> NoReading]
    /\ op = [r \in Request |-> NoRequest]
    /\ pc = [w \in Worker |-> "idle"] /\ job = [w \in Worker |-> 0]
    /\ found = [w \in Worker |-> {}] /\ mutex = None /\ lease = {}
    /\ phase = "up" /\ batch = {}
    /\ safe = {} /\ captured = {} /\ faults = 0 /\ crashes = 0

-----------------------------------------------------------------------------
(* The camera: one call of _persist per reading.                            *)

Emit(i, s) ==
    /\ Running /\ i \notin Old /\ rd[i].at = "none"
    /\ clock < MaxClock /\ clock' = clock + 1
    /\ rd' = [rd EXCEPT ![i] = [@ EXCEPT !.at = "due", !.seen = s, !.time = clock + 1]]
    /\ UNCHANGED <<store, rows, set, op, cap, boot, past, faults, crashes>>

\* Mutant: a reading without an identity does not conflict.
ConflictsIfRead(i, e) == /\ e # None /\ rd[i].seen # Unread
                         /\ plate[e] # Unread /\ plate[e] # rd[i].seen

\* Another identity than the event's, or an older observation of it.
Conflicts(i, e) == e # None /\ plate[e] # Unread /\ plate[e] # rd[i].seen
Delayed(i, e)   == e # None /\ rd[i].seen # Unread /\ plate[e] = rd[i].seen
                   /\ stamp[e] > rd[i].time

Stored(i) == [NoReading EXCEPT !.at = "save", !.seen = rd[i].seen,
                               !.time = rd[i].time, !.stamp = rd[i].time]

\* _event_commit_lock: one reading of a camera is stored at a time.
Committing(c) == \E j \in Reading : CameraId[j] = c /\ rd[j].at \in {"save", "write"}

\* The first transaction, under the camera's event_commit_lock.  The event is
\* the one the track is linked to, a recent one of the same plate, both of this
\* camera, or none; a strict reading of another plate is stored beside it, a
\* weak or an old one only gets its receipt.
Read(i, e) ==
    /\ Running /\ rd[i].at = "due" /\ ~Committing(CameraId[i])
    /\ e # None => CameraId[e] = CameraId[i]
    /\ IF (Conflicts(i, e) /\ rd[i].seen = Unread) \/ Delayed(i, e)
         THEN rd' = [rd EXCEPT ![i].at = "done"]
       ELSE IF Conflicts(i, e) \/ e = None
         THEN rd' = [rd EXCEPT ![i] = [Stored(i) EXCEPT
                       !.plate = IF e = None THEN rd[i].seen ELSE Unread]]
         ELSE rd' = [rd EXCEPT ![i] = [Stored(i) EXCEPT
                       !.target = e, !.plate = rd[i].seen, !.crop = crop[e],
                       !.stamp = IF stamp[e] > rd[i].time THEN stamp[e] ELSE rd[i].time,
                       !.reviewed = e \in reviewed]]
    /\ UNCHANGED <<store, rows, set, clock, op, cap, boot, past, faults, crashes>>

\* save_event_images: a file that is there is kept, else a new one is written;
\* if that fails the event is stored without an image.
Save(i) ==
    /\ rd[i].at = "save"
    /\ IF rd[i].crop \in disk
         THEN rd' = [rd EXCEPT ![i].at = "write"] /\ UNCHANGED <<disk, faults>>
         ELSE \/ /\ NoFault
                 /\ rd' = [rd EXCEPT ![i] = [@ EXCEPT !.at = "write", !.crop = i]]
                 /\ disk' = disk \cup {i}
              \/ /\ Fault
                 /\ rd' = [rd EXCEPT ![i] = [@ EXCEPT !.at = "write", !.crop = None]]
                 /\ UNCHANGED disk
    /\ UNCHANGED <<event, plate, reviewed, crop, stamp, rows, set, clock, op,
                   cap, boot, past, crashes>>

\* Mutant: the refresh does not carry the operator's decision over.
WriteUnreviewed(i) ==
    LET e == IF rd[i].target = None THEN i ELSE rd[i].target
    IN  /\ rd[i].at = "write"
        /\ event' = event \cup {e}
        /\ plate' = [plate EXCEPT ![e] = rd[i].plate]
        /\ reviewed' = reviewed \ {e}
        /\ crop' = [crop EXCEPT ![e] = rd[i].crop]
        /\ stamp' = [stamp EXCEPT ![e] = rd[i].stamp]
        /\ rd' = [rd EXCEPT ![i].at = "done"]
        /\ UNCHANGED <<disk, rows, set, clock, op, cap, boot, past, faults, crashes>>

\* The owner transaction: an insert, or an update of the event with values
\* that were made from what the first transaction had read.
Write(i) ==
    LET e == IF rd[i].target = None THEN i ELSE rd[i].target
    IN  /\ rd[i].at = "write"
        /\ event' = event \cup {e}
        /\ plate' = [plate EXCEPT ![e] = rd[i].plate]
        /\ reviewed' = IF rd[i].reviewed THEN reviewed \cup {e}
                                         ELSE reviewed \ {e}
        /\ crop'  = [crop EXCEPT ![e] = rd[i].crop]
        /\ stamp' = [stamp EXCEPT ![e] = rd[i].stamp]
        /\ rd' = [rd EXCEPT ![i].at = "done"]
        /\ UNCHANGED <<disk, rows, set, clock, op, cap, boot, past, faults, crashes>>

Again(i) == [NoReading EXCEPT !.at = "due", !.seen = rd[i].seen,
                              !.time = rd[i].time]

\* The transaction fails: the new image is rolled back, the reading is
\* retried.
WriteFails(i) ==
    /\ rd[i].at = "write" /\ Fault
    /\ disk' = IF rd[i].crop = i THEN disk \ {i} ELSE disk
    /\ rd' = [rd EXCEPT ![i] = Again(i)]
    /\ UNCHANGED <<event, plate, reviewed, crop, stamp, rows, set, clock, op,
                   cap, boot, past, crashes>>

-----------------------------------------------------------------------------
(* The operator: correct_event_plate under _retain_correction_source.       *)

\* The crop is pinned before the handler looks the event up.
Retain(r, e) ==
    /\ Running /\ op[r].at = "idle" /\ e \in event
    /\ op' = [op EXCEPT ![r] = [NoRequest EXCEPT !.at = "select", !.event = e,
                        !.pin = IF crop[e] \in disk THEN crop[e] ELSE None]]
    /\ UNCHANGED <<store, rows, set, clock, rd, cap, boot, past, faults, crashes>>

\* The SELECTs run before the transaction begins with the first write: the
\* feedback gets the crop that the event had here.
Select(r, l) ==
    /\ op[r].at = "select"
    /\ op' = [op EXCEPT ![r] = [@ EXCEPT !.at = "correct", !.label = l,
                        !.crop = crop[op[r].event],
                        !.current = IF Current(op[r].event) = {} THEN 0
                          ELSE CHOOSE f \in Current(op[r].event) : TRUE]]
    /\ UNCHANGED <<store, rows, set, clock, rd, cap, boot, past, faults, crashes>>

Same(r) == op[r].current # 0 /\ truth[op[r].current].label = op[r].label

\* Mutant: no unique index on the confirmed feedback of an event.
InsertableAnyhow(r) == made < MaxFeedback

Unrivalled(r) == Current(op[r].event) \subseteq {op[r].current}

\* The unique index over confirmed rows lets the insert pass.
Insertable(r) == made < MaxFeedback /\ Unrivalled(r)

Decide(r) ==
    /\ plate'    = [plate EXCEPT ![op[r].event] = op[r].label]
    /\ reviewed' = reviewed \cup {op[r].event}
    /\ stamp'    = [stamp EXCEPT ![op[r].event] = clock + 1]
    /\ clock < MaxClock /\ clock' = clock + 1

\* Confirming the current label again reuses its feedback row.
Confirm(r) ==
    /\ op[r].at = "correct" /\ Same(r)
    /\ Decide(r)
    /\ op' = [op EXCEPT ![r].at = "audit"]
    /\ job' = [job EXCEPT ![r] = op[r].current]
    /\ UNCHANGED <<event, crop, disk, rows, set, rd, pc, found, mutex, lease,
                   boot, past, faults, crashes>>

\* Otherwise the current row is superseded and a new one inserted.
Correct(r) ==
    /\ op[r].at = "correct" /\ ~Same(r) /\ Insertable(r)
    /\ Decide(r)
    /\ made'   = made + 1
    /\ truth'  = [truth EXCEPT ![made + 1] = [event |-> op[r].event,
                    label |-> op[r].label, crop |-> op[r].crop]]
    /\ status' = [f \in Feedback |-> IF f = op[r].current THEN "superseded"
                    ELSE IF f = made + 1 THEN "confirmed" ELSE status[f]]
    /\ train'  = [train EXCEPT ![made + 1] = "pending"]
    /\ safe'   = IF op[r].pin # None /\ op[r].pin = op[r].crop
                   THEN safe \cup {made + 1} ELSE safe
    /\ op'     = [op EXCEPT ![r].at = "audit"]
    /\ job'    = [job EXCEPT ![r] = made + 1]
    /\ UNCHANGED <<event, crop, disk, sha, copy, sample, rd, pc, found, mutex,
                   lease, boot, captured, faults, crashes>>

\* The index refuses the row: the transaction is undone, the request ends and
\* gives its pin up.
Fails(r) ==
    /\ op[r].at = "correct" /\ ~Same(r) /\ ~Unrivalled(r)
    /\ op' = [op EXCEPT ![r] = NoRequest]
    /\ UNCHANGED <<store, rows, set, clock, rd, cap, boot, past, faults, crashes>>

\* The audit row is written before the capture; if it fails, so does the
\* request, and the feedback waits for the next start without a pin.
Audit(r) ==
    /\ op[r].at = "audit"
    /\ \/ /\ NoFault
          /\ op' = [op EXCEPT ![r].at = "capture"]
          /\ pc' = [pc EXCEPT ![r] = "lease"]
          /\ UNCHANGED <<job, safe>>
       \/ /\ Fault
          /\ op' = [op EXCEPT ![r] = NoRequest]
          /\ job' = [job EXCEPT ![r] = 0]
          /\ safe' = safe \ {job[r]}
          /\ UNCHANGED pc
    /\ UNCHANGED <<store, rows, set, clock, rd, found, mutex, lease, boot,
                   captured, crashes>>

-----------------------------------------------------------------------------
(* capture_feedback_sample, for a request and for the start-up pass.        *)

\* Mutant: the pin is not handed over to the pending feedback.
LeaseNothing(w) ==
    /\ pc[w] = "lease" /\ mutex \in {None, w}
    /\ pc' = [pc EXCEPT ![w] = "look"]
    /\ UNCHANGED <<store, rows, set, clock, rd, op, job, found, mutex, lease,
                   boot, past, faults, crashes>>

Lease(w) ==
    /\ pc[w] = "lease" /\ mutex \in {None, w}
    /\ pc' = [pc EXCEPT ![w] = "look"]
    /\ lease' = IF Pending(job[w]) /\ truth[job[w]].crop \in disk
                  THEN lease \cup {job[w]} ELSE lease
    /\ UNCHANGED <<store, rows, set, clock, rd, op, job, found, mutex, boot,
                   past, faults, crashes>>

\* The pin is taken before the guarded part: an error ends the request, and its
\* row waits for the next start.
LeaseFails(w) ==
    /\ pc[w] = "lease" /\ Fault
    /\ pc'   = [pc EXCEPT ![w] = "idle"]
    /\ job'  = [job EXCEPT ![w] = 0]
    /\ op'   = IF w \in Request THEN [op EXCEPT ![w] = NoRequest] ELSE op
    /\ safe' = IF job[w] \in lease THEN safe ELSE safe \ {job[w]}
    /\ UNCHANGED <<store, rows, set, clock, rd, found, mutex, lease, boot,
                   captured, crashes>>

\* The row must still be confirmed, and the crop must be there.
Look(w) ==
    /\ pc[w] = "look"
    /\ IF ~Confirmed(job[w])
         THEN pc' = [pc EXCEPT ![w] = "release"] /\ UNCHANGED train
       ELSE IF truth[job[w]].crop \in disk
         THEN pc' = [pc EXCEPT ![w] = "store"] /\ UNCHANGED train
         ELSE /\ pc' = [pc EXCEPT ![w] = "release"]
              /\ train' = [train EXCEPT ![job[w]] = "missing"]
    /\ UNCHANGED <<store, rows, sha, copy, sample, clock, rd, op, job, found,
                   mutex, lease, boot, past, faults, crashes>>

\* The look pins the crop once more.  If the settings cannot be read the pin is
\* refused, and the row is said to have no image although the crop is in place.
PinRefused(w) ==
    /\ pc[w] = "look" /\ Confirmed(job[w]) /\ Fault
    /\ pc'    = [pc EXCEPT ![w] = "release"]
    /\ train' = [train EXCEPT ![job[w]] = "missing"]
    /\ safe'  = safe \ {job[w]}
    /\ UNCHANGED <<store, rows, sha, copy, sample, clock, rd, op, job, found,
                   mutex, lease, boot, captured, crashes>>

Twins(f) == {g \in 1 .. made : g # f /\ sha[g] = Pixels[truth[f].crop]}

\* Mutant: the duplicates are read before the lock is taken.
LookupUnlocked(w) ==
    /\ pc[w] = "store"
    /\ found' = [found EXCEPT ![w] = Twins(job[w])]
    /\ pc' = [pc EXCEPT ![w] = "publish"]
    /\ UNCHANGED <<store, rows, set, clock, rd, op, job, mutex, lease, boot,
                   past, faults, crashes>>

\* _store_unique_feedback_sample: the lock covers the check and the write.
Lookup(w) ==
    /\ pc[w] = "store" /\ mutex \in {None, w}
    /\ mutex' = w
    /\ found' = [found EXCEPT ![w] = Twins(job[w])]
    /\ pc' = [pc EXCEPT ![w] = "publish"]
    /\ UNCHANGED <<store, rows, set, clock, rd, op, job, lease, boot, past,
                   faults, crashes>>

\* One crop never carries two labels; a second row of the same label points
\* to the first row's file.
Clash(w)  == {g \in found[w] : truth[g].label # truth[job[w]].label}
Usable(w) == {g \in found[w] : copy[g] \in sample}

Publish(w) ==
    LET f == job[w]
        d == Pixels[truth[f].crop]
    IN  /\ pc[w] = "publish"
        /\ sha' = [sha EXCEPT ![f] = d]
        /\ IF Clash(w) # {}
             THEN /\ train' = [g \in Feedback |-> IF g = f \/ sha[g] = d
                                THEN "conflict" ELSE train[g]]
                  /\ UNCHANGED <<copy, sample>>
           ELSE IF Usable(w) # {}
             THEN /\ train' = [train EXCEPT ![f] = "duplicate"]
                  /\ \E g \in Usable(w) : copy' = [copy EXCEPT ![f] = copy[g]]
                  /\ UNCHANGED sample
             ELSE /\ train' = [train EXCEPT ![f] = "ready"]
                  /\ copy' = [copy EXCEPT ![f] = f]
                  /\ sample' = sample \cup {f}
        /\ captured' = captured \cup {g \in Feedback : train'[g] # "pending"
                                                       /\ sha'[g] # None}
        /\ pc' = [pc EXCEPT ![w] = "release"]
        /\ mutex' = IF w = Recovery THEN w ELSE None
        /\ UNCHANGED <<store, rows, clock, rd, op, job, found, lease, boot, safe,
                       faults, crashes>>

\* Anything before the last update may raise; the row stays pending.
CaptureFails(w) ==
    /\ pc[w] \in {"look", "store", "publish"} /\ Fault
    /\ pc' = [pc EXCEPT ![w] = "release"]
    /\ mutex' = IF mutex = w /\ w # Recovery THEN None ELSE mutex
    /\ UNCHANGED <<store, rows, set, clock, rd, op, job, found, lease, boot,
                   past, crashes>>

\* The lease is kept for a row that is still pending, and if that is not known.
Release(w) ==
    /\ pc[w] = "release"
    /\ \/ NoFault /\ lease' = IF Pending(job[w]) THEN lease ELSE lease \ {job[w]}
       \/ Fault /\ UNCHANGED lease
    /\ pc'    = [pc EXCEPT ![w] = "idle"]
    /\ job'   = [job EXCEPT ![w] = 0]
    /\ found' = [found EXCEPT ![w] = {}]
    /\ op'    = IF w \in Request THEN [op EXCEPT ![w] = NoRequest] ELSE op
    /\ UNCHANGED <<store, rows, set, clock, rd, mutex, boot, past, crashes>>

-----------------------------------------------------------------------------
(* Retention, crashes and the start-up order of _application_lifespan.      *)

\* An image goes to the quota or to retention, but never a pinned one.
Expire(i) ==
    /\ Running /\ i \in disk \ Pinned
    /\ disk' = disk \ {i}
    /\ UNCHANGED <<event, plate, reviewed, crop, stamp, rows, set, clock, rd,
                   op, cap, boot, past, faults, crashes>>

\* No row speaks of it, so it was never reviewed.
Deletable(e) == e \in event /\ \A f \in 1 .. made : truth[f].event # e

\* run_retention_cleanup runs at the end of the start-up and in a storage
\* save, with the workers stopped and the gate closed to requests: it meets
\* neither a request nor a write half-way.
Retention(e) ==
    /\ Running /\ Deletable(e)
    /\ \A r \in Request : op[r].at = "idle"
    /\ \A i \in Reading : rd[i].at \in {"none", "due", "done"}
    /\ event' = event \ {e}
    /\ UNCHANGED <<plate, reviewed, crop, stamp, disk, rows, set, clock, rd, op, cap,
                   boot, past, faults, crashes>>

\* A sample file is lost or damaged outside the program.
LoseSample(f) ==
    /\ f \in sample /\ Fault
    /\ sample' = sample \ {f}
    /\ safe' = safe \ {g \in Feedback : copy[g] = f}
    /\ UNCHANGED <<store, rows, train, sha, copy, clock, rd, op, cap, boot,
                   captured, crashes>>

\* The reading in progress is retried from the outbox; its new image is rolled
\* back by the reservation journal.
Crash ==
    /\ crashes < MaxCrashes /\ crashes' = crashes + 1
    /\ disk' = disk \ {i \in Reading : rd[i].at = "write" /\ rd[i].crop = i}
    /\ rd' = [i \in Reading |-> IF rd[i].at \in {"save", "write"}
                THEN Again(i)
                ELSE rd[i]]
    /\ op' = [r \in Request |-> NoRequest]
    /\ pc' = [w \in Worker |-> "idle"] /\ job' = [w \in Worker |-> 0]
    /\ found' = [w \in Worker |-> {}] /\ mutex' = None /\ lease' = {}
    /\ phase' = "reconcile" /\ batch' = {}
    /\ UNCHANGED <<event, plate, reviewed, crop, stamp, rows, set, clock, past,
                   faults>>

\* reconcile_feedback_sample_files: rows without their file are pending again.
Reconcile ==
    LET lost == {f \in 1 .. made : status[f] = "confirmed" /\ train[f] = "ready"
                                   /\ copy[f] \notin sample}
    IN  /\ phase = "reconcile"
        /\ phase' = "pins"
        /\ train' = [f \in Feedback |-> IF f \in lost THEN "pending" ELSE train[f]]
        /\ sha'   = [f \in Feedback |-> IF f \in lost THEN None ELSE sha[f]]
        /\ copy'  = [f \in Feedback |-> IF f \in lost THEN 0 ELSE copy[f]]
        /\ UNCHANGED <<store, rows, sample, clock, rd, op, cap, batch, past,
                       faults, crashes>>

\* refresh_pending_feedback_source_pins, and the batch of the recovery.
RefreshPins ==
    /\ phase = "pins"
    /\ phase' = "recover"
    /\ lease' = {f \in Feedback : Pending(f) /\ truth[f].crop \in disk}
    /\ batch' = {f \in Feedback : Pending(f)}
    /\ mutex' = Recovery
    /\ UNCHANGED <<store, rows, set, clock, rd, op, pc, job, found, past,
                   faults, crashes>>

\* recover_pending_feedback_samples: one row after the other, oldest first.
Recover(f) ==
    /\ phase = "recover" /\ pc[Recovery] = "idle"
    /\ f \in batch /\ \A g \in batch : f <= g
    /\ batch' = batch \ {f}
    /\ pc'  = [pc EXCEPT ![Recovery] = "lease"]
    /\ job' = [job EXCEPT ![Recovery] = f]
    /\ UNCHANGED <<store, rows, set, clock, rd, op, found, mutex, lease, phase,
                   past, faults, crashes>>

Started ==
    /\ phase = "recover" /\ pc[Recovery] = "idle" /\ batch = {}
    /\ phase' = "up" /\ mutex' = None
    /\ UNCHANGED <<store, rows, set, clock, rd, op, pc, job, found, lease,
                   batch, past, faults, crashes>>

Camera(i) == (\E s \in Known : Emit(i, s)) \/ (\E e \in event \cup {None} : Read(i, e)) \/ Save(i)
             \/ Write(i) \/ WriteFails(i)

Operator(r) ==
    \/ \E e \in event : Retain(r, e)
    \/ \E l \in Plate : Select(r, l)
    \/ Confirm(r) \/ Correct(r) \/ Fails(r) \/ Audit(r)

Capture(w) == Lease(w) \/ LeaseFails(w) \/ Look(w) \/ PinRefused(w) \/ Lookup(w)
              \/ Publish(w) \/ CaptureFails(w) \/ Release(w)

Next ==
    \/ \E i \in Reading : Camera(i) \/ Expire(i) \/ Retention(i)
    \/ \E r \in Request : Operator(r)
    \/ \E w \in Worker : Capture(w)
    \/ \E f \in Feedback : LoseSample(f) \/ Recover(f)
    \/ Crash \/ Reconcile \/ RefreshPins \/ Started

Spec == Init /\ [][Next]_vars

-----------------------------------------------------------------------------
Training == {"none", "pending", "ready", "duplicate", "conflict", "missing"}
Image    == Reading \cup {None}
Fact     == [event : Reading \cup {None}, label : Known, crop : Image]
RState   == [at : {"none", "due", "save", "write", "done"}, seen : Known, time : Nat,
             target : Reading \cup {None}, plate : Known, reviewed : BOOLEAN,
             crop : Image, stamp : Nat]
OState   == [at : {"idle", "select", "correct", "audit", "capture"},
             event : Reading \cup {None}, pin : Image, crop : Image,
             current : 0 .. MaxFeedback, label : Known]

EventType ==
    /\ event \subseteq Reading /\ reviewed \subseteq event /\ disk \subseteq Reading
    /\ plate \in [Reading -> Known] /\ crop \in [Reading -> Image]
    /\ stamp \in [Reading -> Nat] /\ clock \in Nat
RowType ==
    /\ made \in 0 .. MaxFeedback /\ truth \in [Feedback -> Fact]
    /\ status \in [Feedback -> {"none", "confirmed", "superseded"}]
    /\ train \in [Feedback -> Training] /\ sha \in [Feedback -> Digest \cup {None}]
    /\ copy \in [Feedback -> 0 .. MaxFeedback]
    /\ sample \subseteq Feedback /\ safe \subseteq Feedback /\ captured \subseteq Feedback
CaptureType ==
    /\ pc \in [Worker -> {"idle", "lease", "look", "store", "publish", "release"}]
    /\ job \in [Worker -> 0 .. MaxFeedback]
    /\ \A w \in Worker : pc[w] # "idle" => job[w] \in 1 .. made
    /\ found \in [Worker -> SUBSET Feedback]
    /\ mutex \in Worker \cup {None} /\ lease \subseteq Feedback
    /\ phase \in {"up", "reconcile", "pins", "recover"} /\ batch \subseteq Feedback
    /\ faults \in 0 .. MaxFaults /\ crashes \in 0 .. MaxCrashes

\* Every variable keeps its type.
TypeOK == /\ EventType /\ RowType /\ CaptureType
          /\ rd \in [Reading -> RState] /\ op \in [Request -> OState]

\* A crop carries one label in the training set, whichever requests confirm
\* and capture it at the same time, and however often samples are lost and
\* taken again.
OneTruth ==
    \A f, g \in 1 .. made :
        Holds(f) /\ Holds(g) /\ sha[f] = sha[g] => truth[f].label = truth[g].label

\* An event has one current truth at most, although two requests may have read
\* it before either wrote, and retention never takes the event from it.
OneCurrentTruth ==
    \A f \in 1 .. made : Confirmed(f) =>
        truth[f].event \in event /\ Current(truth[f].event) = {f}

\* A confirmation whose request held the crop is not recorded as having no
\* image before it was captured: pins cover the crop from the request through
\* the capture, its failures and a restart.  A confirmation leaves the set when
\* its pin is refused or goes down with the request.
TruthNotLost ==
    \A f \in safe \ captured : train[f] # "missing"

\* What an operator decided about an event is changed by an operator, or by a
\* refresh that had read the event before the decision, never by a later one.
DecisionKept ==
    [][\A e \in reviewed \cap event' :
          (e \notin reviewed' \/ plate'[e] # plate[e]) =>
              \/ \E r \in Request : op[r].at = "correct" /\ op[r].event = e
              \/ \E i \in Reading : /\ rd[i].at = "write" /\ rd[i].target = e
                                    /\ rd[i].stamp < stamp[e]]_vars

Refreshing(e) == {i \in Reading : rd[i].at \in {"save", "write"} /\ rd[i].target = e}

Record == INSTANCE EventRecord WITH
    Event <- Reading,
    plan  <- [e \in Reading |-> {[plate |-> rd[i].plate, reviewed |-> rd[i].reviewed] :
                                  i \in Refreshing(e)}]

\* The row of an event keeps what EventRecord promises: a plate gives way to a
\* decision only, or to a refresh planned before it, one refresh at a time, and
\* retention takes no decided row.
RecordSpec == Record!Spec

\* An event shows what its operator last decided, whatever the camera does at
\* the same time.
DecisionShown ==
    \A f \in 1 .. made : Confirmed(f) =>
        truth[f].event \in reviewed /\ plate[truth[f].event] = truth[f].label
=============================================================================
