---------------------------- MODULE ModelPromotion ----------------------------
(***************************************************************************)
(* From a training run to the active OCR model.  One daemon thread trains a *)
(* candidate over the model that is active when it starts (_run_training,   *)
(* src/app/ai/training.py, and train_candidate, training_worker.py); the    *)
(* Golden set decides, at once or when an administrator asks for it         *)
(* (evaluate_candidate_on_golden); apply_candidate decides once more, copies *)
(* the model and its checkpoint and replaces the manifest                   *)
(* (promote_crnn_candidate, model_manager.py).  Training and promotion may  *)
(* overlap: _TRAINING_LOCK covers the start of a training and a promotion,  *)
(* not the training itself and not an evaluation.                           *)
(*                                                                         *)
(* A model is named by the run that made it: names stand for SHA-256        *)
(* digests.  What a comparison on the Golden set finds is a choice; what it *)
(* was made with is state.                                                  *)
(***************************************************************************)
EXTENDS Integers

CONSTANTS Run,         \* rows of anpr_training_runs that may be made
          Vendor,      \* the fixed model of the vendor
          None,        \* no run, no checkpoint, lock is free
          Request,     \* administrator requests running at the same time
          Digest,      \* complete Golden sets, by the digest of their manifest
          NotReady,    \* the Golden set is missing or incomplete
          MaxCrashes,  \* bound: process crashes
          MaxFaults,   \* bound: failing calls and damaged files
          MaxRebuilds  \* bound: changes of the Golden set

ASSUME NameAssumption  == None \notin Run \cup Request \cup {Vendor} /\ Vendor \notin Run
                          /\ NotReady \notin Digest
ASSUME BoundAssumption == MaxCrashes \in Nat /\ MaxFaults \in Nat /\ MaxRebuilds \in Nat

VARIABLES
    status,   \* anpr_training_runs.status, "none" before the insert  (durable)
    report,   \* promotion_report: base, initial weights, Golden set  (durable)
    manifest, \* source run of active-model.json, or Vendor           (durable)
    files,    \* [Run -> good files in models/crnn/custom]            (durable)
    golden,   \* the Golden set as golden_status sees it              (durable)
    lock,     \* _TRAINING_LOCK
    trainer,  \* _TRAINING_THREAD: where it is, its run, what it read
    rq,       \* a request: where it is, its run, what it read
    lineage,  \* history: promotions, as <<run, model it was promoted over>>
    late,     \* history: something changed after it was checked for the last time
    damaged,  \* history: promoted files lost by no doing of the program
    moved,    \* the storage root was moved
    faults, crashes, rebuilds

data   == <<manifest, files, golden>>
past   == <<lineage, late, damaged, moved>>
bounds == <<faults, crashes, rebuilds>>
vars   == <<status, report, data, lock, trainer, rq, past, bounds>>

Model    == Run \cup {Vendor}
Golden   == Digest \cup {NotReady}
Status   == {"none", "queued", "running", "interrupted", "error", "awaiting-golden",
             "candidate-ready", "rejected", "applied"}
Active   == {"queued", "running"}
Whole    == {"model", "checkpoint"}
NoReport == [base |-> None, init |-> None, golden |-> NotReady]
Idle     == [at |-> "idle", run |-> None, base |-> None, golden |-> NotReady]
NoThread == [at |-> "none", run |-> None, base |-> None, init |-> None, golden |-> NotReady]

Init ==
    /\ status = [r \in Run |-> "none"] /\ report = [r \in Run |-> NoReport]
    /\ manifest = Vendor /\ files = [r \in Run |-> {}] /\ golden \in Golden
    /\ lock = None /\ trainer = NoThread /\ rq = [q \in Request |-> Idle]
    /\ lineage = {} /\ late = FALSE /\ damaged = {} /\ moved = FALSE
    /\ faults = 0 /\ crashes = 0 /\ rebuilds = 0

\* A promoted file that no longer verifies is passed over, each on its own.
ActiveModel == IF manifest # Vendor /\ "model" \in files[manifest] THEN manifest ELSE Vendor
ActiveCheckpoint ==
    IF manifest # Vendor /\ "checkpoint" \in files[manifest] THEN manifest ELSE None

\* Mutant: the digest of the base is not compared.
AnyBaseline(base) == base \in Run \cup {Vendor}

\* The comparison with the digest a candidate was trained over.
BaselineIsActive(base) == ActiveModel = base

\* What _promotion_status makes of a comparison, without one, and after it.
Unjudged == {"awaiting-golden", "rejected"}
Judged   == {"candidate-ready", "awaiting-golden", "rejected"}

Fault   == faults < MaxFaults /\ faults' = faults + 1 /\ UNCHANGED <<crashes, rebuilds>>
NoFault == UNCHANGED bounds

Goes(q, at)  == rq' = [rq EXCEPT ![q].at = at]
Leaves(q)    == rq' = [rq EXCEPT ![q] = Idle]
Takes(q)     == lock = None /\ lock' = q
GivesBack(q) == lock = q /\ lock' = None

-----------------------------------------------------------------------------
(* start_training: the rows of threads that died are closed, a row is       *)
(* inserted, the data set is exported, the thread is started.               *)

\* Mutant: nobody closes the rows of a process that went away.
InsertRunBeside(q, r) ==
    /\ rq[q].at = "idle" /\ Takes(q) /\ trainer.at = "none" /\ status[r] = "none"
    /\ status' = [status EXCEPT ![r] = "queued"]
    /\ rq' = [rq EXCEPT ![q].at = "export", ![q].run = r]
    /\ UNCHANGED <<report, data, trainer, past>> /\ NoFault

Recovered == [r \in Run |-> IF status[r] \in Active THEN "interrupted" ELSE status[r]]

InsertRun(q, r) ==
    /\ rq[q].at = "idle" /\ Takes(q) /\ trainer.at = "none" /\ status[r] = "none"
    /\ status' = [Recovered EXCEPT ![r] = "queued"]
    /\ rq' = [rq EXCEPT ![q].at = "export", ![q].run = r]
    /\ UNCHANGED <<report, data, trainer, past>> /\ NoFault

Launch(q) ==
    /\ rq[q].at = "export" /\ GivesBack(q) /\ Leaves(q)
    /\ trainer' = [NoThread EXCEPT !.at = "new", !.run = rq[q].run]
    /\ UNCHANGED <<status, report, data, past>> /\ NoFault

\* The export fails: the row stays queued and there is no thread.
LaunchFails(q) ==
    /\ rq[q].at = "export" /\ GivesBack(q) /\ Leaves(q) /\ Fault
    /\ UNCHANGED <<status, report, data, trainer, past>>

-----------------------------------------------------------------------------
(* The training thread.                                                     *)

Keeps == UNCHANGED <<data, lock, rq, past>>

Begin ==
    /\ trainer.at = "new" /\ trainer' = [trainer EXCEPT !.at = "begun"]
    /\ status' = [status EXCEPT ![trainer.run] = "running"]
    /\ UNCHANGED report /\ Keeps /\ NoFault

ReadBase ==
    /\ trainer.at = "begun"
    /\ trainer' = [trainer EXCEPT !.at = "based", !.base = ActiveModel]
    /\ UNCHANGED <<status, report>> /\ Keeps /\ NoFault

\* The teacher has been evaluated meanwhile.
ReadCheckpoint ==
    /\ trainer.at = "based"
    /\ trainer' = [trainer EXCEPT !.at = "trains", !.init = ActiveCheckpoint]
    /\ UNCHANGED <<status, report>> /\ Keeps /\ NoFault

\* golden_status after the last epoch.
ReadGolden ==
    /\ trainer.at = "trains"
    /\ trainer' = [trainer EXCEPT !.at = "trained", !.golden = golden]
    /\ UNCHANGED <<status, report>> /\ Keeps /\ NoFault

\* The candidate is compared only if its base is still the active model.
Compare ==
    /\ trainer.at = "trained"
    /\ trainer' = [trainer EXCEPT !.at =
                     IF trainer.golden = NotReady THEN "unjudged"
                     ELSE IF BaselineIsActive(trainer.base) THEN "judged" ELSE "overtaken"]
    /\ UNCHANGED <<status, report>> /\ Keeps /\ NoFault

Outcome == CASE trainer.at = "unjudged"  -> Unjudged
             [] trainer.at = "judged"    -> Judged
             [] trainer.at = "overtaken" -> {"rejected"}
             [] OTHER                    -> {}

Report ==
    \E s \in Outcome :
        /\ status' = [status EXCEPT ![trainer.run] = s]
        /\ report' = [report EXCEPT ![trainer.run] =
                        [base |-> trainer.base, init |-> trainer.init,
                         golden |-> trainer.golden]]
        /\ trainer' = NoThread /\ Keeps /\ NoFault

\* The row says so, unless the write of the error fails as well.
TrainingFails ==
    /\ trainer.at # "none" /\ trainer' = NoThread /\ Fault
    /\ \/ status' = [status EXCEPT ![trainer.run] = "error"]
       \/ UNCHANGED status
    /\ UNCHANGED report /\ Keeps

-----------------------------------------------------------------------------
(* evaluate_candidate_on_golden, without the lock: the row is read before   *)
(* the comparison and written after it, whatever has become of it.          *)

StartEvaluation(q, r) ==
    /\ rq[q].at = "idle" /\ status[r] = "awaiting-golden" /\ golden # NotReady
    /\ BaselineIsActive(report[r].base)
    /\ rq' = [rq EXCEPT ![q] = [at |-> "evaluate", run |-> r, base |-> report[r].base,
                                golden |-> golden]]
    /\ UNCHANGED <<status, report, data, lock, trainer, past>> /\ NoFault

Evaluated(q) ==
    /\ rq[q].at = "evaluate"
    /\ \E s \in Judged : status' = [status EXCEPT ![rq[q].run] = s]
    /\ report' = [report EXCEPT ![rq[q].run].golden = rq[q].golden]
    /\ Leaves(q)
    /\ UNCHANGED <<data, lock, trainer, past>> /\ NoFault

EvaluationFails(q) ==
    /\ rq[q].at = "evaluate" /\ Leaves(q) /\ Fault
    /\ UNCHANGED <<status, report, data, lock, trainer, past>>

-----------------------------------------------------------------------------
(* apply_candidate, under the lock.                                         *)

\* Mutant: apply_candidate does not take the lock.
CheckEvidenceUnlocked(q, r) ==
    /\ rq[q].at = "idle" /\ lock' = q /\ status[r] = "candidate-ready"
    /\ golden # NotReady /\ report[r].golden = golden /\ BaselineIsActive(report[r].base)
    /\ rq' = [rq EXCEPT ![q] = [at |-> "retest", run |-> r, base |-> report[r].base,
                                golden |-> golden]]
    /\ UNCHANGED <<status, report, data, trainer, past>> /\ NoFault

\* The stored evidence must be about this Golden set and the active model.
CheckEvidence(q, r) ==
    /\ rq[q].at = "idle" /\ Takes(q) /\ status[r] = "candidate-ready"
    /\ golden # NotReady /\ report[r].golden = golden /\ BaselineIsActive(report[r].base)
    /\ rq' = [rq EXCEPT ![q] = [at |-> "retest", run |-> r, base |-> report[r].base,
                                golden |-> golden]]
    /\ UNCHANGED <<status, report, data, trainer, past>> /\ NoFault

\* The comparison has passed again; neither the Golden set nor, asked after it,
\* the active model has changed meanwhile.
FinalGolden(q) ==
    /\ rq[q].at = "retest" /\ golden = rq[q].golden
    /\ Goes(q, "recheck") /\ late' = FALSE
    /\ UNCHANGED <<status, report, data, lock, trainer, lineage, damaged, moved>> /\ NoFault

FinalModel(q) ==
    /\ rq[q].at = "recheck" /\ BaselineIsActive(rq[q].base) /\ Goes(q, "copy")
    /\ UNCHANGED <<status, report, data, lock, trainer, past>> /\ NoFault

Copy(q, file, from, to) ==
    /\ rq[q].at = from /\ files' = [files EXCEPT ![rq[q].run] = @ \cup {file}]
    /\ Goes(q, to)
    /\ UNCHANGED <<status, report, manifest, golden, lock, trainer, past>> /\ NoFault

CopyModel(q) == Copy(q, "model", "copy", "copied")

\* Mutant: the copy of the checkpoint fails, and its error is swallowed.
CheckpointSwallowed(q) ==
    \/ Copy(q, "checkpoint", "copied", "publish")
    \/ /\ rq[q].at = "copied" /\ Goes(q, "publish") /\ Fault
       /\ UNCHANGED <<status, report, data, lock, trainer, past>>

CopyCheckpoint(q) == Copy(q, "checkpoint", "copied", "publish")

\* os.replace of the manifest.
Publish(q) ==
    /\ rq[q].at = "publish"
    /\ manifest' = rq[q].run /\ lineage' = lineage \cup {<<rq[q].run, ActiveModel>>}
    /\ Goes(q, "record")
    /\ UNCHANGED <<status, report, files, golden, lock, trainer, late, damaged, moved>> /\ NoFault

RecordApplied(q) ==
    /\ rq[q].at = "record" /\ status' = [status EXCEPT ![rq[q].run] = "applied"]
    /\ GivesBack(q) /\ Leaves(q)
    /\ UNCHANGED <<report, data, trainer, past>> /\ NoFault

\* The check that a request stands before is not met.
Refused(q) == \/ rq[q].at = "retest"
              \/ rq[q].at = "recheck" /\ ~BaselineIsActive(rq[q].base)

\* A check that is not met, or a call that fails, at any step: no undo.
ApplyEnds(q) ==
    /\ rq[q].at \in {"retest", "recheck", "copy", "copied", "publish", "record"}
    /\ GivesBack(q) /\ Leaves(q)
    /\ IF Refused(q) THEN NoFault ELSE Fault
    /\ UNCHANGED <<status, report, data, trainer, past>>

-----------------------------------------------------------------------------
(* Around them.                                                             *)

ModelChecked  == \E q \in Request : rq[q].at \in {"copy", "copied", "publish"}
GoldenChecked == ModelChecked \/ \E q \in Request : rq[q].at = "recheck"

RebuildGolden ==
    /\ rebuilds < MaxRebuilds /\ rebuilds' = rebuilds + 1
    /\ \E g \in Golden \ {golden} : golden' = g
    /\ late' = (late \/ GoldenChecked)
    /\ UNCHANGED <<status, report, manifest, files, lock, trainer, rq, lineage, damaged,
                   moved, faults, crashes>>

Damage(r, file) ==
    /\ file \in files[r] /\ files' = [files EXCEPT ![r] = @ \ {file}]
    /\ damaged' = damaged \cup {<<r, file>>}
    /\ late' = (late \/ ModelChecked) /\ Fault
    /\ UNCHANGED <<status, report, manifest, golden, lock, trainer, rq, lineage, moved>>

\* A change of the storage root is alone in the gate (StorageGate), is refused
\* while a row says that a training is active, and restarts the process.
MoveAllowed == \A r \in Run : status[r] \notin Active

MoveRoot ==
    /\ ~moved /\ (\A q \in Request : rq[q].at = "idle") /\ MoveAllowed
    /\ moved' = TRUE /\ trainer' = NoThread
    /\ UNCHANGED <<status, report, data, lock, rq, lineage, late, damaged, bounds>>

Crash ==
    /\ crashes < MaxCrashes /\ crashes' = crashes + 1
    /\ lock' = None /\ trainer' = NoThread /\ rq' = [q \in Request |-> Idle]
    /\ UNCHANGED <<status, report, data, past, faults, rebuilds>>

-----------------------------------------------------------------------------
Start(q) == (\E r \in Run : InsertRun(q, r)) \/ Launch(q) \/ LaunchFails(q)
Train    == Begin \/ ReadBase \/ ReadCheckpoint \/ ReadGolden \/ Compare \/ Report
            \/ TrainingFails
Evaluate(q) == (\E r \in Run : StartEvaluation(q, r)) \/ Evaluated(q) \/ EvaluationFails(q)
Apply(q) == (\E r \in Run : CheckEvidence(q, r)) \/ FinalGolden(q) \/ FinalModel(q)
            \/ CopyModel(q) \/ CopyCheckpoint(q) \/ Publish(q) \/ RecordApplied(q)
            \/ ApplyEnds(q)
Around   == RebuildGolden \/ MoveRoot \/ Crash
            \/ \E r \in Run, file \in Whole : Damage(r, file)

Next == Train \/ Around \/ \E q \in Request : Start(q) \/ Evaluate(q) \/ Apply(q)

Spec == Init /\ [][Next]_vars

-----------------------------------------------------------------------------
(* The lock is held exactly by a start or a promotion in progress, and the  *)
(* thread and every request stand on rows that exist.                       *)
TypeOK ==
    /\ status \in [Run -> Status]
    /\ report \in [Run -> [base : Model \cup {None}, init : Run \cup {None}, golden : Golden]]
    /\ manifest \in Model /\ files \in [Run -> SUBSET Whole] /\ golden \in Golden
    /\ lock \in Request \cup {None}
    /\ trainer \in [at : {"none", "new", "begun", "based", "trains", "trained", "unjudged",
                          "judged", "overtaken"}, run : Run \cup {None},
                    base : Model \cup {None}, init : Run \cup {None}, golden : Golden]
    /\ (trainer.at = "none" <=> trainer.run = None)
    /\ rq \in [Request -> [at : {"idle", "export", "evaluate", "retest", "recheck", "copy",
                                 "copied", "publish", "record"}, run : Run \cup {None},
                           base : Model \cup {None}, golden : Golden]]
    /\ \A q \in Request : /\ rq[q].at = "idle" <=> rq[q].run = None
                          /\ lock = q <=> rq[q].at \notin {"idle", "evaluate"}
    /\ lineage \in SUBSET (Run \X Model) /\ late \in BOOLEAN /\ moved \in BOOLEAN
    /\ damaged \subseteq Run \X Whole
    /\ faults \in 0 .. MaxFaults /\ crashes \in 0 .. MaxCrashes /\ rebuilds \in 0 .. MaxRebuilds

(* At most one row says that a training is queued or running, whatever      *)
(* crashes and failures left behind, and while the thread lives it is the   *)
(* thread's row: the storage pages and the change of the storage root ask   *)
(* the rows, start_training asks the thread.                                *)
OneActiveRow ==
    /\ \A r, s \in Run : status[r] \in Active /\ status[s] \in Active => r = s
    /\ trainer.at # "none" => status[trainer.run] \in Active

(* A model is replaced only by a candidate that was trained over it and     *)
(* that the promotion itself has judged on the Golden set of now: no other  *)
(* promotion, and no change of the set, may come between the comparison and *)
(* the new manifest.  (A change after its last check is beyond the code.)   *)
ReplacedFromEvidence ==
    manifest' # manifest /\ ~late =>
        \E q \in Request : /\ rq[q].at = "publish" /\ rq[q].run = manifest'
                          /\ rq[q].golden = golden
                          /\ report[manifest'].base = ActiveModel

PromotionIsCurrent == [][ReplacedFromEvidence]_vars

(* A promoted candidate began with the weights of its base, or learnt from  *)
(* its base alone: the base and the checkpoint are read at two times, and a *)
(* promotion between them mixes two models.  Unless a promoted file is lost *)
(* (the digests then pass over it, each file on its own), such a candidate  *)
(* never becomes active, whatever calls fail and wherever a crash falls.    *)
CandidatePure ==
    damaged = {} => \A p \in lineage : report[p[1]].init \in {None, report[p[1]].base}

(* The manifest names only a run whose model and checkpoint are both in     *)
(* place, through a crash or a failing call of a promotion half-way: only a *)
(* file that was there and was lost outside the program is missing.         *)
PublishedIsWhole ==
    manifest # Vendor =>
        \A f \in Whole \ files[manifest] : <<manifest, f>> \in damaged

(* The storage root moves, and the process restarts, only when no thread    *)
(* trains: its result would be written into the database left behind.       *)
MoveFindsIdle == [][moved' # moved => trainer.at = "none"]_vars
=============================================================================
