------------------------ MODULE ModelPromotionProofs ------------------------
(***************************************************************************)
(* Theorems about ModelPromotion, for any runs, requests, Golden sets and   *)
(* bounds.  PromotionInv adds to the properties what they rest on: which    *)
(* rows a request may still write (Rows), what the final check guarantees   *)
(* until the manifest is replaced (Present), which files a promotion has    *)
(* copied (Placed), and that a model once replaced never becomes active     *)
(* again while no promoted file is lost (Line).                                  *)
(***************************************************************************)
EXTENDS ModelPromotion, TLAPS

Settled(s) == s \notin Active \cup {"none"}
Applying   == {"retest", "recheck", "copy", "copied", "publish"}
Publishing == {"copy", "copied", "publish"}
Replaced   == {p[2] : p \in lineage}

\* A request under way, other than a start, writes no row of a training.
Rows ==
    /\ OneActiveRow
    /\ \A q \in Request :
          /\ rq[q].at = "export" => status[rq[q].run] = "queued" /\ trainer.at = "none"
          /\ rq[q].at \notin {"idle", "export"} => Settled(status[rq[q].run])

\* What the final check found still holds when the manifest is replaced.
Present ==
    \A q \in Request :
        /\ rq[q].at \in Applying => rq[q].base = report[rq[q].run].base
        /\ rq[q].at \in Applying \ {"retest"} /\ ~late => golden = rq[q].golden
        /\ rq[q].at \in Publishing /\ ~late =>
             manifest = rq[q].run \/ ActiveModel = rq[q].base

\* A file that a promotion has put there is there, or was lost since.
There(f, r) == f \in files[r] \/ <<r, f>> \in damaged

\* The copies are in place before the manifest names them.
Placed ==
    /\ PublishedIsWhole
    /\ \A q \in Request :
          /\ rq[q].at = "copied" => There("model", rq[q].run)
          /\ rq[q].at = "publish" => \A f \in Whole : There(f, rq[q].run)

Pure(init, base) == init \in {None, base} \/ base \in Replaced

\* Promotions form a line: a replaced model is never promoted again, so that
\* a candidate whose base and weights differ has a base that is gone.
Line ==
    damaged = {} =>
        /\ \A p \in lineage : p[2] = report[p[1]].base /\ Settled(status[p[1]])
        /\ \A m \in Replaced \cup {manifest} : m = Vendor \/ \E p \in lineage : p[1] = m
        /\ manifest \notin Replaced
        /\ \A q \in Request : rq[q].at \in Publishing => rq[q].base = manifest
        /\ trainer.at \notin {"none", "new", "begun"} =>
             trainer.base \in Replaced \cup {manifest}
        /\ trainer.at \notin {"none", "new", "begun", "based"} =>
             Pure(trainer.init, trainer.base)
        /\ \A r \in Run : Pure(report[r].init, report[r].base)

PromotionInv == TypeOK /\ Rows /\ Present /\ Placed /\ Line /\ CandidatePure

------------------------------------------------------------------------------
\* Only the holder of the lock is in a start or a promotion.
LEMMA LockHolder ==
    ASSUME TypeOK, NEW q \in Request, NEW p \in Request,
           rq[q].at \notin {"idle", "evaluate"}, p # q
    PROVE  rq[p].at \in {"idle", "evaluate"}
BY DEF TypeOK

\* What ActiveModel can be.
LEMMA ActiveModelType == TypeOK => ActiveModel \in Model
BY DEF TypeOK, ActiveModel, Model

LEMMA TypeStep == TypeOK /\ [Next]_vars => TypeOK'
<1> SUFFICES ASSUME TypeOK, [Next]_vars PROVE TypeOK'
  OBVIOUS
<1> USE DEF NoFault, Fault, bounds, data, past
<1>a. ActiveModel \in Model /\ ActiveCheckpoint \in Run \cup {None}
  BY DEF TypeOK, ActiveModel, ActiveCheckpoint, Model
<1>1. ASSUME Train PROVE TypeOK'
  <2> USE DEF Keeps, TypeOK, NoThread
  <2>1. CASE Begin
    BY <2>1, NameAssumption DEF Begin, Status
  <2>2. CASE ReadBase
    BY <2>2, <1>a DEF ReadBase
  <2>3. CASE ReadCheckpoint
    BY <2>3, <1>a DEF ReadCheckpoint
  <2>4. CASE ReadGolden
    BY <2>4 DEF ReadGolden
  <2>5. CASE Compare
    BY <2>5 DEF Compare
  <2>6. CASE Report
    BY <2>6 DEF Report, Outcome, Unjudged, Judged, Status, Golden
  <2>7. CASE TrainingFails
    BY <2>7, BoundAssumption DEF TrainingFails, Status, Golden
  <2> QED BY <1>1, <2>1, <2>2, <2>3, <2>4, <2>5, <2>6, <2>7 DEF Train
<1>2. ASSUME NEW q \in Request, Start(q) PROVE TypeOK'
  <2>1. ASSUME NEW r \in Run, InsertRun(q, r) PROVE TypeOK'
    BY <2>1, NameAssumption DEF InsertRun, Takes, Recovered, TypeOK, Status, Active
  <2>2. CASE Launch(q)
    BY <2>2, NameAssumption DEF Launch, Leaves, GivesBack, TypeOK, NoThread, Idle, Golden
  <2>3. CASE LaunchFails(q)
    BY <2>3, NameAssumption, BoundAssumption
       DEF LaunchFails, Leaves, GivesBack, TypeOK, Idle, Golden
  <2> QED BY <1>2, <2>1, <2>2, <2>3 DEF Start
<1>3. ASSUME NEW q \in Request, Evaluate(q) PROVE TypeOK'
  <2>1. ASSUME NEW r \in Run, StartEvaluation(q, r) PROVE TypeOK'
    BY <2>1, NameAssumption DEF StartEvaluation, TypeOK
  <2>2. CASE Evaluated(q)
    <3>1. rq[q].run \in Run
      BY <2>2 DEF Evaluated, TypeOK
    <3> QED BY <2>2, <3>1, NameAssumption
            DEF Evaluated, Leaves, TypeOK, Judged, Status, Idle, Golden
  <2>3. CASE EvaluationFails(q)
    BY <2>3, NameAssumption, BoundAssumption DEF EvaluationFails, Leaves, TypeOK, Idle, Golden
  <2> QED BY <1>3, <2>1, <2>2, <2>3 DEF Evaluate
<1>4. ASSUME NEW q \in Request, Apply(q) PROVE TypeOK'
  <2>1. ASSUME NEW r \in Run, CheckEvidence(q, r) PROVE TypeOK'
    BY <2>1, NameAssumption DEF CheckEvidence, Takes, TypeOK
  <2>2. CASE FinalGolden(q)
    BY <2>2, ZenonT(60) DEF FinalGolden, Goes, TypeOK
  <2>2a. CASE FinalModel(q)
    BY <2>2a, ZenonT(60) DEF FinalModel, Goes, TypeOK
  <2>3. ASSUME NEW file \in Whole, NEW from, NEW to \in {"copied", "publish"},
               from \in {"copy", "copied"}, Copy(q, file, from, to)
        PROVE  TypeOK'
    BY <2>3 DEF Copy, Goes, TypeOK
  <2>3a. CASE CopyModel(q) \/ CopyCheckpoint(q)
    BY <2>3, <2>3a DEF CopyModel, CopyCheckpoint, Whole
  <2>4. CASE Publish(q)
    BY <2>4, <1>a DEF Publish, Goes, TypeOK, Model
  <2>5. CASE RecordApplied(q)
    BY <2>5, NameAssumption DEF RecordApplied, GivesBack, Leaves, TypeOK, Status, Idle, Golden
  <2>6. CASE ApplyEnds(q)
    BY <2>6, NameAssumption, BoundAssumption
       DEF ApplyEnds, GivesBack, Leaves, TypeOK, Idle, Golden
  <2> QED BY <1>4, <2>1, <2>2, <2>2a, <2>3a, <2>4, <2>5, <2>6 DEF Apply
<1>5. ASSUME Around PROVE TypeOK'
  <2>1. CASE RebuildGolden
    BY <2>1, BoundAssumption DEF RebuildGolden, TypeOK
  <2>2. CASE MoveRoot
    BY <2>2 DEF MoveRoot, TypeOK, NoThread, Golden
  <2>3. CASE Crash
    BY <2>3, BoundAssumption, NameAssumption DEF Crash, TypeOK, NoThread, Idle, Golden
  <2>4. ASSUME NEW r \in Run, NEW file \in Whole, Damage(r, file) PROVE TypeOK'
    BY <2>4, BoundAssumption DEF Damage, TypeOK
  <2> QED BY <1>5, <2>1, <2>2, <2>3, <2>4 DEF Around
<1>6. CASE UNCHANGED vars
  BY <1>6 DEF vars, TypeOK
<1> QED BY <1>1, <1>2, <1>3, <1>4, <1>5, <1>6 DEF Next

------------------------------------------------------------------------------
\* Rows: a run leaves "none" once and its active states for good; the rows that
\* requests write are not those of the thread.
LEMMA RowsStep == TypeOK /\ Rows /\ [Next]_vars => Rows'
<1> SUFFICES ASSUME TypeOK, Rows, [Next]_vars PROVE Rows'
  OBVIOUS
<1> USE DEF data, past, Rows, OneActiveRow, Settled, Active
<1>1. ASSUME Train PROVE Rows'
  <2> USE DEF Keeps, TypeOK, NoThread
  <2>1. CASE Begin
    BY <2>1 DEF Begin
  <2>2. CASE ReadBase \/ ReadCheckpoint \/ ReadGolden \/ Compare
    BY <2>2 DEF ReadBase, ReadCheckpoint, ReadGolden, Compare
  <2>3. CASE Report
    BY <2>3 DEF Report, Outcome, Unjudged, Judged
  <2>4. CASE TrainingFails
    BY <2>4 DEF TrainingFails
  <2> QED BY <1>1, <2>1, <2>2, <2>3, <2>4 DEF Train
<1>2. ASSUME NEW q \in Request, Start(q) PROVE Rows'
  <2>1. ASSUME NEW r \in Run, InsertRun(q, r) PROVE Rows'
    <3>1. \A p \in Request \ {q} : rq'[p] = rq[p] /\ rq[p].at # "export"
      BY <2>1, NameAssumption DEF InsertRun, Takes, TypeOK
    <3>2. \A s \in Run \ {r} : status'[s] \notin Active
                               /\ (Settled(status[s]) => Settled(status'[s]))
      BY <2>1 DEF InsertRun, Recovered, TypeOK
    <3>3. status'[r] = "queued" /\ status[r] = "none" /\ trainer'.at = "none"
          /\ rq'[q].at = "export" /\ rq'[q].run = r
      BY <2>1 DEF InsertRun, Recovered, TypeOK
    <3>4. \A p \in Request \ {q} : rq[p].at # "idle" => rq[p].run \in Run \ {r}
      BY <3>1, <3>3 DEF TypeOK
    <3> QED BY <3>1, <3>2, <3>3, <3>4
  <2>2. CASE Launch(q)
    BY <2>2, LockHolder DEF Launch, Leaves, GivesBack, TypeOK, NoThread, Idle
  <2>3. CASE LaunchFails(q)
    BY <2>3 DEF LaunchFails, Leaves, TypeOK, Idle
  <2> QED BY <1>2, <2>1, <2>2, <2>3 DEF Start
<1>3. ASSUME NEW q \in Request, Evaluate(q) PROVE Rows'
  <2>1. ASSUME NEW r \in Run, StartEvaluation(q, r) PROVE Rows'
    BY <2>1 DEF StartEvaluation, TypeOK
  <2>2. CASE Evaluated(q)
    BY <2>2 DEF Evaluated, Leaves, TypeOK, Judged, Idle
  <2>3. CASE EvaluationFails(q)
    BY <2>3 DEF EvaluationFails, Leaves, TypeOK, Idle
  <2> QED BY <1>3, <2>1, <2>2, <2>3 DEF Evaluate
<1>4. ASSUME NEW q \in Request, Apply(q) PROVE Rows'
  <2>1. ASSUME NEW r \in Run, CheckEvidence(q, r) PROVE Rows'
    BY <2>1 DEF CheckEvidence, TypeOK
  <2>2. CASE FinalGolden(q) \/ FinalModel(q) \/ CopyModel(q) \/ CopyCheckpoint(q) \/ Publish(q)
    BY <2>2 DEF FinalGolden, FinalModel, CopyModel, CopyCheckpoint, Copy, Publish, Goes, TypeOK
  <2>3. CASE RecordApplied(q)
    BY <2>3 DEF RecordApplied, Leaves, TypeOK, Idle
  <2>4. CASE ApplyEnds(q)
    BY <2>4 DEF ApplyEnds, Leaves, TypeOK, Idle
  <2> QED BY <1>4, <2>1, <2>2, <2>3, <2>4 DEF Apply
<1>5. ASSUME Around PROVE Rows'
  <2>1. CASE RebuildGolden
    BY <2>1 DEF RebuildGolden
  <2>2. CASE MoveRoot
    BY <2>2 DEF MoveRoot, NoThread
  <2>3. CASE Crash
    BY <2>3 DEF Crash, NoThread, Idle
  <2>4. ASSUME NEW r \in Run, NEW file \in Whole, Damage(r, file) PROVE Rows'
    BY <2>4 DEF Damage
  <2> QED BY <1>5, <2>1, <2>2, <2>3, <2>4 DEF Around
<1>6. CASE UNCHANGED vars
  BY <1>6 DEF vars
<1> QED BY <1>1, <1>2, <1>3, <1>4, <1>5, <1>6 DEF Next

------------------------------------------------------------------------------
\* Present: a report is complete before its row can be applied, and only the
\* holder of the lock copies files or replaces the manifest.
LEMMA PresentStep == TypeOK /\ Rows /\ Present /\ [Next]_vars => Present'
<1> SUFFICES ASSUME TypeOK, Rows, Present, [Next]_vars PROVE Present'
  OBVIOUS
<1> USE DEF data, past, Present, Applying, Publishing
<1>1. ASSUME Train PROVE Present'
  <2> USE DEF Keeps, ActiveModel
  <2>1. CASE Report
    <3>1. trainer.at # "none" /\ trainer.run \in Run /\ status[trainer.run] \in Active
      BY <2>1 DEF Report, Outcome, Rows, OneActiveRow, TypeOK
    <3>2. \A r \in Run \ {trainer.run} : report'[r] = report[r]
      BY <2>1 DEF Report, TypeOK
    <3>3. \A q \in Request : rq[q].at \in Applying => rq[q].run \in Run \ {trainer.run}
      BY <3>1 DEF Rows, Settled, TypeOK
    <3> QED BY <2>1, <3>2, <3>3 DEF Report
  <2>2. CASE ~Report
    BY <1>1, <2>2
       DEF Train, Begin, ReadBase, ReadCheckpoint, ReadGolden, Compare, TrainingFails
  <2> QED BY <2>1, <2>2
<1>2. ASSUME NEW q \in Request, Start(q) PROVE Present'
  BY <1>2 DEF Start, InsertRun, Launch, LaunchFails, Leaves, Idle, ActiveModel, TypeOK
<1>3. ASSUME NEW q \in Request, Evaluate(q) PROVE Present'
  BY <1>3, SMTT(30) DEF Evaluate, StartEvaluation, Evaluated, EvaluationFails, Leaves, Idle,
     ActiveModel, TypeOK
<1>4. ASSUME NEW q \in Request, Apply(q) PROVE Present'
  <2>1. ASSUME NEW r \in Run, CheckEvidence(q, r) PROVE Present'
    BY <2>1 DEF CheckEvidence, TypeOK, ActiveModel
  <2>2a. CASE FinalGolden(q)
    <3>1. \A p \in Request \ {q} : rq[p].at \in {"idle", "evaluate"} /\ rq'[p] = rq[p]
      BY <2>2a, LockHolder DEF FinalGolden, Goes, TypeOK
    <3>2. rq'[q] = [rq[q] EXCEPT !.at = "recheck"] /\ rq[q].at = "retest"
      BY <2>2a DEF FinalGolden, Goes, TypeOK
    <3>3. golden = rq[q].golden /\ UNCHANGED <<report, golden, manifest, ActiveModel>>
      BY <2>2a DEF FinalGolden, ActiveModel
    <3> QED BY <3>1, <3>2, <3>3 DEF TypeOK
  <2>2. CASE FinalModel(q)
    <3>1. \A p \in Request \ {q} : rq[p].at \in {"idle", "evaluate"} /\ rq'[p] = rq[p]
      BY <2>2, LockHolder DEF FinalModel, Goes, TypeOK
    <3>2. rq'[q] = [rq[q] EXCEPT !.at = "copy"] /\ rq[q].at = "recheck"
      BY <2>2 DEF FinalModel, Goes, TypeOK
    <3>3. ActiveModel = rq[q].base
          /\ UNCHANGED <<report, golden, manifest, late, ActiveModel>>
      BY <2>2 DEF FinalModel, BaselineIsActive, ActiveModel
    <3> QED BY <3>1, <3>2, <3>3 DEF TypeOK
  <2>3. CASE CopyModel(q) \/ CopyCheckpoint(q)
    <3>1. \A p \in Request \ {q} : rq[p].at \in {"idle", "evaluate"} /\ rq'[p] = rq[p]
      BY <2>3, LockHolder DEF CopyModel, CopyCheckpoint, Copy, Goes, TypeOK
    <3>2. rq[q].at \in Publishing
          /\ rq'[q] = [rq[q] EXCEPT !.at = rq'[q].at]
      BY <2>3 DEF CopyModel, CopyCheckpoint, Copy, Goes, TypeOK
    <3>3. UNCHANGED <<report, golden, manifest, late>>
          /\ (manifest # rq[q].run => ActiveModel' = ActiveModel)
      BY <2>3 DEF CopyModel, CopyCheckpoint, Copy, ActiveModel, TypeOK, Model
    <3> QED BY <3>1, <3>2, <3>3 DEF TypeOK
  <2>4. CASE Publish(q)
    <3>1. \A p \in Request \ {q} : rq[p].at \in {"idle", "evaluate"} /\ rq'[p] = rq[p]
      BY <2>4, LockHolder DEF Publish, Goes, TypeOK
    <3>2. rq'[q] = [rq[q] EXCEPT !.at = "record"]
      BY <2>4 DEF Publish, Goes, TypeOK
    <3> QED BY <2>4, <3>1, <3>2 DEF Publish, TypeOK
  <2>5. CASE RecordApplied(q) \/ ApplyEnds(q)
    BY <2>5 DEF RecordApplied, ApplyEnds, Leaves, Idle, TypeOK, ActiveModel
  <2> QED BY <1>4, <2>1, <2>2a, <2>2, <2>3, <2>4, <2>5 DEF Apply
<1>5. ASSUME Around PROVE Present'
  <2>1. CASE RebuildGolden
    BY <2>1 DEF RebuildGolden, GoldenChecked, ModelChecked, ActiveModel
  <2>2. CASE MoveRoot
    BY <2>2 DEF MoveRoot, ActiveModel
  <2>3. CASE Crash
    BY <2>3 DEF Crash, Idle
  <2>4. ASSUME NEW r \in Run, NEW file \in Whole, Damage(r, file) PROVE Present'
    BY <2>4 DEF Damage, ModelChecked
  <2> QED BY <1>5, <2>1, <2>2, <2>3, <2>4 DEF Around
<1>6. CASE UNCHANGED vars
  BY <1>6 DEF vars, ActiveModel
<1> QED BY <1>1, <1>2, <1>3, <1>4, <1>5, <1>6 DEF Next

\* Placed: a file that was copied is lost to nothing but damage.
LEMMA PlacedStep == TypeOK /\ Placed /\ [Next]_vars => Placed'
<1> SUFFICES ASSUME TypeOK, Placed, [Next]_vars PROVE Placed'
  OBVIOUS
<1> USE DEF data, past, Placed, There, PublishedIsWhole
<1>1. ASSUME Train PROVE Placed'
  BY <1>1 DEF Keeps, Train, Begin, ReadBase, ReadCheckpoint, ReadGolden, Compare, Report,
     TrainingFails
<1>2. ASSUME NEW q \in Request, Start(q) PROVE Placed'
  BY <1>2 DEF Start, InsertRun, Launch, LaunchFails, Leaves, Idle, TypeOK
<1>3. ASSUME NEW q \in Request, Evaluate(q) PROVE Placed'
  <2>1. ASSUME NEW r \in Run, StartEvaluation(q, r) PROVE Placed'
    BY <2>1 DEF StartEvaluation, TypeOK
  <2>2. CASE Evaluated(q)
    BY <2>2 DEF Evaluated, Leaves, Idle, TypeOK
  <2>3. CASE EvaluationFails(q)
    BY <2>3 DEF EvaluationFails, Leaves, Idle, TypeOK
  <2> QED BY <1>3, <2>1, <2>2, <2>3 DEF Evaluate
<1>4. ASSUME NEW q \in Request, Apply(q) PROVE Placed'
  <2>1. ASSUME NEW r \in Run, CheckEvidence(q, r) PROVE Placed'
    BY <2>1 DEF CheckEvidence, TypeOK
  <2>2. CASE FinalGolden(q) \/ FinalModel(q)
    BY <2>2 DEF FinalGolden, FinalModel, Goes, TypeOK
  <2>3. CASE CopyModel(q) \/ CopyCheckpoint(q)
    <3>1. \A p \in Request \ {q} : rq'[p] = rq[p] /\ rq[p].at \in {"idle", "evaluate"}
      BY <2>3, LockHolder DEF CopyModel, CopyCheckpoint, Copy, Goes, TypeOK
    <3>2. \A r \in Run : files[r] \subseteq files'[r] /\ files'[r] \subseteq Whole
      BY <2>3 DEF CopyModel, CopyCheckpoint, Copy, TypeOK, Whole
    <3>3. CASE CopyModel(q)
      BY <3>1, <3>2, <3>3 DEF CopyModel, Copy, Goes, TypeOK, Model
    <3>4. CASE CopyCheckpoint(q)
      BY <3>1, <3>2, <3>4 DEF CopyCheckpoint, Copy, Goes, TypeOK, Whole, Model
    <3> QED BY <2>3, <3>3, <3>4
  <2>4. CASE Publish(q)
    BY <2>4 DEF Publish, Goes, TypeOK
  <2>5. CASE RecordApplied(q) \/ ApplyEnds(q)
    BY <2>5 DEF RecordApplied, ApplyEnds, Leaves, Idle, TypeOK
  <2> QED BY <1>4, <2>1, <2>2, <2>3, <2>4, <2>5 DEF Apply
<1>5. ASSUME Around PROVE Placed'
  <2>1. CASE RebuildGolden \/ MoveRoot
    BY <2>1 DEF RebuildGolden, MoveRoot
  <2>2. CASE Crash
    BY <2>2 DEF Crash, Idle
  <2>3. ASSUME NEW r \in Run, NEW file \in Whole, Damage(r, file) PROVE Placed'
    <3>1. \A s \in Run, f \in Whole : There(f, s) => There(f, s)'
      BY <2>3 DEF Damage, TypeOK
    <3>2. UNCHANGED <<manifest, rq>> /\ damaged \subseteq damaged'
      BY <2>3 DEF Damage
    <3>3. manifest # Vendor => manifest \in Run /\ \A f \in Whole : There(f, manifest)
      BY DEF TypeOK, Model
    <3>4. \A q \in Request : rq[q].at \in {"copied", "publish"} => rq[q].run \in Run
      BY DEF TypeOK
    <3> HIDE DEF There
    <3>5. /\ manifest' # Vendor => \A f \in Whole : There(f, manifest)'
          /\ \A q \in Request : rq'[q].at = "copied" => There("model", rq[q].run)'
          /\ \A q \in Request : rq'[q].at = "publish" => \A f \in Whole : There(f, rq[q].run)'
      BY <3>1, <3>2, <3>3, <3>4 DEF Whole
    <3> QED BY <3>2, <3>5 DEF There
  <2> QED BY <1>5, <2>1, <2>2, <2>3 DEF Around
<1>6. CASE UNCHANGED vars
  BY <1>6 DEF vars
<1> QED BY <1>1, <1>2, <1>3, <1>4, <1>5, <1>6 DEF Next

------------------------------------------------------------------------------
\* While every file verifies the active model is the manifest's.
LEMMA Verifies ==
    TypeOK /\ Placed /\ damaged = {} =>
        ActiveModel = manifest /\ ActiveCheckpoint \in {None, manifest}
BY DEF TypeOK, Placed, PublishedIsWhole, ActiveModel, ActiveCheckpoint, Whole

\* Reports and promotions that are there stay as they are.
LEMMA ReportFrozen ==
    ASSUME TypeOK, Rows, Line, damaged = {}, [Next]_vars, NEW p \in lineage
    PROVE  /\ report'[p[1]].base = report[p[1]].base /\ report'[p[1]].init = report[p[1]].init
           /\ Settled(status'[p[1]])
<1> DEFINE r == p[1]
<1>1. r \in Run /\ Settled(status[r])
  BY DEF TypeOK, Line
<1>2. CASE Report
  <2>1. trainer.run # r
    BY <1>1, <1>2 DEF Report, Outcome, Rows, OneActiveRow, Settled
  <2> QED BY <1>1, <1>2, <2>1 DEF Report, TypeOK
<1>3. CASE UNCHANGED report /\ UNCHANGED status
  BY <1>1, <1>3
<1>4. CASE Begin \/ TrainingFails
  <2>1. trainer.run # r /\ UNCHANGED report
    BY <1>1, <1>4 DEF Begin, TrainingFails, Rows, OneActiveRow, Settled
  <2> QED BY <1>1, <1>4, <2>1 DEF Begin, TrainingFails, TypeOK
<1>5. ASSUME NEW q \in Request, NEW s \in Run, InsertRun(q, s) PROVE r # s /\ UNCHANGED report
  BY <1>1, <1>5 DEF InsertRun, Settled
<1>6. ASSUME NEW q \in Request, NEW s \in Run, InsertRun(q, s)
      PROVE Settled(status'[r])
  BY <1>1, <1>5, <1>6 DEF InsertRun, Recovered, TypeOK, Settled
<1>7. ASSUME NEW q \in Request, Evaluated(q) \/ RecordApplied(q)
      PROVE  /\ report'[r].base = report[r].base /\ report'[r].init = report[r].init
             /\ Settled(status'[r])
  BY <1>1, <1>7 DEF Evaluated, RecordApplied, TypeOK, Settled, Judged, Active
<1> QED
  BY <1>1, <1>2, <1>3, <1>4, <1>5, <1>6, <1>7
     DEF Next, Train, ReadBase, ReadCheckpoint, ReadGolden, Compare, Around, RebuildGolden,
         MoveRoot, Crash, Damage, Start, Launch, LaunchFails, Evaluate, StartEvaluation,
         EvaluationFails, Apply, CheckEvidence, FinalGolden, FinalModel, CopyModel, CopyCheckpoint, Copy,
         Publish, ApplyEnds, vars, data, past

\* Line and the purity of promotions: the manifest is replaced by a run trained
\* over it, which is therefore neither itself nor one replaced before.
LEMMA LineStep ==
    TypeOK /\ Rows /\ Present /\ Placed /\ Line /\ CandidatePure /\ [Next]_vars
      => Line' /\ CandidatePure'
<1> SUFFICES ASSUME TypeOK, Rows, Present, Placed, Line, CandidatePure, [Next]_vars,
                    damaged' = {}
             PROVE  Line' /\ CandidatePure'
  BY DEF Line, CandidatePure
<1>0. damaged = {}
  BY DEF Next, Train, Begin, ReadBase, ReadCheckpoint, ReadGolden, Compare, Report,
     TrainingFails, Keeps, Around, RebuildGolden, MoveRoot, Crash, Damage, Start, InsertRun,
     Launch, LaunchFails, Evaluate, StartEvaluation, Evaluated, EvaluationFails, Apply,
     CheckEvidence, FinalGolden, FinalModel, CopyModel, CopyCheckpoint, Copy, Publish,
     RecordApplied, ApplyEnds, vars, past
<1>a. ActiveModel = manifest /\ ActiveCheckpoint \in {None, manifest}
  BY <1>0, Verifies
<1>b. /\ \A p \in lineage : p[2] = report[p[1]].base /\ Settled(status[p[1]])
      /\ \A m \in Replaced \cup {manifest} : m = Vendor \/ \E p \in lineage : p[1] = m
      /\ manifest \notin Replaced
      /\ \A q \in Request : rq[q].at \in Publishing => rq[q].base = manifest
      /\ trainer.at \notin {"none", "new", "begun"} =>
           trainer.base \in Replaced \cup {manifest}
      /\ trainer.at \notin {"none", "new", "begun", "based"} =>
           Pure(trainer.init, trainer.base)
      /\ \A r \in Run : Pure(report[r].init, report[r].base)
      /\ \A p \in lineage : report[p[1]].init \in {None, report[p[1]].base}
  BY <1>0 DEF Line, CandidatePure
<1>c. \A p \in lineage : report'[p[1]].base = report[p[1]].base
                         /\ report'[p[1]].init = report[p[1]].init /\ Settled(status'[p[1]])
  BY <1>0, ReportFrozen
<1>d. \A r \in Run : Pure(report'[r].init, report'[r].base)
  <2>1. CASE Report
    BY <1>b, <2>1 DEF Report, Outcome, TypeOK
  <2>2. ASSUME NEW q \in Request, Evaluated(q) PROVE \A r \in Run : Pure(report'[r].init, report'[r].base)
    BY <1>b, <2>2 DEF Evaluated, TypeOK
  <2>3. CASE UNCHANGED report
    BY <1>b, <2>3
  <2> QED BY <2>1, <2>2, <2>3
     DEF Next, Train, Begin, ReadBase, ReadCheckpoint, ReadGolden, Compare, TrainingFails,
         Around, RebuildGolden, MoveRoot, Crash, Damage, Start, InsertRun, Launch, LaunchFails,
         Evaluate, StartEvaluation, EvaluationFails, Apply, CheckEvidence, FinalGolden, FinalModel,
         CopyModel, CopyCheckpoint, Copy, Publish, RecordApplied, ApplyEnds, vars, data, past
<1>1. ASSUME NEW q \in Request, Publish(q) PROVE Line' /\ CandidatePure'
  <2> DEFINE r == rq[q].run
  <2>1. r \in Run /\ rq[q].at = "publish" /\ rq[q].base = manifest
        /\ report[r].base = manifest /\ Settled(status[r])
    BY <1>1, <1>b DEF Publish, Publishing, Applying, Present, Rows, TypeOK
  <2>2. UNCHANGED <<report, status, trainer>> /\ manifest' = r
        /\ lineage' = lineage \cup {<<r, manifest>>}
    BY <1>1, <1>a DEF Publish
  <2>3. Replaced' = Replaced \cup {manifest}
    <3>1. Replaced' = {p[2] : p \in lineage \cup {<<r, manifest>>}}
      BY <2>2 DEF Replaced
    <3>2. <<r, manifest>>[2] = manifest
      OBVIOUS
    <3>3. {p[2] : p \in lineage \cup {<<r, manifest>>}} = Replaced \cup {manifest}
      BY <3>2 DEF Replaced
    <3> QED BY <3>1, <3>3
  <2>4. r \notin Replaced'
    <3>1. SUFFICES ASSUME r \in Replaced \cup {manifest} PROVE FALSE
      BY <2>3
    <3>2. PICK p \in lineage : p[1] = r
      BY <1>b, <2>1, <3>1, NameAssumption
    <3>3. p[2] = manifest /\ p[2] \in Replaced
      BY <1>b, <2>1, <3>2 DEF Replaced
    <3> QED BY <1>b, <3>3
  <2>5. report[r].init \in {None, report[r].base}
    BY <1>b, <2>1 DEF Pure
  <2>6. \A p \in Request : rq'[p].at \notin Publishing
    <3>1. rq'[q].at = "record" /\ \A p \in Request \ {q} : rq'[p].at \in {"idle", "evaluate"}
      BY <1>1, LockHolder DEF Publish, Goes, TypeOK
    <3> QED BY <3>1 DEF Publishing
  <2>7. \A m \in Replaced' \cup {manifest'} : m = Vendor \/ \E p \in lineage' : p[1] = m
    <3>1. <<r, manifest>>[1] = r /\ <<r, manifest>> \in lineage' /\ lineage \subseteq lineage'
      BY <2>2
    <3>2. ASSUME NEW m \in Replaced \cup {manifest}
          PROVE  m = Vendor \/ \E p \in lineage' : p[1] = m
      BY <1>b, <3>1
    <3> QED BY <2>2, <2>3, <3>1, <3>2
  <2>8. \A p \in lineage' : p[2] = report'[p[1]].base /\ Settled(status'[p[1]])
    BY <1>b, <2>1, <2>2
  <2>9. \A p \in lineage' : report'[p[1]].init \in {None, report'[p[1]].base}
    BY <1>b, <2>2, <2>5
  <2>10. \A init, base : Pure(init, base) => Pure(init, base)'
    BY <2>3 DEF Pure
  <2> QED BY <1>b, <2>2, <2>3, <2>4, <2>6, <2>7, <2>8, <2>9, <2>10 DEF Line, CandidatePure
<1>2. ASSUME ~ \E q \in Request : Publish(q) PROVE Line' /\ CandidatePure'
  <2>1. UNCHANGED <<manifest, lineage>>
    BY <1>2 DEF Next, Train, Begin, ReadBase, ReadCheckpoint, ReadGolden, Compare, Report,
       TrainingFails, Keeps, Around, RebuildGolden, MoveRoot, Crash, Damage, Start, InsertRun,
       Launch, LaunchFails, Evaluate, StartEvaluation, Evaluated, EvaluationFails, Apply,
       CheckEvidence, FinalGolden, FinalModel, CopyModel, CopyCheckpoint, Copy, RecordApplied, ApplyEnds,
       vars, data, past
  <2>2. Replaced' = Replaced
    BY <2>1 DEF Replaced
  <2>3. \A q \in Request : rq'[q].at \in Publishing => rq'[q].base = manifest'
    <3> DEFINE Based == \A q \in Request : rq'[q].at \in Publishing => rq'[q].base = manifest'
    <3> SUFFICES Based
      OBVIOUS
    <3>1. ASSUME NEW q \in Request, FinalGolden(q) \/ FinalModel(q) PROVE Based
      BY <1>a, <1>b, <2>1, <3>1
         DEF FinalGolden, FinalModel, Goes, BaselineIsActive, TypeOK, Publishing
    <3>2. ASSUME NEW q \in Request, CopyModel(q) \/ CopyCheckpoint(q) PROVE Based
      BY <1>b, <2>1, <3>2 DEF CopyModel, CopyCheckpoint, Copy, Goes, TypeOK, Publishing
    <3>3. ASSUME NEW q \in Request, Start(q) \/ Evaluate(q) PROVE Based
      BY <1>b, <2>1, <3>3, SMTT(30) DEF Start, InsertRun, Launch, LaunchFails, Evaluate, StartEvaluation,
         Evaluated, EvaluationFails, Leaves, Idle, TypeOK, Publishing
    <3>4. ASSUME NEW q \in Request, NEW r \in Run, CheckEvidence(q, r) PROVE Based
      BY <1>b, <2>1, <3>4 DEF CheckEvidence, TypeOK, Publishing
    <3>5. CASE UNCHANGED rq
      BY <1>b, <2>1, <3>5
    <3>6. CASE Crash
      BY <3>6 DEF Crash, Idle, Publishing
    <3>6a. CASE Train \/ RebuildGolden \/ MoveRoot \/ \E r \in Run, f \in Whole : Damage(r, f)
      <4>1. UNCHANGED rq
        BY <3>6a DEF Train, Begin, ReadBase, ReadCheckpoint, ReadGolden, Compare, Report,
           TrainingFails, Keeps, RebuildGolden, MoveRoot, Damage
      <4> QED BY <3>5, <4>1
    <3>6b. ASSUME NEW q \in Request, RecordApplied(q) \/ ApplyEnds(q) PROVE Based
      BY <1>b, <2>1, <3>6b DEF RecordApplied, ApplyEnds, Leaves, Idle, TypeOK, Publishing
    <3> HIDE DEF Based
    <3>7. ASSUME NEW q \in Request, Apply(q) PROVE Based
      BY <1>2, <3>1, <3>2, <3>4, <3>6b, <3>7 DEF Apply
    <3>8. Based
      <4>1. CASE Around
        BY <3>6, <3>6a, <4>1 DEF Around
      <4>2. CASE UNCHANGED vars
        BY <3>5, <4>2 DEF vars
      <4> QED BY <3>3, <3>6a, <3>7, <4>1, <4>2 DEF Next
    <3> QED BY <3>8
  <2>4. /\ trainer'.at \notin {"none", "new", "begun"} =>
             trainer'.base \in Replaced \cup {manifest}
        /\ trainer'.at \notin {"none", "new", "begun", "based"} =>
             Pure(trainer'.init, trainer'.base)
    <3>1. CASE Begin \/ Report \/ TrainingFails
      BY <3>1 DEF Begin, Report, TrainingFails, NoThread, TypeOK
    <3>2. CASE ReadBase
      <4>1. trainer'.at = "based" /\ trainer'.base = manifest
        BY <1>a, <3>2 DEF ReadBase, TypeOK
      <4> QED BY <4>1
    <3>3. CASE ReadCheckpoint
      <4>1. /\ trainer'.base = trainer.base /\ trainer'.init = ActiveCheckpoint
            /\ trainer.at = "based"
        BY <3>3 DEF ReadCheckpoint, TypeOK
      <4> QED BY <1>a, <1>b, <4>1 DEF Pure
    <3>4. CASE ReadGolden \/ Compare
      <4>1. /\ trainer'.base = trainer.base /\ trainer'.init = trainer.init
            /\ trainer.at \in {"trains", "trained"}
        BY <3>4 DEF ReadGolden, Compare, TypeOK
      <4> QED BY <1>b, <4>1
    <3>5. CASE UNCHANGED trainer
      BY <1>b, <3>5
    <3>6. CASE trainer' = NoThread
      BY <3>6 DEF NoThread
    <3>7. ASSUME NEW q \in Request, Start(q) PROVE UNCHANGED trainer \/ trainer'.at = "new"
      BY <3>7 DEF Start, InsertRun, Launch, LaunchFails, NoThread
    <3>8. ASSUME NEW q \in Request, Evaluate(q) \/ Apply(q) PROVE UNCHANGED trainer
      BY <3>8 DEF Evaluate, StartEvaluation, Evaluated, EvaluationFails, Apply, CheckEvidence,
         FinalGolden, FinalModel, CopyModel, CopyCheckpoint, Copy, Publish, RecordApplied, ApplyEnds
    <3>9. CASE trainer'.at = "new"
      BY <3>9
    <3>10. CASE Around
      BY <3>5, <3>6, <3>10 DEF Around, RebuildGolden, MoveRoot, Crash, Damage
    <3> QED BY <3>1, <3>2, <3>3, <3>4, <3>5, <3>7, <3>8, <3>9, <3>10 DEF Next, Train, vars
  <2> QED BY <1>b, <1>c, <1>d, <2>1, <2>2, <2>3, <2>4 DEF Line, CandidatePure, Pure
<1> QED BY <1>1, <1>2

------------------------------------------------------------------------------
LEMMA PromotionInit == Init => PromotionInv
<1> SUFFICES ASSUME Init PROVE PromotionInv
  OBVIOUS
<1> USE NameAssumption, BoundAssumption DEF Init
<1>1. TypeOK
  <2>1. /\ status \in [Run -> Status] /\ files \in [Run -> SUBSET Whole]
        /\ report \in [Run -> [base : Model \cup {None}, init : Run \cup {None}, golden : Golden]]
    BY DEF Status, NoReport, Golden
  <2>2. rq \in [Request -> [at : {"idle", "export", "evaluate", "retest", "recheck", "copy",
                                "copied", "publish", "record"}, run : Run \cup {None},
                          base : Model \cup {None}, golden : Golden]]
    BY DEF Idle, Golden
  <2>3. \A q \in Request : /\ rq[q].at = "idle" <=> rq[q].run = None
                           /\ lock = q <=> rq[q].at \notin {"idle", "evaluate"}
    BY DEF Idle
  <2>4. /\ trainer \in [at : {"none", "new", "begun", "based", "trains", "trained", "unjudged",
                            "judged", "overtaken"}, run : Run \cup {None},
                      base : Model \cup {None}, init : Run \cup {None}, golden : Golden]
        /\ (trainer.at = "none" <=> trainer.run = None)
    BY DEF NoThread, Golden
  <2>5. /\ manifest \in Model /\ golden \in Golden /\ lock \in Request \cup {None}
        /\ lineage \in SUBSET (Run \X Model) /\ late \in BOOLEAN /\ moved \in BOOLEAN
    BY Zenon DEF Model
  <2>6. /\ faults \in 0 .. MaxFaults /\ crashes \in 0 .. MaxCrashes
        /\ rebuilds \in 0 .. MaxRebuilds
    OBVIOUS
  <2> QED BY <2>1, <2>2, <2>3, <2>4, <2>5, <2>6 DEF TypeOK
<1>2. Rows
  BY DEF Rows, OneActiveRow, Settled, Active, NoThread, Idle
<1>3. Present /\ Placed
  BY DEF Present, Applying, Publishing, Placed, PublishedIsWhole, Idle
<1>4. Replaced = {}
  BY DEF Replaced
<1>5. Line
  BY <1>4 DEF Line, Pure, NoReport, NoThread, Idle, Publishing
<1>6. CandidatePure
  BY DEF CandidatePure
<1> QED BY <1>1, <1>2, <1>3, <1>5, <1>6 DEF PromotionInv

LEMMA PromotionStep == PromotionInv /\ [Next]_vars => PromotionInv'
BY TypeStep, RowsStep, PresentStep, PlacedStep, LineStep DEF PromotionInv

THEOREM PromotionInvariant == Spec => []PromotionInv
BY PromotionInit, PromotionStep, PTL DEF Spec

\* Types, and the lock held exactly by a start or a promotion in progress.
THEOREM PromotionTypeCorrect == Spec => []TypeOK
BY PromotionInvariant, PTL DEF PromotionInv

\* One row at most says that a training is active, and it is the thread's.
THEOREM OneRowAlways == Spec => []OneActiveRow
<1>1. PromotionInv => OneActiveRow
  BY DEF PromotionInv, Rows
<1> QED BY <1>1, PromotionInvariant, PTL

\* What the manifest names is in place.
THEOREM PublishedWhole == Spec => []PublishedIsWhole
<1>1. PromotionInv => PublishedIsWhole
  BY DEF PromotionInv, Placed
<1> QED BY <1>1, PromotionInvariant, PTL

\* No promoted candidate mixes two models.
THEOREM CandidatesArePure == Spec => []CandidatePure
BY PromotionInvariant, PTL DEF PromotionInv

\* A model is replaced only over the base and the Golden set it was judged with.
THEOREM PromotionsAreCurrent == Spec => PromotionIsCurrent
<1>1. PromotionInv /\ [Next]_vars => ReplacedFromEvidence
  <2> SUFFICES ASSUME PromotionInv, [Next]_vars, manifest' # manifest, ~late
               PROVE  ReplacedFromEvidence
    BY DEF ReplacedFromEvidence
  <2>1. PICK q \in Request : Publish(q)
    BY DEF Next, Train, Begin, ReadBase, ReadCheckpoint, ReadGolden, Compare, Report,
       TrainingFails, Keeps, Around, RebuildGolden, MoveRoot, Crash, Damage, Start, InsertRun,
       Launch, LaunchFails, Evaluate, StartEvaluation, Evaluated, EvaluationFails, Apply,
       CheckEvidence, FinalGolden, FinalModel, CopyModel, CopyCheckpoint, Copy, RecordApplied, ApplyEnds,
       vars, data
  <2>2. rq[q].at = "publish" /\ rq[q].run = manifest'
    BY <2>1 DEF Publish
  <2>3. rq[q].golden = golden /\ report[manifest'].base = ActiveModel
    BY <2>2 DEF PromotionInv, Present, Applying, Publishing
  <2> QED BY <2>2, <2>3 DEF ReplacedFromEvidence
<1>2. PromotionInv /\ [Next]_vars => [ReplacedFromEvidence]_vars
  BY <1>1
<1> QED BY <1>2, PromotionInvariant, PTL DEF Spec, PromotionIsCurrent

\* The storage root moves only while no thread trains.
THEOREM MovesFindIdle == Spec => MoveFindsIdle
<1> DEFINE A == moved' # moved => trainer.at = "none"
<1>1. PromotionInv /\ [Next]_vars => A
  <2> SUFFICES ASSUME PromotionInv, [Next]_vars, moved' # moved PROVE trainer.at = "none"
    OBVIOUS
  <2>1. MoveRoot
    BY DEF Next, Train, Begin, ReadBase, ReadCheckpoint, ReadGolden, Compare, Report,
       TrainingFails, Keeps, Around, RebuildGolden, Crash, Damage, Start, InsertRun,
       Launch, LaunchFails, Evaluate, StartEvaluation, Evaluated, EvaluationFails, Apply,
       CheckEvidence, FinalGolden, FinalModel, CopyModel, CopyCheckpoint, Copy, Publish, RecordApplied,
       ApplyEnds, vars, past
  <2>2. trainer.at # "none" => trainer.run \in Run /\ status[trainer.run] \in Active
    BY DEF PromotionInv, TypeOK, Rows, OneActiveRow
  <2> QED BY <2>1, <2>2 DEF MoveRoot, MoveAllowed
<1>2. PromotionInv /\ [Next]_vars => [A]_vars
  BY <1>1
<1>3. Spec => [][A]_vars
  BY <1>2, PromotionInvariant, PTL DEF Spec
<1> QED BY <1>3 DEF MoveFindsIdle
=============================================================================
