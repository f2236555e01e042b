------------------------- MODULE EventReviewProofs -------------------------
(***************************************************************************)
(* Theorems about EventReview, for any readings, plates, operators and      *)
(* bounds.  ReviewInv adds to the properties what they rest on: where a     *)
(* request and a capture stand and who holds the training lock (Placed),    *)
(* that a reviewed event has a feedback row (Spoken), that rows to come are *)
(* blank (Fresh), that an image named by an event, a request or a row is no *)
(* longer one a failing write takes back (Kept), what a capture knows while *)
(* it holds the lock (Found), and what pins a crop that waits for its       *)
(* capture (Secure).                                                        *)
(***************************************************************************)
EXTENDS EventReview, TLAPS

Made == 1 .. made

Placed ==
    /\ \A r \in Request :
          /\ op[r].at # "idle" => phase = "up" /\ op[r].event \in event
          /\ op[r].current # 0 => /\ op[r].current \in Made
                                  /\ truth[op[r].current].event = op[r].event
          /\ op[r].at = "audit" => job[r] \in Made
          /\ pc[r] # "idle" => op[r].at = "capture"
    /\ pc[Recovery] # "idle" => phase = "recover"
    /\ phase = "recover" => mutex = Recovery
    /\ \A w \in Worker :
          /\ pc[w] = "publish" => mutex = w
          /\ pc[w] \in {"store", "publish"} => truth[job[w]].crop \in Reading
    /\ batch \subseteq Made

HasRow(e) == \E f \in Made : truth[f].event = e

Spoken ==
    /\ \A e \in reviewed : HasRow(e)
    /\ \A i \in Reading : rd[i].at \in {"save", "write"} /\ rd[i].reviewed =>
                             rd[i].target # None /\ HasRow(rd[i].target)

Fresh == \A f \in Feedback \ Made : sha[f] = None /\ train[f] = "none"

\* Its file is in the store for good: no write or crash takes it back.
Settled(i) == i = None \/ i \in Old \/ rd[i].at = "done"

Kept ==
    /\ \A i \in Old : rd[i].at = "none"
    /\ \A e \in Reading : Settled(crop[e])
    /\ \A r \in Request : Settled(op[r].crop) /\ Settled(op[r].pin)
    /\ \A f \in Made : Settled(truth[f].crop)
    /\ \A i \in Reading : rd[i].at \in {"save", "write"} =>
                             rd[i].crop = i \/ Settled(rd[i].crop)
    /\ \A r \in Request : op[r].pin # None => op[r].pin \in disk

Found == \A w \in Worker : pc[w] = "publish" => Twins(job[w]) \subseteq found[w]

\* A request that still pins the crop of the row it made.
Guards(r, f) == /\ job[r] = f /\ op[r].pin = truth[f].crop
                /\ op[r].at = "audit" \/ (op[r].at = "capture" /\ pc[r] = "lease")

Secured(f) ==
    /\ f \in Made /\ train[f] = "pending"
    /\ status[f] = "confirmed" =>
         /\ truth[f].crop \in disk
         /\ phase \in {"reconcile", "pins"} \/ f \in lease
            \/ \E r \in Request : Guards(r, f)

Secure == \A f \in safe \ captured : Secured(f)

Base      == TypeOK /\ Placed /\ Spoken
ReviewInv == Base /\ Fresh /\ Kept /\ Found /\ Secure /\ OneCurrentTruth /\ OneTruth

----------------------------------------------------------------------------
\* The events; retention needs that a reviewed event has a row.
LEMMA EventTypeStep == TypeOK /\ Placed /\ Spoken /\ [Next]_vars => EventType'
<1> SUFFICES ASSUME TypeOK, Placed, Spoken, [Next]_vars PROVE EventType'
  OBVIOUS
<1> USE DEF EventType, TypeOK, RState, OState, Image, Known
<1>q. ASSUME UNCHANGED <<event, plate, reviewed, crop, stamp, disk, clock>> PROVE EventType'
  BY <1>q
<1>1. ASSUME NEW i \in Reading, Camera(i) \/ Expire(i) \/ Retention(i) PROVE EventType'
  <2>1. ASSUME NEW s \in Known, Emit(i, s) PROVE EventType'
    <3>1. clock' = clock + 1 /\ UNCHANGED store
      BY <2>1 DEF Emit
    <3> QED BY <3>1 DEF store
  <2>2. CASE Save(i)
    BY <2>2 DEF Save
  <2>3. CASE Write(i)
    BY <2>3, ReadingAssumption DEF Write
  <2>4. CASE WriteFails(i)
    BY <2>4 DEF WriteFails
  <2>5. CASE Expire(i)
    BY <2>5 DEF Expire
  <2>6. CASE Retention(i)
    BY <2>6 DEF Retention, Deletable, Spoken, HasRow, Made
  <2> QED BY <1>1, <2>1, <2>2, <2>3, <2>4, <2>5, <2>6, <1>q DEF Camera, Read, store, rows, set,
     cap, boot, past
<1>2. ASSUME NEW r \in Request, Operator(r) PROVE EventType'
  <2>1. CASE Confirm(r)
    BY <2>1 DEF Confirm, Decide, Placed
  <2>2. CASE Correct(r)
    BY <2>2 DEF Correct, Decide, Placed
  <2> QED BY <1>2, <2>1, <2>2, <1>q DEF Operator, Retain, Select, Fails, Audit, store, rows,
     set, cap, boot, past
<1>3. ASSUME NEW w \in Worker, Capture(w) PROVE EventType'
  BY <1>3, <1>q DEF Lease, LeaseFails, Look, PinRefused, Lookup, Publish, CaptureFails, Release,
     Capture, store, rows, set, cap, boot, past
<1>4. ASSUME NEW f \in Feedback, LoseSample(f) \/ Recover(f) PROVE EventType'
  BY <1>4, <1>q DEF LoseSample, Recover, store, rows, set, cap, boot, past
<1>5. CASE Crash
  BY <1>5 DEF Crash
<1>6. CASE Reconcile \/ RefreshPins \/ Started \/ UNCHANGED vars
  BY <1>6, <1>q DEF Reconcile, RefreshPins, Started, vars, store, rows, set, cap, boot,
     past
<1> QED BY <1>1, <1>2, <1>3, <1>4, <1>5, <1>6 DEF Next

\* The feedback rows and the training set.
LEMMA RowTypeStep == TypeOK /\ Placed /\ [Next]_vars => RowType'
<1> SUFFICES ASSUME TypeOK, Placed, [Next]_vars PROVE RowType'
  OBVIOUS
<1> USE DEF RowType, TypeOK, Feedback
<1>q. ASSUME UNCHANGED <<made, truth, status, train, sha, copy, sample, safe, captured>> PROVE RowType'
  BY <1>q
<1>1. ASSUME NEW i \in Reading, Camera(i) \/ Expire(i) \/ Retention(i) PROVE RowType'
  BY <1>1, <1>q DEF Emit, Read, Save, Write, WriteFails, Expire, Retention, Camera,
     store, rows, set, cap, boot, past
<1>2. ASSUME NEW r \in Request, Operator(r) PROVE RowType'
  <2>1. CASE Correct(r)
    BY <2>1, BoundAssumption DEF Correct, Insertable, Training, Placed, Fact, OState,
       Image, Known
  <2>2. CASE Audit(r)
    BY <2>2 DEF Audit, past, rows, set
  <2> QED BY <1>2, <2>1, <2>2, <1>q DEF Operator, Retain, Select, Confirm, Fails, store, rows,
     set, cap, boot, past
<1>3. ASSUME NEW w \in Worker, Capture(w) PROVE RowType'
  <2>1. CASE LeaseFails(w)
    BY <2>1 DEF LeaseFails, rows, set
  <2>2. CASE Look(w) \/ PinRefused(w)
    BY <2>2 DEF Look, PinRefused, CaptureType, Training, Worker, rows, past
  <2>3. CASE Publish(w)
    <3>1. job[w] \in Feedback /\ Pixels[truth[job[w]].crop] \in Digest
          /\ \A g \in Usable(w) : g \in Feedback
      BY <2>3 DEF Publish, CaptureType, Placed, Usable, Digest
    <3>2. train' \in [Feedback -> Training]
      BY <2>3, <3>1 DEF Publish, Training
    <3>3. copy' \in [Feedback -> 0 .. MaxFeedback]
      BY <2>3, <3>1 DEF Publish
    <3>4. sha' \in [Feedback -> Digest \cup {None}]
      BY <2>3, <3>1 DEF Publish
    <3>5. sample' \subseteq Feedback /\ captured' \subseteq Feedback
      BY <2>3, <3>1 DEF Publish
    <3> QED BY <2>3, <3>2, <3>3, <3>4, <3>5 DEF Publish, rows
  <2> QED BY <1>3, <2>1, <2>2, <2>3, <1>q DEF Capture, Lease, Lookup, CaptureFails, Release,
     store, rows, set, cap, boot, past
<1>4. ASSUME NEW f \in Feedback, LoseSample(f) \/ Recover(f) PROVE RowType'
  <2>1. CASE LoseSample(f)
    BY <2>1 DEF LoseSample, rows
  <2> QED BY <1>4, <2>1, <1>q DEF Recover, store, rows, set, cap, boot, past
<1>5. CASE Reconcile
  <2>1. train' \in [Feedback -> Training]
    BY <1>5 DEF Reconcile, Training
  <2>2. sha' \in [Feedback -> Digest \cup {None}]
    BY <1>5 DEF Reconcile
  <2>3. copy' \in [Feedback -> 0 .. MaxFeedback]
    BY <1>5, BoundAssumption DEF Reconcile
  <2> QED BY <1>5, <2>1, <2>2, <2>3 DEF Reconcile, rows, past
<1>6. CASE Crash \/ RefreshPins \/ Started \/ UNCHANGED vars
  BY <1>6, <1>q DEF Crash, RefreshPins, Started, vars, store, rows, set, cap, boot, past
<1> QED BY <1>1, <1>2, <1>3, <1>4, <1>5, <1>6 DEF Next

\* Captures, the lock, the start-up and the bounds.
LEMMA CaptureTypeStep == TypeOK /\ Placed /\ [Next]_vars => CaptureType'
<1> SUFFICES ASSUME TypeOK, Placed, [Next]_vars PROVE CaptureType'
  OBVIOUS
<1> USE DEF CaptureType, TypeOK, RowType, Worker, Feedback, Made, Fault, NoFault
<1>q. ASSUME UNCHANGED <<pc, job, found, mutex, lease, phase, batch, made, faults, crashes>> PROVE CaptureType'
  BY <1>q
<1>1. ASSUME NEW i \in Reading, Camera(i) \/ Expire(i) \/ Retention(i) PROVE
   CaptureType'
  <2>1. CASE Save(i)
    BY <2>1, WorkerAssumption, BoundAssumption DEF Save, rows, cap, boot
  <2>2. CASE WriteFails(i)
    BY <2>2, WorkerAssumption, BoundAssumption DEF WriteFails, rows, cap, boot
  <2> QED BY <1>1, <2>1, <2>2, <1>q DEF Camera, Emit, Read, Write, Expire, Retention, store,
     rows, set, cap, boot, past
<1>2. ASSUME NEW r \in Request, Operator(r) PROVE CaptureType'
  <2>1. CASE Confirm(r)
    BY <2>1, WorkerAssumption, BoundAssumption DEF Confirm, rows, boot, cap, Same,
       Placed, OState
  <2>2. CASE Correct(r)
    BY <2>2, WorkerAssumption, BoundAssumption, SMTT(30) DEF Correct, boot, Insertable, Placed
  <2>3. CASE Audit(r)
    <3>1. CASE pc' = [pc EXCEPT ![r] = "lease"] /\ UNCHANGED <<job, faults>>
      BY <2>3, <3>1, WorkerAssumption DEF Audit, Placed, rows, boot
    <3>2. CASE Fault /\ job' = [job EXCEPT ![r] = 0] /\ UNCHANGED pc
      BY <2>3, <3>2, WorkerAssumption, BoundAssumption, SMTT(30) DEF Audit, Placed, rows, boot
    <3> QED BY <2>3, <3>1, <3>2 DEF Audit
  <2> QED BY <1>2, <2>1, <2>2, <2>3, <1>q DEF Operator, Retain, Select, Fails, store, rows, set,
     cap, boot, past
<1>3. ASSUME NEW w \in Worker, Capture(w) PROVE CaptureType'
  <2>1. CASE Lease(w)
    <3>1. job[w] \in Feedback
      BY <2>1 DEF Lease
    <3>2. lease' = lease \/ lease' = lease \cup {job[w]}
      BY <2>1 DEF Lease
    <3> QED BY <2>1, <3>1, <3>2 DEF Lease, rows, boot
  <2>2. CASE LeaseFails(w)
    BY <2>2, WorkerAssumption, BoundAssumption DEF LeaseFails, rows, boot
  <2>3. CASE Look(w)
    BY <2>3, WorkerAssumption, BoundAssumption DEF Look, rows, boot
  <2>3a. CASE PinRefused(w)
    BY <2>3a, WorkerAssumption, BoundAssumption DEF PinRefused, rows, boot
  <2>4. CASE Lookup(w)
    BY <2>4, WorkerAssumption, BoundAssumption DEF Lookup, rows, boot, Twins
  <2>5. CASE Publish(w)
    BY <2>5, WorkerAssumption, BoundAssumption DEF Publish, rows, boot
  <2>6. CASE CaptureFails(w)
    BY <2>6, WorkerAssumption, BoundAssumption DEF CaptureFails, rows, boot
  <2>7. CASE Release(w)
    <3>0. lease' = lease \/ lease' = lease \ {job[w]}
      BY <2>7 DEF Release
    <3>1. lease' \subseteq Feedback
      BY <3>0
    <3>4. faults' \in 0 .. MaxFaults
      BY <2>7, BoundAssumption DEF Release
    <3>2. pc' \in [Worker -> {"idle", "lease", "look", "store", "publish", "release"}]
          /\ job' \in [Worker -> 0 .. MaxFeedback] /\ found' \in [Worker -> SUBSET Feedback]
      BY <2>7, BoundAssumption DEF Release
    <3>3. \A v \in Worker : pc'[v] # "idle" => job'[v] \in 1 .. made'
      BY <2>7 DEF Release, rows
    <3> QED BY <2>7, <3>1, <3>2, <3>3, <3>4 DEF Release, rows, boot
  <2> QED BY <1>3, <2>1, <2>2, <2>3, <2>3a, <2>4, <2>5, <2>6, <2>7 DEF Capture
<1>4. ASSUME NEW f \in Feedback, LoseSample(f) \/ Recover(f) PROVE CaptureType'
  <2>1. CASE LoseSample(f)
    BY <2>1, WorkerAssumption, BoundAssumption DEF LoseSample, rows, boot, cap
  <2>2. CASE Recover(f)
    BY <2>2, WorkerAssumption, BoundAssumption DEF Recover, rows, boot, Placed
  <2> QED BY <1>4, <2>1, <2>2
<1>5. CASE Crash
  BY <1>5, WorkerAssumption, BoundAssumption DEF Crash, rows
<1>6. CASE Reconcile
  BY <1>6, WorkerAssumption, BoundAssumption DEF Reconcile, rows, cap
<1>7. CASE RefreshPins
  BY <1>7, WorkerAssumption, BoundAssumption DEF RefreshPins, rows, Pending, Confirmed
<1>8. CASE Started
  BY <1>8, WorkerAssumption, BoundAssumption DEF Started, rows
<1>9. CASE UNCHANGED vars
  BY <1>9, <1>q DEF vars, store, rows, set, cap, boot, past
<1> QED BY <1>1, <1>2, <1>3, <1>4, <1>5, <1>6, <1>7, <1>8, <1>9 DEF Next

\* The readings.
LEMMA ReadingTypeStep == TypeOK /\ [Next]_vars => (rd \in [Reading -> RState])'
<1> SUFFICES ASSUME TypeOK, [Next]_vars PROVE (rd \in [Reading -> RState])'
  OBVIOUS
<1> USE DEF TypeOK, EventType, RState, Known, Image
<1>q. ASSUME UNCHANGED <<rd>> PROVE (rd \in [Reading -> RState])'
  BY <1>q
<1>1. ASSUME NEW i \in Reading, Camera(i) \/ Expire(i) \/ Retention(i) PROVE (rd \in
   [Reading -> RState])'
  <2>1. ASSUME NEW s \in Known, Emit(i, s) PROVE (rd \in [Reading -> RState])'
    <3>1. rd[i] \in RState /\ clock + 1 \in Nat
      BY <2>1
    <3>2. [rd[i] EXCEPT !.at = "due", !.seen = s, !.time = clock + 1] \in RState
      BY <2>1, <3>1
    <3> QED BY <2>1, <3>2 DEF Emit
  <2>2. ASSUME NEW e \in event \cup {None}, Read(i, e) PROVE (rd \in [Reading -> RState])'
    <3>1. Stored(i) \in RState
      BY <2>2, ReadingAssumption DEF Stored, NoReading
    <3>2. ASSUME NEW t \in Reading \cup {None}, NEW p \in Known, NEW c \in Image, NEW n \in Nat,
                 NEW v \in BOOLEAN
          PROVE  [Stored(i) EXCEPT !.target = t, !.plate = p, !.crop = c, !.stamp = n, !.reviewed = v] \in RState
      BY <3>1
    <3>0. rd[i] \in RState
      BY <2>2
    <3>3. [rd[i] EXCEPT !.at = "done"] \in RState
      BY <3>0
    <3>4. ASSUME NEW p \in Known PROVE [Stored(i) EXCEPT !.plate = p] \in RState
      BY <3>1
    <3>5. rd[i].seen \in Known /\ rd[i].time \in Nat /\ Unread \in Known
      BY <2>2
    <3>6. CASE rd' = [rd EXCEPT ![i].at = "done"]
      BY <3>3, <3>6
    <3>7. CASE rd' = [rd EXCEPT ![i] = [Stored(i) EXCEPT
                       !.plate = IF e = None THEN rd[i].seen ELSE Unread]]
      BY <3>4, <3>5, <3>7
    <3>8. CASE e # None /\ rd' = [rd EXCEPT ![i] = [Stored(i) EXCEPT
                       !.target = e, !.plate = rd[i].seen, !.crop = crop[e],
                       !.stamp = IF stamp[e] > rd[i].time THEN stamp[e] ELSE rd[i].time,
                       !.reviewed = e \in reviewed]]
      <4>1. e \in Reading /\ crop[e] \in Image /\ (e \in reviewed) \in BOOLEAN
            /\ (IF stamp[e] > rd[i].time THEN stamp[e] ELSE rd[i].time) \in Nat
        BY <2>2, <3>5, <3>8
      <4> DEFINE p == rd[i].seen
                 n == IF stamp[e] > rd[i].time THEN stamp[e] ELSE rd[i].time
                 new == [Stored(i) EXCEPT !.target = e, !.plate = p, !.crop = crop[e],
                                          !.stamp = n, !.reviewed = e \in reviewed]
      <4>2. new \in RState
        <5> HIDE DEF RState, p, n
        <5>1. p \in Known /\ n \in Nat
          BY <3>5, <4>1 DEF p, n
        <5> QED BY <3>2, <4>1, <5>1
      <4>3. rd' = [rd EXCEPT ![i] = new]
        BY <3>8
      <4> HIDE DEF RState, new
      <4> QED BY <4>2, <4>3, <2>2
    <3> QED BY <2>2, <3>6, <3>7, <3>8 DEF Read
  <2>3. CASE Save(i)
    <3>1. rd[i] \in RState /\ i \in Image /\ None \in Image
      BY <2>3
    <3>2. ASSUME NEW c \in Image PROVE [rd[i] EXCEPT !.at = "write", !.crop = c] \in RState
      BY <3>1
    <3>3. [rd[i] EXCEPT !.at = "write"] \in RState
      BY <3>1
    <3>4. PICK new \in RState : rd' = [rd EXCEPT ![i] = new]
      <4>1. CASE rd' = [rd EXCEPT ![i] = [rd[i] EXCEPT !.at = "write"]]
        BY <3>3, <4>1
      <4>2. CASE rd' = [rd EXCEPT ![i] = [rd[i] EXCEPT !.at = "write", !.crop = i]]
        BY <3>1, <3>2, <4>2
      <4>3. CASE rd' = [rd EXCEPT ![i] = [rd[i] EXCEPT !.at = "write", !.crop = None]]
        BY <3>1, <3>2, <4>3
      <4>4. [rd EXCEPT ![i].at = "write"] = [rd EXCEPT ![i] = [rd[i] EXCEPT !.at = "write"]]
        OBVIOUS
      <4> QED BY <2>3, <4>1, <4>2, <4>3, <4>4 DEF Save
    <3> HIDE DEF RState
    <3> QED BY <2>3, <3>4
  <2>4. CASE Write(i)
    BY <2>4 DEF Write
  <2>5. CASE WriteFails(i)
    BY <2>5 DEF WriteFails, Again, NoReading
  <2> QED BY <1>1, <2>1, <2>2, <2>3, <2>4, <2>5, <1>q DEF Camera, Expire, Retention, store,
     rows, set, cap, boot, past
<1>2. ASSUME NEW r \in Request, Operator(r) PROVE (rd \in [Reading -> RState])'
  BY <1>2, <1>q DEF Retain, Select, Confirm, Correct, Fails, Audit, Operator, store,
     rows, set, cap, boot, past
<1>3. ASSUME NEW w \in Worker, Capture(w) PROVE (rd \in [Reading -> RState])'
  BY <1>3, <1>q DEF Lease, LeaseFails, Look, PinRefused, Lookup, Publish, CaptureFails, Release,
     Capture, store, rows, set, cap, boot, past
<1>4. ASSUME NEW f \in Feedback, LoseSample(f) \/ Recover(f) PROVE (rd \in [Reading ->
   RState])'
  BY <1>4, <1>q DEF LoseSample, Recover, store, rows, set, cap, boot, past
<1>5. CASE Crash
  BY <1>5 DEF Crash, Again, NoReading
<1>6. CASE Reconcile \/ RefreshPins \/ Started \/ UNCHANGED vars
  BY <1>6, <1>q DEF Reconcile, RefreshPins, Started, vars, store, rows, set, cap, boot,
     past
<1> QED BY <1>1, <1>2, <1>3, <1>4, <1>5, <1>6 DEF Next

\* The requests.
LEMMA RequestTypeStep == TypeOK /\ Placed /\ [Next]_vars => (op \in [Request -> OState])'
<1> SUFFICES ASSUME TypeOK, Placed, [Next]_vars PROVE (op \in [Request -> OState])'
  OBVIOUS
<1> USE DEF TypeOK, EventType, RowType, OState, Known, Image
<1>q. ASSUME UNCHANGED <<op>> PROVE (op \in [Request -> OState])'
  BY <1>q
<1>1. ASSUME NEW i \in Reading, Camera(i) \/ Expire(i) \/ Retention(i) PROVE (op \in
   [Request -> OState])'
  BY <1>1, <1>q DEF Emit, Read, Save, Write, WriteFails, Expire, Retention, Camera,
     store, rows, set, cap, boot, past
<1>2. ASSUME NEW r \in Request, Operator(r) PROVE (op \in [Request -> OState])'
  <2>1. ASSUME NEW e \in event, Retain(r, e) PROVE (op \in [Request -> OState])'
    <3>1. NoRequest \in OState
      BY BoundAssumption DEF NoRequest
    <3>2. ASSUME NEW c \in Image
          PROVE  [NoRequest EXCEPT !.at = "select", !.event = e, !.pin = c] \in OState
      BY <2>1, <3>1
    <3> QED BY <2>1, <3>2 DEF Retain
  <2>2. ASSUME NEW l \in Plate, Select(r, l) PROVE (op \in [Request -> OState])'
    <3>1. op[r] \in OState
      BY <2>2
    <3>2. ASSUME NEW c \in Image, NEW n \in 0 .. MaxFeedback
          PROVE  [op[r] EXCEPT !.at = "correct", !.label = l, !.crop = c, !.current = n] \in OState
      BY <2>2, <3>1
    <3>3. \A e \in Reading : Current(e) # {} => (CHOOSE f \in Current(e) : TRUE) \in 1 .. made
      BY DEF Current
    <3>4. op[r].event \in Reading /\ crop[op[r].event] \in Image
      BY <2>2 DEF Select, Placed
    <3> DEFINE c == crop[op[r].event]
               n == IF Current(op[r].event) = {} THEN 0
                    ELSE CHOOSE f \in Current(op[r].event) : TRUE
               new == [op[r] EXCEPT !.at = "correct", !.label = l, !.crop = c, !.current = n]
    <3>5. c \in Image /\ n \in 0 .. MaxFeedback
      BY <3>3, <3>4, BoundAssumption
    <3>6. op' = [op EXCEPT ![r] = new]
      BY <2>2 DEF Select
    <3> HIDE DEF c, n, OState
    <3>7. new \in OState
      BY <3>2, <3>5
    <3> HIDE DEF new
    <3> QED BY <2>2, <3>6, <3>7
  <2>3. CASE Confirm(r)
    BY <2>3 DEF Confirm
  <2>4. CASE Correct(r)
    BY <2>4 DEF Correct
  <2>5. CASE Fails(r)
    BY <2>5, BoundAssumption DEF Fails, NoRequest
  <2>6. CASE Audit(r)
    BY <2>6, BoundAssumption DEF Audit, NoRequest
  <2> QED BY <1>2, <2>1, <2>2, <2>3, <2>4, <2>5, <2>6 DEF Operator
<1>3. ASSUME NEW w \in Worker, Capture(w) PROVE (op \in [Request -> OState])'
  <2>1. CASE LeaseFails(w)
    BY <2>1, BoundAssumption DEF LeaseFails, NoRequest
  <2>2. CASE Release(w)
    BY <2>2, BoundAssumption DEF Release, NoRequest
  <2> QED BY <1>3, <2>1, <2>2, <1>q DEF Capture, Lease, Look, PinRefused, Lookup, Publish, CaptureFails,
     store, rows, set, cap, boot, past
<1>4. ASSUME NEW f \in Feedback, LoseSample(f) \/ Recover(f) PROVE (op \in [Request ->
   OState])'
  BY <1>4, <1>q DEF LoseSample, Recover, store, rows, set, cap, boot, past
<1>5. CASE Crash
  BY <1>5, BoundAssumption DEF Crash, NoRequest
<1>6. CASE Reconcile \/ RefreshPins \/ Started \/ UNCHANGED vars
  BY <1>6, <1>q DEF Reconcile, RefreshPins, Started, vars, store, rows, set, cap, boot,
     past
<1> QED BY <1>1, <1>2, <1>3, <1>4, <1>5, <1>6 DEF Next

\* What a save changes of its reading.
LEMMA Saved ==
    ASSUME rd \in [Reading -> RState], NEW i \in Reading, Save(i)
    PROVE  /\ rd[i].at = "save" /\ rd'[i].at = "write"
           /\ rd'[i].reviewed = rd[i].reviewed /\ rd'[i].target = rd[i].target
           /\ rd'[i].crop \in {rd[i].crop, i, None}
<1>1. rd[i] \in RState
  OBVIOUS
<1>2. CASE rd'[i] = [rd[i] EXCEPT !.at = "write"]
  BY <1>1, <1>2 DEF Save, RState
<1>3. ASSUME NEW c \in {i, None}, rd'[i] = [rd[i] EXCEPT !.at = "write", !.crop = c]
      PROVE  /\ rd'[i].at = "write" /\ rd'[i].crop \in {i, None}
             /\ rd'[i].reviewed = rd[i].reviewed /\ rd'[i].target = rd[i].target
  BY <1>1, <1>3 DEF RState
<1>4. \/ rd'[i] = [rd[i] EXCEPT !.at = "write"]
      \/ \E c \in {i, None} : rd'[i] = [rd[i] EXCEPT !.at = "write", !.crop = c]
  BY DEF Save
<1> QED BY <1>2, <1>3, <1>4 DEF Save

LEMMA TypeStep == TypeOK /\ Placed /\ Spoken /\ [Next]_vars => TypeOK'
BY EventTypeStep, RowTypeStep, CaptureTypeStep, ReadingTypeStep, RequestTypeStep DEF TypeOK

\* Where requests and captures stand, and who holds the lock.
LEMMA PlacedStep == TypeOK /\ Placed /\ [Next]_vars => Placed'
<1> SUFFICES ASSUME TypeOK, Placed, [Next]_vars PROVE Placed'
  OBVIOUS
<1> USE DEF Placed, TypeOK, CaptureType, OState, Worker, Made
<1>q. ASSUME UNCHANGED <<op, pc, job, phase, mutex, batch, event, made, truth>> PROVE Placed'
  BY <1>q
<1>1. ASSUME NEW i \in Reading, Camera(i) \/ Expire(i) \/ Retention(i) PROVE Placed'
  <2>1. CASE Write(i)
    BY <2>1, WorkerAssumption DEF Write, rows, cap, boot
  <2>2. CASE Retention(i)
    BY <2>2, WorkerAssumption DEF Retention, rows, cap, boot
  <2> QED BY <1>1, <2>1, <2>2, <1>q DEF Camera, Emit, Read, Save, WriteFails, Expire, store,
     rows, set, cap, boot, past
<1>2. ASSUME NEW r \in Request, Operator(r) PROVE Placed'
  <2>1. ASSUME NEW e \in event, Retain(r, e) PROVE Placed'
    <3>1. op'[r].at = "select" /\ op'[r].event = e /\ op'[r].current = 0
          /\ op[r].at = "idle" /\ phase = "up"
      BY <2>1 DEF Retain, NoRequest, Running
    <3>2. \A q \in Request \ {r} : op'[q] = op[q]
      BY <2>1 DEF Retain
    <3>3. UNCHANGED <<store, rows, cap, boot>>
      BY <2>1 DEF Retain
    <3> QED BY <3>1, <3>2, <3>3, WorkerAssumption DEF rows, cap, boot, store
  <2>2. ASSUME NEW l \in Plate, Select(r, l) PROVE Placed'
    BY <2>2, WorkerAssumption DEF Select, rows, cap, boot, store, Current
  <2>3. CASE Confirm(r)
    BY <2>3, WorkerAssumption DEF Confirm, rows, boot, Same
  <2>4. CASE Correct(r)
    <3>1. made' = made + 1 /\ made + 1 \in Feedback /\ made \in Nat
          /\ \A f \in Made : truth'[f] = truth[f] /\ f \in Made'
      BY <2>4, BoundAssumption DEF Correct, Insertable, RowType, Feedback
    <3>2. op'[r].at = "audit" /\ op'[r].event = op[r].event /\ op'[r].current = op[r].current
          /\ job'[r] = made + 1 /\ op[r].at = "correct"
      BY <2>4 DEF Correct
    <3>3. \A q \in Request \ {r} : op'[q] = op[q]
      BY <2>4 DEF Correct
    <3>4. \A w \in Worker \ {r} : job'[w] = job[w]
      BY <2>4 DEF Correct
    <3>5. UNCHANGED <<event, pc, mutex, phase, batch>>
      BY <2>4 DEF Correct, boot
    <3>6. pc[r] = "idle" /\ made + 1 \in Made'
      BY <3>1, <3>2
    <3> QED BY <3>1, <3>2, <3>3, <3>4, <3>5, <3>6, WorkerAssumption
  <2>5. CASE Fails(r)
    BY <2>5, WorkerAssumption DEF Fails, NoRequest, rows, cap, boot, store
  <2>6. CASE Audit(r)
    BY <2>6, WorkerAssumption DEF Audit, NoRequest, rows, boot, store
  <2> QED BY <1>2, <2>1, <2>2, <2>3, <2>4, <2>5, <2>6 DEF Operator
<1>3. ASSUME NEW w \in Worker, Capture(w) PROVE Placed'
  <2>1. CASE Lease(w)
    BY <2>1, WorkerAssumption DEF Lease, rows, boot, store
  <2>2. CASE LeaseFails(w)
    BY <2>2, WorkerAssumption DEF LeaseFails, NoRequest, rows, boot, store
  <2>3. CASE Look(w) \/ PinRefused(w)
    BY <2>3, WorkerAssumption DEF Look, PinRefused, rows, boot, store, EventType
  <2>4. CASE Lookup(w)
    BY <2>4, WorkerAssumption DEF Lookup, rows, boot, store
  <2>5. CASE Publish(w)
    BY <2>5, WorkerAssumption DEF Publish, rows, boot, store
  <2>6. CASE CaptureFails(w)
    BY <2>6, WorkerAssumption DEF CaptureFails, rows, boot, store
  <2>7. CASE Release(w)
    BY <2>7, WorkerAssumption DEF Release, NoRequest, rows, boot, store
  <2> QED BY <1>3, <2>1, <2>2, <2>3, <2>4, <2>5, <2>6, <2>7 DEF Capture
<1>4. ASSUME NEW f \in Feedback, LoseSample(f) \/ Recover(f) PROVE Placed'
  <2>1. CASE Recover(f)
    BY <2>1, WorkerAssumption DEF Recover, rows, store, RowType, Feedback
  <2> QED BY <1>4, <2>1, <1>q DEF LoseSample, store, rows, set, cap, boot, past
<1>5. CASE Crash
  BY <1>5, WorkerAssumption DEF Crash, NoRequest, rows
<1>6. CASE Reconcile
  BY <1>6, WorkerAssumption DEF Reconcile, rows, cap, store
<1>7. CASE RefreshPins
  BY <1>7, WorkerAssumption DEF RefreshPins, rows, store, Pending, Confirmed
<1>8. CASE Started
  BY <1>8, WorkerAssumption DEF Started, rows, store
<1>9. CASE UNCHANGED vars
  BY <1>9, <1>q DEF vars, store, rows, set, cap, boot, past
<1> QED BY <1>1, <1>2, <1>3, <1>4, <1>5, <1>6, <1>7, <1>8, <1>9 DEF Next

\* A reviewed event has a feedback row, also one a refresh has read.
LEMMA SpokenStep == TypeOK /\ Placed /\ Spoken /\ [Next]_vars => Spoken'
<1> SUFFICES ASSUME TypeOK, Placed, Spoken, [Next]_vars PROVE Spoken'
  OBVIOUS
<1> USE DEF Spoken, HasRow, Made, TypeOK, RState
<1>q. ASSUME UNCHANGED <<rd, reviewed, made, truth>> PROVE Spoken'
  BY <1>q
<1>1. ASSUME NEW i \in Reading, Camera(i) \/ Expire(i) \/ Retention(i) PROVE Spoken'
  <2>1. ASSUME NEW s \in Known, Emit(i, s) PROVE Spoken'
    BY <2>1 DEF Emit, rows, store
  <2>2. ASSUME NEW e \in event \cup {None}, Read(i, e) PROVE Spoken'
    <3>1. \A j \in Reading \ {i} : rd'[j] = rd[j]
      BY <2>2 DEF Read
    <3>2. UNCHANGED <<made, truth, reviewed>>
      BY <2>2 DEF Read, rows, store
    <3>3. CASE rd'[i].at = "done"
      BY <3>1, <3>2, <3>3
    <3>4. CASE rd'[i] = [Stored(i) EXCEPT !.plate = IF e = None THEN rd[i].seen ELSE Unread]
      <4>1. rd'[i].reviewed = FALSE
        BY <3>4 DEF Stored, NoReading
      <4> QED BY <3>1, <3>2, <4>1
    <3>5. CASE e # None /\ rd'[i] = [Stored(i) EXCEPT
                       !.target = e, !.plate = rd[i].seen, !.crop = crop[e],
                       !.stamp = IF stamp[e] > rd[i].time THEN stamp[e] ELSE rd[i].time,
                       !.reviewed = e \in reviewed]
      <4>1. rd'[i].target = e /\ (rd'[i].reviewed => e \in reviewed)
        BY <3>5 DEF Stored, NoReading
      <4>2. \A x : HasRow(x)' <=> HasRow(x)
        BY <3>2
      <4>3. e \in reviewed => HasRow(e) /\ e # None
        BY <3>5
      <4> HIDE DEF HasRow
      <4>4. \A j \in Reading : rd'[j].at \in {"save", "write"} /\ rd'[j].reviewed =>
                               rd'[j].target # None /\ HasRow(rd'[j].target)
        BY <3>1, <4>1, <4>3
      <4> QED BY <3>2, <4>2, <4>4
    <3> QED BY <2>2, <3>3, <3>4, <3>5 DEF Read
  <2>3. CASE Save(i)
    <3>1. \A j \in Reading \ {i} : rd'[j] = rd[j]
      BY <2>3 DEF Save
    <3>2. rd'[i].reviewed = rd[i].reviewed /\ rd'[i].target = rd[i].target /\ rd[i].at = "save"
      BY <2>3, Saved DEF RState
    <3> QED BY <2>3, <3>1, <3>2 DEF Save, rows
  <2>4. CASE Write(i)
    BY <2>4, ReadingAssumption DEF Write, rows
  <2>5. CASE WriteFails(i)
    BY <2>5 DEF WriteFails, rows, Again, NoReading
  <2> QED BY <1>1, <2>1, <2>2, <2>3, <2>4, <2>5, <1>q DEF Camera, Expire, Retention, store,
     rows, set, cap, boot, past
<1>2. ASSUME NEW r \in Request, Operator(r) PROVE Spoken'
  <2>1. CASE Confirm(r)
    BY <2>1 DEF Confirm, Decide, Same, Placed, rows, OState
  <2>2. CASE Correct(r)
    <3>1. made' = made + 1 /\ made + 1 \in Feedback /\ made \in Nat
          /\ \A f \in Made : truth'[f] = truth[f] /\ f \in Made'
      BY <2>2, BoundAssumption DEF Correct, Insertable, RowType, Feedback
    <3>2. truth'[made + 1].event = op[r].event /\ made + 1 \in Made'
      BY <2>2, <3>1 DEF Correct, RowType
    <3>3. \A e : HasRow(e) => HasRow(e)'
      BY <3>1
    <3>4. \A e : e = op[r].event => HasRow(e)'
      BY <3>2
    <3>5. reviewed' = reviewed \cup {op[r].event} /\ rd' = rd
      BY <2>2 DEF Correct, Decide
    <3> HIDE DEF HasRow
    <3>6. \A e \in reviewed' : HasRow(e)'
      BY <3>3, <3>4, <3>5
    <3>7. \A j \in Reading : rd'[j].at \in {"save", "write"} /\ rd'[j].reviewed =>
                             rd'[j].target # None /\ HasRow(rd[j].target)'
      BY <3>3, <3>5
    <3> QED BY <3>5, <3>6, <3>7
  <2> QED BY <1>2, <2>1, <2>2, <1>q DEF Operator, Retain, Select, Fails, Audit, store, rows,
     set, cap, boot, past
<1>3. ASSUME NEW w \in Worker, Capture(w) PROVE Spoken'
  BY <1>3, <1>q DEF Lease, LeaseFails, Look, PinRefused, Lookup, Publish, CaptureFails, Release,
     Capture, store, rows, set, cap, boot, past
<1>4. ASSUME NEW f \in Feedback, LoseSample(f) \/ Recover(f) PROVE Spoken'
  BY <1>4, <1>q DEF LoseSample, Recover, store, rows, set, cap, boot, past
<1>5. CASE Crash
  BY <1>5 DEF Crash, rows, Again, NoReading
<1>6. CASE Reconcile \/ RefreshPins \/ Started \/ UNCHANGED vars
  BY <1>6, <1>q DEF Reconcile, RefreshPins, Started, vars, store, rows, set, cap, boot,
     past
<1> QED BY <1>1, <1>2, <1>3, <1>4, <1>5, <1>6 DEF Next

\* What a new row changes: the rows before it keep what they say.
LEMMA NewRow ==
    ASSUME TypeOK, Placed, NEW r \in Request, Correct(r)
    PROVE  /\ made \in Nat /\ made' = made + 1 /\ made + 1 \in Feedback
           /\ made + 1 \in Made' /\ made + 1 \notin Made /\ Made' = Made \cup {made + 1}
           /\ \A f \in Made : truth'[f] = truth[f] /\ train'[f] = train[f]
           /\ truth'[made + 1] = [event |-> op[r].event, label |-> op[r].label,
                                  crop |-> op[r].crop]
           /\ train'[made + 1] = "pending" /\ status'[made + 1] = "confirmed"
           /\ \A f \in Made : status'[f] = IF f = op[r].current THEN "superseded"
                                             ELSE status[f]
<1>1. made \in Nat /\ made < MaxFeedback /\ made' = made + 1
  BY DEF TypeOK, RowType, Correct, Insertable
<1>2. made + 1 \in Feedback /\ made + 1 \in Made' /\ made + 1 \notin Made
      /\ Made' = Made \cup {made + 1} /\ Made \subseteq Feedback
  BY <1>1, BoundAssumption DEF Feedback, Made
<1>3. op[r].current # made + 1
  BY <1>1, <1>2 DEF Placed
<1> QED BY <1>1, <1>2, <1>3 DEF TypeOK, RowType, Correct

\* A row to come has neither a digest nor a training state.
LEMMA FreshStep == TypeOK /\ Placed /\ Fresh /\ [Next]_vars => Fresh'
<1> SUFFICES ASSUME TypeOK, Placed, Fresh, [Next]_vars PROVE Fresh'
  OBVIOUS
<1> USE DEF Fresh, TypeOK, CaptureType, RowType
<1>q. ASSUME UNCHANGED <<made, sha, train>> PROVE Fresh'
  BY <1>q DEF Made, Feedback
<1>1. ASSUME NEW i \in Reading, Camera(i) \/ Expire(i) \/ Retention(i) PROVE Fresh'
  BY <1>1, <1>q DEF Emit, Read, Save, Write, WriteFails, Expire, Retention, Camera,
     store, rows, set, cap, boot, past
<1>2. ASSUME NEW r \in Request, Operator(r) PROVE Fresh'
  <2>1. CASE Correct(r)
    BY <2>1, NewRow, ZenonT(60) DEF Correct
  <2> QED BY <1>2, <2>1, <1>q DEF Operator, Retain, Select, Confirm, Fails, Audit, store, rows,
     set, cap, boot, past
<1>3. ASSUME NEW w \in Worker, Capture(w) PROVE Fresh'
  <2>1. CASE Look(w) \/ PinRefused(w)
    BY <2>1 DEF Look, PinRefused, rows, Worker, Made
  <2>2. CASE Publish(w)
    <3>1. job[w] \in Made /\ UNCHANGED Made
      BY <2>2 DEF Publish, rows, Made
    <3>2. ASSUME NEW f \in Feedback \ Made PROVE sha'[f] = None /\ train'[f] = "none"
      <4>1. f # job[w] /\ sha[f] = None /\ train[f] = "none"
        BY <3>1, <3>2
      <4>2. sha'[f] = None
        BY <4>1, <2>2 DEF Publish
      <4>3. Pixels[truth[job[w]].crop] # None
        BY <2>2, ReadingAssumption DEF Placed, Publish
      <4>4. train'[f] = "none"
        BY <4>1, <4>3, <2>2 DEF Publish
      <4> QED BY <4>2, <4>4
    <3> QED BY <3>1, <3>2
  <2> QED BY <1>3, <2>1, <2>2, <1>q DEF Capture, Lease, LeaseFails, Lookup, CaptureFails,
     Release, store, rows, set, cap, boot, past
<1>4. ASSUME NEW f \in Feedback, LoseSample(f) \/ Recover(f) PROVE Fresh'
  BY <1>4, <1>q DEF LoseSample, Recover, store, rows, set, cap, boot, past
<1>5. CASE Reconcile
  <2>1. UNCHANGED Made
    BY <1>5 DEF Reconcile, rows, Made
  <2> QED BY <1>5, <2>1 DEF Reconcile, Made
<1>6. CASE Crash \/ RefreshPins \/ Started \/ UNCHANGED vars
  BY <1>6, <1>q DEF Crash, RefreshPins, Started, vars, store, rows, set, cap, boot, past
<1> QED BY <1>1, <1>2, <1>3, <1>4, <1>5, <1>6 DEF Next

\* The row a request supersedes is the only rival of the row it inserts.
LEMMA OneCurrentTruthStep == TypeOK /\ Placed /\ OneCurrentTruth /\ [Next]_vars => OneCurrentTruth'
<1> SUFFICES ASSUME TypeOK, Placed, OneCurrentTruth, [Next]_vars PROVE OneCurrentTruth'
  OBVIOUS
<1> USE DEF OneCurrentTruth, Confirmed, Current
<1>q. ASSUME UNCHANGED <<made, truth, status, event>> PROVE OneCurrentTruth'
  BY <1>q
<1>1. ASSUME NEW i \in Reading, Camera(i) \/ Expire(i) \/ Retention(i) PROVE
   OneCurrentTruth'
  <2>1. CASE Write(i)
    BY <2>1 DEF Write, rows
  <2>2. CASE Retention(i)
    BY <2>2 DEF Retention, rows, Deletable
  <2> QED BY <1>1, <2>1, <2>2, <1>q DEF Camera, Emit, Read, Save, WriteFails, Expire, store,
     rows, set, cap, boot, past
<1>2. ASSUME NEW r \in Request, Operator(r) PROVE OneCurrentTruth'
  <2>1. CASE Confirm(r)
    BY <2>1 DEF Confirm, rows, store
  <2>2. CASE Correct(r)
    <3>a. truth'[made + 1] = [event |-> op[r].event, label |-> op[r].label, crop |-> op[r].crop]
      BY <2>2, NewRow
    <3>0. /\ Made' = Made \cup {made + 1} /\ made + 1 \notin Made
          /\ truth'[made + 1].event = op[r].event
          /\ \A g \in Made : truth'[g] = truth[g]
          /\ \A g \in Made : status'[g] = IF g = op[r].current THEN "superseded" ELSE status[g]
      BY <2>2, <3>a, NewRow
    <3>1. ASSUME NEW f \in Made', status'[f] = "confirmed"
          PROVE  truth'[f].event \in event' /\ Current(truth[f].event)' = {f}
      <4>0. UNCHANGED event /\ op[r].event \in event
        BY <2>2 DEF Correct, Placed
      <4>1. \A g \in Made : status'[g] = "confirmed" =>
               g # op[r].current /\ status[g] = "confirmed" /\ truth'[g] = truth[g]
        BY <3>0
      <4>2. \A g \in Made : status'[g] = "confirmed" => truth[g].event # op[r].event
        BY <2>2, <4>1 DEF Correct, Insertable, Unrivalled, Made
      <4>3. ASSUME NEW g \in Made', status'[g] = "confirmed", truth'[g].event = truth'[f].event
            PROVE  g = f
        <5>1. CASE f = made + 1 \/ g = made + 1
          BY <3>0, <3>1, <4>2, <4>1, <4>3, <5>1
        <5>2. CASE f \in Made /\ g \in Made
          <6>1. status[f] = "confirmed" /\ truth'[f] = truth[f]
            BY <3>1, <4>1, <5>2
          <6>2. status[g] = "confirmed" /\ truth'[g] = truth[g]
            BY <4>3, <4>1, <5>2
          <6> QED BY <4>3, <5>2, <6>1, <6>2 DEF Made
        <5> QED BY <3>0, <5>1, <5>2, <3>1, <4>3
      <4>4. truth'[f].event \in event'
        <5>1. CASE f = made + 1
          BY <3>0, <4>0, <5>1
        <5>2. CASE f \in Made
          BY <3>1, <4>0, <4>1, <5>2 DEF Made
        <5> QED BY <3>0, <5>1, <5>2, <3>1
      <4> QED BY <3>1, <4>3, <4>4 DEF Made
    <3> QED BY <3>1 DEF Made
  <2> QED BY <1>2, <2>1, <2>2, <1>q DEF Operator, Retain, Select, Fails, Audit, store, rows,
     set, cap, boot, past
<1>3. ASSUME NEW w \in Worker, Capture(w) PROVE OneCurrentTruth'
  BY <1>3, <1>q DEF Lease, LeaseFails, Look, PinRefused, Lookup, Publish, CaptureFails, Release,
     Capture, store, rows, set, cap, boot, past
<1>4. ASSUME NEW f \in Feedback, LoseSample(f) \/ Recover(f) PROVE OneCurrentTruth'
  BY <1>4, <1>q DEF LoseSample, Recover, store, rows, set, cap, boot, past
<1>5. CASE Crash \/ Reconcile \/ RefreshPins \/ Started \/ UNCHANGED vars
  BY <1>5, <1>q DEF Crash, Reconcile, RefreshPins, Started, vars, store, rows, set, cap,
     boot, past
<1> QED BY <1>1, <1>2, <1>3, <1>4, <1>5 DEF Next

\* Only the holder of the lock gives a row its digest.
LEMMA FoundStep == TypeOK /\ Placed /\ Fresh /\ Found /\ [Next]_vars => Found'
<1> SUFFICES ASSUME TypeOK, Placed, Fresh, Found, [Next]_vars PROVE Found'
  OBVIOUS
<1> USE DEF Found, TypeOK, CaptureType, RowType, Worker
<1>q. ASSUME UNCHANGED <<pc, job, found, made, sha, truth>> PROVE Found'
  BY <1>q DEF Twins
<1>1. ASSUME NEW i \in Reading, Camera(i) \/ Expire(i) \/ Retention(i) PROVE Found'
  BY <1>1, <1>q DEF Emit, Read, Save, Write, WriteFails, Expire, Retention, Camera,
     store, rows, set, cap, boot, past
<1>2. ASSUME NEW r \in Request, Operator(r) PROVE Found'
  <2>1. CASE Confirm(r)
    <3>1. pc[r] = "idle" /\ UNCHANGED <<pc, found, made, truth, sha>>
          /\ \A v \in Worker \ {r} : job'[v] = job[v]
      BY <2>1 DEF Confirm, Placed, rows, set
    <3> QED BY <3>1 DEF Twins
  <2>2. CASE Correct(r)
    <3>1. pc[r] = "idle" /\ UNCHANGED <<pc, found, sha>>
          /\ \A v \in Worker \ {r} : job'[v] = job[v]
      BY <2>2 DEF Correct, Placed
    <3>2. ASSUME NEW v \in Worker, pc[v] = "publish", NEW g \in Twins(job[v])' PROVE g \in Twins(job[v])
      <4>1. job'[v] = job[v] /\ job[v] \in Made
        BY <3>1, <3>2 DEF Made
      <4>2. truth'[job[v]] = truth[job[v]] /\ Pixels[truth[job[v]].crop] # None
        BY <2>2, NewRow, <3>2, <4>1, ReadingAssumption DEF Placed
      <4>3. g \in Made' /\ g # job[v] /\ sha[g] = Pixels[truth[job[v]].crop]
        BY <3>1, <3>2, <4>1, <4>2 DEF Twins, Made
      <4>4. g \in Made
        <5>1. Made' = Made \cup {made + 1} /\ made + 1 \in Feedback \ Made
          BY <2>2, NewRow
        <5>2. sha[made + 1] = None
          BY <5>1 DEF Fresh
        <5> QED BY <4>2, <4>3, <5>1, <5>2
      <4> QED BY <4>3, <4>4 DEF Twins, Made
    <3>3. \A v \in Worker : pc[v] = "publish" => Twins(job[v])' \subseteq Twins(job[v])
      BY <3>2
    <3> QED BY <3>1, <3>3
  <2>3. CASE Audit(r)
    <3>1. pc[r] = "idle" /\ pc'[r] \in {"idle", "lease"} /\ UNCHANGED <<found, made, truth, sha>>
          /\ \A v \in Worker \ {r} : job'[v] = job[v] /\ pc'[v] = pc[v]
      BY <2>3 DEF Audit, Placed, rows, set
    <3> QED BY <3>1 DEF Twins
  <2> QED BY <1>2, <2>1, <2>2, <2>3, <1>q DEF Operator, Retain, Select, Fails, store, rows, set,
     cap, boot, past
<1>3. ASSUME NEW w \in Worker, Capture(w) PROVE Found'
  <2>1. CASE Lease(w)
    <3>1. \A v \in Worker \ {w} : UNCHANGED <<pc[v], job[v], found[v]>>
      BY <2>1 DEF Lease
    <3>2. pc'[w] # "publish"
      BY <2>1 DEF Lease
    <3>3. UNCHANGED <<made, truth, sha>>
      BY <2>1 DEF Lease, rows, set
    <3> QED BY <3>1, <3>2, <3>3, WorkerAssumption DEF Twins
  <2>2. CASE LeaseFails(w)
    <3>1. \A v \in Worker \ {w} : UNCHANGED <<pc[v], job[v], found[v]>>
      BY <2>2 DEF LeaseFails
    <3>2. pc'[w] # "publish"
      BY <2>2 DEF LeaseFails
    <3>3. UNCHANGED <<made, truth, sha>>
      BY <2>2 DEF LeaseFails, rows, set
    <3> QED BY <3>1, <3>2, <3>3, WorkerAssumption DEF Twins
  <2>3. CASE Look(w) \/ PinRefused(w)
    <3>1. \A v \in Worker \ {w} : UNCHANGED <<pc[v], job[v], found[v]>>
      BY <2>3 DEF Look, PinRefused
    <3>2. pc'[w] # "publish"
      BY <2>3 DEF Look, PinRefused
    <3>3. UNCHANGED <<made, truth, sha>>
      BY <2>3 DEF Look, PinRefused, rows, set
    <3> QED BY <3>1, <3>2, <3>3, WorkerAssumption DEF Twins
  <2>4. CASE Lookup(w)
    <3>1. \A v \in Worker \ {w} : UNCHANGED <<pc[v], job[v], found[v]>>
      BY <2>4 DEF Lookup
    <3>2. UNCHANGED <<made, truth, sha, job>> /\ found'[w] = Twins(job[w])
      BY <2>4 DEF Lookup, rows, set
    <3> QED BY <3>1, <3>2 DEF Twins
  <2>5. CASE Publish(w)
    <3>1. \A v \in Worker : pc'[v] # "publish"
      BY <2>5 DEF Publish, Placed
    <3> QED BY <3>1
  <2>6. CASE CaptureFails(w)
    <3>1. \A v \in Worker \ {w} : UNCHANGED <<pc[v], job[v], found[v]>>
      BY <2>6 DEF CaptureFails
    <3>2. pc'[w] # "publish"
      BY <2>6 DEF CaptureFails
    <3>3. UNCHANGED <<made, truth, sha>>
      BY <2>6 DEF CaptureFails, rows, set
    <3> QED BY <3>1, <3>2, <3>3, WorkerAssumption DEF Twins
  <2>7. CASE Release(w)
    <3>1. \A v \in Worker \ {w} : UNCHANGED <<pc[v], job[v], found[v]>>
      BY <2>7 DEF Release
    <3>2. pc'[w] # "publish"
      BY <2>7 DEF Release
    <3>3. UNCHANGED <<made, truth, sha>>
      BY <2>7 DEF Release, rows, set
    <3> QED BY <3>1, <3>2, <3>3, WorkerAssumption DEF Twins
  <2> QED BY <1>3, <2>1, <2>2, <2>3, <2>4, <2>5, <2>6, <2>7 DEF Capture
<1>4. ASSUME NEW f \in Feedback, LoseSample(f) \/ Recover(f) PROVE Found'
  <2>1. CASE Recover(f)
    <3>1. \A v \in Worker \ {Recovery} : UNCHANGED <<pc[v], job[v], found[v]>>
      BY <2>1 DEF Recover
    <3>2. UNCHANGED <<made, truth, sha>> /\ pc'[Recovery] = "lease"
      BY <2>1 DEF Recover, rows, set
    <3> QED BY <3>1, <3>2 DEF Twins
  <2> QED BY <1>4, <2>1, <1>q DEF LoseSample, store, rows, set, cap, boot, past
<1>5. CASE Crash
  BY <1>5 DEF Crash
<1>6. CASE Reconcile
  <2>1. \A v \in Worker : pc'[v] = "idle"
    BY <1>6 DEF Reconcile, Placed, cap
  <2> QED BY <2>1
<1>7. CASE RefreshPins \/ Started \/ UNCHANGED vars
  BY <1>7, <1>q DEF RefreshPins, Started, vars, store, rows, set, cap, boot, past
<1> QED BY <1>1, <1>2, <1>3, <1>4, <1>5, <1>6, <1>7 DEF Next

\* What a capture found under the lock is all there is, so that no crop gets a
\* second label.
LEMMA OneTruthStep == TypeOK /\ Placed /\ Fresh /\ Found /\ OneTruth /\ [Next]_vars => OneTruth'
<1> SUFFICES ASSUME TypeOK, Placed, Fresh, Found, OneTruth, [Next]_vars PROVE OneTruth'
  OBVIOUS
<1> USE DEF OneTruth, Holds, TypeOK, RowType, CaptureType
<1>q. ASSUME UNCHANGED <<made, sha, truth, train>> PROVE OneTruth'
  BY <1>q
<1>1. ASSUME NEW i \in Reading, Camera(i) \/ Expire(i) \/ Retention(i) PROVE OneTruth'
  BY <1>1, <1>q DEF Emit, Read, Save, Write, WriteFails, Expire, Retention, Camera,
     store, rows, set, cap, boot, past
<1>2. ASSUME NEW r \in Request, Operator(r) PROVE OneTruth'
  <2>1. CASE Correct(r)
    <3>1. \A f \in Made : truth'[f] = truth[f] /\ train'[f] = train[f] /\ sha'[f] = sha[f]
      BY <2>1, NewRow DEF Correct
    <3>2. train'[made + 1] = "pending" /\ Made' = Made \cup {made + 1}
      BY <2>1, NewRow
    <3> QED BY <3>1, <3>2 DEF Made
  <2> QED BY <1>2, <2>1, <1>q DEF Operator, Retain, Select, Confirm, Fails, Audit, store, rows,
     set, cap, boot, past
<1>3. ASSUME NEW w \in Worker, Capture(w) PROVE OneTruth'
  <2>1. CASE Look(w) \/ PinRefused(w)
    <3>1. \A f \in Feedback : train'[f] = train[f] \/ train'[f] = "missing"
      BY <2>1 DEF Look, PinRefused
    <3>2. UNCHANGED <<made, truth, sha>>
      BY <2>1 DEF Look, PinRefused, rows
    <3> QED BY <3>1, <3>2, BoundAssumption DEF Feedback
  <2>2. CASE Publish(w)
    <3> DEFINE f == job[w]
               d == Pixels[truth[f].crop]
    <3>0. f \in Made /\ UNCHANGED <<made, truth>>
      BY <2>2 DEF Publish, Made, rows
    <3>1. f \in Made /\ Made \subseteq Feedback /\ UNCHANGED <<made, truth>>
      BY <3>0, BoundAssumption DEF Made, Feedback
    <3>2. \A g \in Feedback : sha'[g] = IF g = f THEN d ELSE sha[g]
      BY <2>2 DEF Publish
    <3>3. ASSUME NEW g \in Made, Holds(g)', sha'[g] = d PROVE truth[g].label = truth[f].label
      <4>1. CASE g = f
        BY <4>1
      <4>2. CASE g # f /\ Clash(w) # {}
        BY <2>2, <3>1, <3>2, <3>3, <4>2 DEF Publish
      <4>3. CASE g # f /\ Clash(w) = {}
        <5>1. g \in found[w]
          BY <2>2, <3>1, <3>2, <3>3, <4>3 DEF Publish, Found, Twins, Made
        <5> QED BY <4>3, <5>1 DEF Clash
      <4> QED BY <4>1, <4>2, <4>3
    <3>4. ASSUME NEW g \in Made, NEW h \in Made, Holds(g)', Holds(h)', sha'[g] = sha'[h]
          PROVE  truth[g].label = truth[h].label
      <4>1. CASE sha'[g] = d
        BY <3>3, <3>4, <4>1
      <4>2. CASE sha'[g] # d
        <5>1. g # f /\ h # f /\ sha[g] = sha[h]
          BY <3>1, <3>2, <3>4, <4>2
        <5>2. train'[g] = train[g] /\ train'[h] = train[h]
          BY <2>2, <3>1, <3>2, <3>4, <4>2, <5>1 DEF Publish
        <5> QED BY <3>4, <5>1, <5>2 DEF Made
      <4> QED BY <4>1, <4>2
    <3> QED BY <3>1, <3>4 DEF Made
  <2> QED BY <1>3, <2>1, <2>2, <1>q DEF Capture, Lease, LeaseFails, Lookup, CaptureFails,
     Release, store, rows, set, cap, boot, past
<1>4. ASSUME NEW f \in Feedback, LoseSample(f) \/ Recover(f) PROVE OneTruth'
  BY <1>4, <1>q DEF LoseSample, Recover, store, rows, set, cap, boot, past
<1>5. CASE Reconcile
  <2>1. \A f \in Feedback : train'[f] = "pending" \/ (train'[f] = train[f] /\ sha'[f] = sha[f])
    BY <1>5 DEF Reconcile
  <2>2. UNCHANGED <<made, truth>>
    BY <1>5 DEF Reconcile, rows
  <2> QED BY <2>1, <2>2, BoundAssumption DEF Feedback
<1>6. CASE Crash \/ RefreshPins \/ Started \/ UNCHANGED vars
  BY <1>6, <1>q DEF Crash, RefreshPins, Started, vars, store, rows, set, cap, boot, past
<1> QED BY <1>1, <1>2, <1>3, <1>4, <1>5, <1>6 DEF Next

\* An image that is settled stays settled while no reading starts over.
LEMMA StaysSettled ==
    ASSUME \A i \in Reading : rd[i].at = "done" => rd'[i].at = "done"
    PROVE  \A x \in Image : Settled(x) => Settled(x)'
BY DEF Settled, Image

\* No image that is named is taken back.
LEMMA KeptStep == TypeOK /\ Placed /\ Kept /\ [Next]_vars => Kept'
<1> SUFFICES ASSUME TypeOK, Placed, Kept, [Next]_vars PROVE Kept'
  OBVIOUS
<1> USE DEF Kept
<1>t. /\ crop \in [Reading -> Image] /\ disk \subseteq Reading /\ rd \in [Reading -> RState]
      /\ op \in [Request -> OState]
      /\ \A r \in Request : op[r].crop \in Image /\ op[r].pin \in Image
      /\ \A j \in Reading : rd[j].crop \in Image
      /\ \A f \in Made : truth[f].crop \in Image
  BY BoundAssumption DEF TypeOK, EventType, RowType, RState, OState, Fact, Made, Feedback
<1>n. None \in Image /\ Settled(None)' /\ \A j \in Reading : j \in Image /\ j # None
  BY ReadingAssumption DEF Image, Settled
<1>q. ASSUME UNCHANGED <<rd, op, crop, made, truth, disk>> PROVE Kept'
  BY <1>q DEF Settled, Made
<1>1. ASSUME NEW i \in Reading, Camera(i) \/ Expire(i) \/ Retention(i) PROVE Kept'
  <2>1. ASSUME NEW s \in Known, Emit(i, s) PROVE Kept'
    <3>1. rd[i].at = "none" /\ rd'[i].at = "due" /\ i \notin Old
          /\ \A j \in Reading \ {i} : rd'[j] = rd[j]
      BY <2>1, <1>t DEF Emit, RState
    <3>2. UNCHANGED <<crop, disk, made, truth, op>>
      BY <2>1 DEF Emit, store, rows
    <3>s. \A x \in Image : Settled(x) => Settled(x)'
      <4>1. \A j \in Reading : rd[j].at = "done" => rd'[j].at = "done"
        BY <3>1
      <4> QED BY <4>1, StaysSettled
    <3> QED BY <3>1, <3>2, <3>s, <1>t, ReadingAssumption DEF Made
  <2>2. ASSUME NEW e \in event \cup {None}, Read(i, e) PROVE Kept'
    <3>1. rd[i].at = "due" /\ \A j \in Reading \ {i} : rd'[j] = rd[j]
      BY <2>2, <1>t DEF Read
    <3>2. UNCHANGED <<crop, disk, made, truth, op>>
      BY <2>2 DEF Read, store, rows
    <3>3. rd'[i].at = "done" \/ rd'[i].crop = None \/ \E x \in Reading : rd'[i].crop = crop[x]
      <4>1. CASE rd' = [rd EXCEPT ![i].at = "done"]
        BY <4>1, <1>t DEF RState
      <4>2. CASE rd' = [rd EXCEPT ![i] = [Stored(i) EXCEPT
                       !.plate = IF e = None THEN rd[i].seen ELSE Unread]]
        <5>1. rd'[i] = [Stored(i) EXCEPT !.plate = IF e = None THEN rd[i].seen ELSE Unread]
          BY <4>2, <1>t
        <5>2. rd'[i].crop = None
          BY <5>1 DEF Stored, NoReading
        <5> QED BY <5>2
      <4>3. CASE e # None /\ rd' = [rd EXCEPT ![i] = [Stored(i) EXCEPT
                       !.target = e, !.plate = rd[i].seen, !.crop = crop[e],
                       !.stamp = IF stamp[e] > rd[i].time THEN stamp[e] ELSE rd[i].time,
                       !.reviewed = e \in reviewed]]
        <5>1. rd'[i] = [Stored(i) EXCEPT
                       !.target = e, !.plate = rd[i].seen, !.crop = crop[e],
                       !.stamp = IF stamp[e] > rd[i].time THEN stamp[e] ELSE rd[i].time,
                       !.reviewed = e \in reviewed]
          BY <4>3, <1>t
        <5>2. rd'[i].crop = crop[e]
          BY <5>1 DEF Stored, NoReading
        <5>3. e \in Reading
          BY <4>3 DEF TypeOK, EventType
        <5> QED BY <5>2, <5>3
      <4> QED BY <2>2, <4>1, <4>2, <4>3 DEF Read
    <3>4. i \notin Old
      BY <3>1
    <3>s. \A x \in Image : Settled(x) => Settled(x)'
      <4>1. \A j \in Reading : rd[j].at = "done" => rd'[j].at = "done"
        BY <3>1
      <4> QED BY <4>1, StaysSettled
    <3>5. Settled(rd[i].crop)' \/ rd'[i].at = "done"
      BY <3>3, <3>s, <1>t, <1>n
    <3> QED BY <3>1, <3>2, <3>4, <3>5, <3>s, <1>t, <1>n, ReadingAssumption DEF Made
  <2>3. CASE Save(i)
    <3>1. rd[i].at = "save" /\ rd'[i].at = "write" /\ rd'[i].crop \in {rd[i].crop, i, None}
      BY <2>3, <1>t, Saved
    <3>2. UNCHANGED <<crop, made, truth, op>> /\ disk \subseteq disk'
          /\ \A j \in Reading \ {i} : rd'[j] = rd[j]
      BY <2>3, <1>t DEF Save, rows
    <3>s. \A x \in Image : Settled(x) => Settled(x)'
      <4>1. \A j \in Reading : rd[j].at = "done" => rd'[j].at = "done"
        BY <3>1, <3>2
      <4> QED BY <4>1, StaysSettled
    <3>3. rd'[i].crop = i \/ Settled(rd[i].crop)'
      BY <3>1, <3>s, <1>t, <1>n
    <3>4. i \notin Old
      BY <3>1
    <3> QED BY <3>1, <3>2, <3>3, <3>4, <3>s, <1>t, ReadingAssumption DEF Made
  <2>4. CASE Write(i)
    <3>1. rd[i].at = "write" /\ rd'[i].at = "done" /\ rd'[i].crop = rd[i].crop
          /\ \A j \in Reading \ {i} : rd'[j] = rd[j]
      BY <2>4, <1>t DEF Write, RState
    <3>2. UNCHANGED <<disk, made, truth, op>>
      BY <2>4 DEF Write, rows
    <3>3. \A x \in Reading : crop'[x] = crop[x] \/ crop'[x] = rd[i].crop
      BY <2>4, <1>t DEF Write
    <3>4. i \notin Old
      BY <3>1
    <3>s. \A x \in Image : Settled(x) => Settled(x)'
      <4>1. \A j \in Reading : rd[j].at = "done" => rd'[j].at = "done"
        BY <3>1
      <4> QED BY <4>1, StaysSettled
    <3>5. Settled(i)'
      BY <3>1 DEF Settled
    <3>6. \A x \in Reading : Settled(crop[x])'
      BY <3>1, <3>3, <3>5, <3>s, <1>t
    <3> QED BY <3>1, <3>2, <3>4, <3>6, <3>s, <1>t, ReadingAssumption DEF Made
  <2>5. CASE WriteFails(i)
    <3>1. rd[i].at = "write" /\ rd'[i].at = "due" /\ \A j \in Reading \ {i} : rd'[j] = rd[j]
      BY <2>5, <1>t DEF WriteFails, Again, NoReading
    <3>2. UNCHANGED <<crop, made, truth, op>> /\ disk \ {i} \subseteq disk'
      BY <2>5 DEF WriteFails, rows
    <3>3. i \notin Old /\ ~Settled(i)
      BY <3>1, ReadingAssumption DEF Settled
    <3>s. \A x \in Image : Settled(x) => Settled(x)'
      <4>1. \A j \in Reading : rd[j].at = "done" => rd'[j].at = "done"
        BY <3>1
      <4> QED BY <4>1, StaysSettled
    <3> QED BY <3>1, <3>2, <3>3, <3>s, <1>t, ReadingAssumption DEF Made
  <2>6. CASE Expire(i)
    <3>1. UNCHANGED <<rd, crop, made, truth, op>> /\ disk' = disk \ {i}
      BY <2>6 DEF Expire, rows
    <3>2. \A r \in Request : op[r].pin # i
      BY <2>6 DEF Expire, Pinned
    <3> QED BY <3>1, <3>2 DEF Settled, Made
  <2> QED BY <1>1, <2>1, <2>2, <2>3, <2>4, <2>5, <2>6, <1>q DEF Camera, Retention, store, rows,
     set, cap, boot, past
<1>2. ASSUME NEW r \in Request, Operator(r) PROVE Kept'
  <2>1. ASSUME NEW e \in event, Retain(r, e) PROVE Kept'
    <3>1. op'[r].crop = None /\ op'[r].pin = (IF crop[e] \in disk THEN crop[e] ELSE None)
          /\ \A q \in Request \ {r} : op'[q] = op[q]
      BY <2>1, <1>t DEF Retain, NoRequest
    <3>2. UNCHANGED <<rd, crop, disk, made, truth>> /\ e \in Reading
      BY <2>1 DEF Retain, store, rows, TypeOK, EventType
    <3>s. \A x \in Image : Settled(x)' <=> Settled(x)
      BY <3>2 DEF Settled
    <3> QED BY <3>1, <3>2, <3>s, <1>t, <1>n DEF Made
  <2>2. ASSUME NEW l \in Plate, Select(r, l) PROVE Kept'
    <3>1. op'[r].crop = crop[op[r].event] /\ op'[r].pin = op[r].pin
          /\ \A q \in Request \ {r} : op'[q] = op[q]
      BY <2>2, <1>t DEF Select, OState
    <3>2. UNCHANGED <<rd, crop, disk, made, truth>> /\ op[r].event \in Reading
      BY <2>2 DEF Select, store, rows, Placed, TypeOK, EventType
    <3>s. \A x \in Image : Settled(x)' <=> Settled(x)
      BY <3>2 DEF Settled
    <3> QED BY <3>1, <3>2, <3>s, <1>t DEF Made
  <2>3. CASE Confirm(r)
    <3>1. UNCHANGED <<rd, crop, disk, made, truth>>
      BY <2>3 DEF Confirm, rows, store, Decide
    <3>2. \A q \in Request : op'[q].crop \in {op[q].crop, None} /\ op'[q].pin \in {op[q].pin, None}
      BY <2>3, <1>t DEF Confirm, NoRequest, OState
    <3>s. \A x \in Image : Settled(x)' <=> Settled(x)
      BY <3>1 DEF Settled
    <3> QED BY <3>1, <3>2, <3>s, <1>t, <1>n DEF Made
  <2>4. CASE Correct(r)
    <3>1. Made' = Made \cup {made + 1} /\ \A f \in Made : truth'[f] = truth[f]
      BY <2>4, NewRow
    <3>2. truth'[made + 1] = [event |-> op[r].event, label |-> op[r].label, crop |-> op[r].crop]
      BY <2>4, NewRow
    <3>3. UNCHANGED <<rd, crop, disk>> /\ \A q \in Request : op'[q].crop = op[q].crop /\ op'[q].pin = op[q].pin
      BY <2>4, <1>t DEF Correct, OState
    <3>s. \A x \in Image : Settled(x)' <=> Settled(x)
      BY <3>3 DEF Settled
    <3> QED BY <3>1, <3>2, <3>3, <3>s, <1>t
  <2>5. CASE Fails(r)
    <3>1. UNCHANGED <<rd, crop, disk, made, truth>>
      BY <2>5 DEF Fails, rows, store
    <3>2. \A q \in Request : op'[q].crop \in {op[q].crop, None} /\ op'[q].pin \in {op[q].pin, None}
      BY <2>5, <1>t DEF Fails, NoRequest, OState
    <3>s. \A x \in Image : Settled(x)' <=> Settled(x)
      BY <3>1 DEF Settled
    <3> QED BY <3>1, <3>2, <3>s, <1>t, <1>n DEF Made
  <2>6. CASE Audit(r)
    <3>1. UNCHANGED <<rd, crop, disk, made, truth>>
      BY <2>6 DEF Audit, rows, store
    <3>2. \A q \in Request : op'[q].crop \in {op[q].crop, None} /\ op'[q].pin \in {op[q].pin, None}
      BY <2>6, <1>t DEF Audit, NoRequest, OState
    <3>s. \A x \in Image : Settled(x)' <=> Settled(x)
      BY <3>1 DEF Settled
    <3> QED BY <3>1, <3>2, <3>s, <1>t, <1>n DEF Made
  <2> QED BY <1>2, <2>1, <2>2, <2>3, <2>4, <2>5, <2>6 DEF Operator
<1>3. ASSUME NEW w \in Worker, Capture(w) PROVE Kept'
  <2>1. CASE LeaseFails(w)
    <3>1. UNCHANGED <<rd, crop, disk, made, truth>>
      BY <2>1 DEF LeaseFails, rows, store
    <3>2. \A q \in Request : op'[q].crop \in {op[q].crop, None} /\ op'[q].pin \in {op[q].pin, None}
      BY <2>1, <1>t DEF LeaseFails, NoRequest, OState
    <3>s. \A x \in Image : Settled(x)' <=> Settled(x)
      BY <3>1 DEF Settled
    <3> QED BY <3>1, <3>2, <3>s, <1>t, <1>n DEF Made
  <2>2. CASE Release(w)
    <3>1. UNCHANGED <<rd, crop, disk, made, truth>>
      BY <2>2 DEF Release, rows, store
    <3>2. \A q \in Request : op'[q].crop \in {op[q].crop, None} /\ op'[q].pin \in {op[q].pin, None}
      BY <2>2, <1>t DEF Release, NoRequest, OState
    <3>s. \A x \in Image : Settled(x)' <=> Settled(x)
      BY <3>1 DEF Settled
    <3> QED BY <3>1, <3>2, <3>s, <1>t, <1>n DEF Made
  <2> QED BY <1>3, <2>1, <2>2, <1>q DEF Capture, Lease, Look, PinRefused, Lookup, Publish, CaptureFails,
     store, rows, set, cap, boot, past
<1>4. ASSUME NEW f \in Feedback, LoseSample(f) \/ Recover(f) PROVE Kept'
  BY <1>4, <1>q DEF LoseSample, Recover, store, rows, set, cap, boot, past
<1>5. CASE Crash
  <2>1. \A j \in Reading : rd'[j] = rd[j] \/ (rd[j].at \in {"save", "write"} /\ rd'[j].at = "due")
    BY <1>5, <1>t DEF Crash, Again, NoReading
  <2>2. UNCHANGED <<crop, made, truth>> /\ \A r \in Request : op'[r].crop = None /\ op'[r].pin = None
    BY <1>5 DEF Crash, rows, NoRequest
  <2>3. \A j \in Old : rd'[j] = rd[j]
    BY <2>1, ReadingAssumption
  <2>s. \A x \in Image : Settled(x) => Settled(x)'
    <3>1. \A j \in Reading : rd[j].at = "done" => rd'[j].at = "done"
      BY <2>1
    <3> QED BY <3>1, StaysSettled
  <2> QED BY <2>1, <2>2, <2>3, <2>s, <1>t, <1>n, ReadingAssumption DEF Made
<1>6. CASE Reconcile \/ RefreshPins \/ Started \/ UNCHANGED vars
  BY <1>6, <1>q DEF Reconcile, RefreshPins, Started, vars, store, rows, set, cap, boot,
     past
<1> QED BY <1>1, <1>2, <1>3, <1>4, <1>5, <1>6 DEF Next

\* A crop that waits for its capture is pinned by its request or by its row,
\* or the program is starting and discards nothing.
LEMMA SecureStep == TypeOK /\ Placed /\ Fresh /\ Kept /\ Secure /\ [Next]_vars => Secure'
<1> SUFFICES ASSUME TypeOK, Placed, Fresh, Kept, Secure, [Next]_vars PROVE Secure'
  OBVIOUS
<1> USE DEF Secure
<1>t. /\ op \in [Request -> OState] /\ rd \in [Reading -> RState]
      /\ pc \in [Worker -> {"idle", "lease", "look", "store", "publish", "release"}]
      /\ job \in [Worker -> 0 .. MaxFeedback] /\ train \in [Feedback -> Training]
      /\ sha \in [Feedback -> Digest \cup {None}]
      /\ \A w \in Worker : pc[w] # "idle" => job[w] \in Made
      /\ Made \subseteq Feedback
  BY BoundAssumption DEF TypeOK, RowType, CaptureType, Made, Feedback
<1>q. ASSUME UNCHANGED <<safe, captured, train, status, truth, disk, phase, lease, job, op, pc, made>> PROVE Secure'
  BY <1>q DEF Secured, Guards, Made
<1>1. ASSUME NEW i \in Reading, Camera(i) \/ Expire(i) \/ Retention(i) PROVE Secure'
  <2>1. CASE Save(i)
    <3>1. UNCHANGED <<safe, captured, train, status, truth, phase, lease, job, op, pc, made>>
      BY <2>1 DEF Save, rows, set, cap, boot, past
    <3>2. \A f \in safe \ captured : status[f] = "confirmed" => truth[f].crop \in disk'
      BY <2>1 DEF Save, Secured
    <3> QED BY <3>1, <3>2 DEF Secured, Guards, Made
  <2>2. CASE WriteFails(i)
    <3>1. UNCHANGED <<safe, captured, train, status, truth, phase, lease, job, op, pc, made>>
      BY <2>2 DEF WriteFails, rows, set, cap, boot, past
    <3>2. \A f \in safe \ captured : status[f] = "confirmed" => truth[f].crop \in disk'
      <4>1. disk \ {i} \subseteq disk' /\ ~Settled(i)
        BY <2>2, <1>t, ReadingAssumption DEF WriteFails, Settled, Kept
      <4> QED BY <4>1 DEF Secured, Kept
    <3> QED BY <3>1, <3>2 DEF Secured, Guards, Made
  <2>3. CASE Expire(i)
    <3>1. UNCHANGED <<safe, captured, train, status, truth, phase, lease, job, op, pc, made>>
      BY <2>3 DEF Expire, rows, set, cap, boot, past
    <3>2. \A f \in safe \ captured : status[f] = "confirmed" => truth[f].crop \in disk'
      <4>1. disk' = disk \ {i} /\ phase = "up" /\ (\A r \in Request : op[r].pin # i)
            /\ \A f \in lease : truth[f].crop # i
        BY <2>3 DEF Expire, Pinned, Running
      <4> QED BY <4>1 DEF Secured, Guards
    <3> QED BY <3>1, <3>2 DEF Secured, Guards, Made
  <2> QED BY <1>1, <2>1, <2>2, <2>3, <1>q DEF Camera, Emit, Read, Write, Retention, store, rows,
     set, cap, boot, past
<1>2. ASSUME NEW r \in Request, Operator(r) PROVE Secure'
  <2>1. ASSUME NEW e \in event, Retain(r, e) PROVE Secure'
    <3>1. op[r].at = "idle" /\ \A q \in Request \ {r} : op'[q] = op[q]
      BY <2>1, <1>t DEF Retain
    <3>2. UNCHANGED <<safe, captured, train, status, truth, disk, phase, lease, job, pc, made>>
      BY <2>1 DEF Retain, store, rows, set, cap, boot, past
    <3>3. \A q \in Request, f \in Made : Guards(q, f) => Guards(q, f)'
      BY <3>1, <3>2 DEF Guards
    <3> QED BY <3>2, <3>3 DEF Secured, Made
  <2>2. ASSUME NEW l \in Plate, Select(r, l) PROVE Secure'
    <3>1. op[r].at = "select" /\ \A q \in Request \ {r} : op'[q] = op[q]
      BY <2>2, <1>t DEF Select
    <3>2. UNCHANGED <<safe, captured, train, status, truth, disk, phase, lease, job, pc, made>>
      BY <2>2 DEF Select, store, rows, set, cap, boot, past
    <3>3. \A q \in Request, f \in Made : Guards(q, f) => Guards(q, f)'
      BY <3>1, <3>2 DEF Guards
    <3> QED BY <3>2, <3>3 DEF Secured, Made
  <2>3. CASE Confirm(r)
    <3>1. op[r].at = "correct" /\ (\A q \in Request \ {r} : op'[q] = op[q] /\ job'[q] = job[q])
      BY <2>3, <1>t DEF Confirm, Worker
    <3>2. UNCHANGED <<safe, captured, train, status, truth, disk, phase, lease, pc, made>>
      BY <2>3 DEF Confirm, rows, set, boot, past
    <3>3. \A q \in Request, f \in Made : Guards(q, f) => Guards(q, f)'
      BY <3>1, <3>2 DEF Guards
    <3> QED BY <3>2, <3>3 DEF Secured, Made
  <2>4. CASE Correct(r)
    <3>1. op[r].at = "correct" /\ op'[r].at = "audit" /\ op'[r].pin = op[r].pin /\ job'[r] = made + 1
          /\ \A q \in Request \ {r} : op'[q] = op[q] /\ job'[q] = job[q]
      BY <2>4, <1>t DEF Correct, Worker, OState
    <3>2. UNCHANGED <<captured, disk, phase, lease, pc>> /\ safe' \subseteq safe \cup {made + 1}
          /\ (made + 1 \in safe' \ safe => op[r].pin # None /\ op[r].pin = op[r].crop)
      BY <2>4 DEF Correct, boot
    <3>3. /\ Made' = Made \cup {made + 1} /\ made + 1 \notin Made
          /\ \A f \in Made : truth'[f] = truth[f] /\ train'[f] = train[f]
          /\ train'[made + 1] = "pending"
      BY <2>4, NewRow
    <3>4. \A f \in Made : status'[f] = "confirmed" => status[f] = "confirmed"
      BY <2>4, NewRow
    <3>5. truth'[made + 1] = [event |-> op[r].event, label |-> op[r].label, crop |-> op[r].crop]
      BY <2>4, NewRow
    <3>6. ASSUME NEW f \in safe' \ captured' PROVE Secured(f)'
      <4>1. CASE f \in safe
        <5>1. f \in Made /\ Secured(f)
          BY <3>2, <3>6, <4>1 DEF Secured
        <5>2. \A q \in Request : Guards(q, f) => Guards(q, f)'
          BY <3>1, <3>2, <3>3, <5>1 DEF Guards
        <5> QED BY <3>2, <3>3, <3>4, <5>1, <5>2 DEF Secured
      <4>2. CASE f = made + 1 /\ f \notin safe
        <5>1. op[r].pin \in disk /\ truth'[f].crop = op[r].pin
          BY <3>2, <3>5, <3>6, <4>2 DEF Kept
        <5>2. Guards(r, f)'
          BY <3>1, <4>2, <5>1 DEF Guards
        <5> QED BY <3>2, <3>3, <4>2, <5>1, <5>2 DEF Secured
      <4> QED BY <3>2, <3>6, <4>1, <4>2
    <3> QED BY <3>6
  <2>5. CASE Fails(r)
    <3>1. op[r].at = "correct" /\ \A q \in Request \ {r} : op'[q] = op[q]
      BY <2>5, <1>t DEF Fails
    <3>2. UNCHANGED <<safe, captured, train, status, truth, disk, phase, lease, job, pc, made>>
      BY <2>5 DEF Fails, store, rows, set, cap, boot, past
    <3>3. \A q \in Request, f \in Made : Guards(q, f) => Guards(q, f)'
      BY <3>1, <3>2 DEF Guards
    <3> QED BY <3>2, <3>3 DEF Secured, Made
  <2>6. CASE Audit(r)
    <3>1. UNCHANGED <<captured, train, status, truth, disk, phase, lease, made>>
          /\ \A q \in Request \ {r} : UNCHANGED <<op[q], job[q], pc[q]>>
      BY <2>6, <1>t DEF Audit, store, rows, set, boot, Worker
    <3>2. CASE op' = [op EXCEPT ![r].at = "capture"] /\ pc' = [pc EXCEPT ![r] = "lease"]
               /\ UNCHANGED <<job, safe>>
      <4>1. op'[r].at = "capture" /\ op'[r].pin = op[r].pin /\ pc'[r] = "lease"
        BY <3>2, <1>t DEF OState, Worker
      <4>2. \A q \in Request, f \in Made : Guards(q, f) => Guards(q, f)'
        BY <3>1, <3>2, <4>1 DEF Guards
      <4> QED BY <3>1, <3>2, <4>2 DEF Secured, Made
    <3>3. CASE safe' = safe \ {job[r]}
      <4>1. \A q \in Request, f \in Made \ {job[r]} : Guards(q, f) => Guards(q, f)'
        BY <3>1 DEF Guards
      <4> QED BY <3>1, <3>3, <4>1 DEF Secured, Made
    <3> QED BY <2>6, <3>2, <3>3 DEF Audit
  <2> QED BY <1>2, <2>1, <2>2, <2>3, <2>4, <2>5, <2>6 DEF Operator
<1>3. ASSUME NEW w \in Worker, Capture(w) PROVE Secure'
  <2>1. CASE Lease(w)
    <3>1. UNCHANGED <<safe, captured, train, status, truth, disk, phase, job, op, made>>
          /\ (\A v \in Worker \ {w} : pc'[v] = pc[v]) /\ lease \subseteq lease'
      BY <2>1, <1>t DEF Lease, store, rows, set, boot, past
    <3>2. Pending(job[w]) /\ truth[job[w]].crop \in disk => job[w] \in lease'
      BY <2>1 DEF Lease
    <3>3. ASSUME NEW f \in safe \ captured PROVE Secured(f)'
      <4>1. ASSUME NEW q \in Request, status[f] = "confirmed", Guards(q, f)
            PROVE  f \in lease' \/ Guards(q, f)'
        <5>1. CASE q = w
          BY <3>1, <3>2, <3>3, <4>1, <5>1 DEF Guards, Secured, Pending, Confirmed, Made
        <5>2. CASE q # w
          BY <3>1, <4>1, <5>2 DEF Guards, Worker
        <5> QED BY <5>1, <5>2
      <4> QED BY <3>1, <3>3, <4>1 DEF Secured, Made
    <3> QED BY <3>1, <3>3
  <2>2. CASE LeaseFails(w)
    <3>1. UNCHANGED <<captured, train, status, truth, disk, phase, lease, made>>
          /\ \A q \in Request \ {w} : UNCHANGED <<op[q], job[q], pc[q]>>
      BY <2>2, <1>t DEF LeaseFails, store, rows, set, boot, Worker
    <3>2. safe' \subseteq safe /\ (job[w] \in safe' => job[w] \in lease)
      BY <2>2 DEF LeaseFails
    <3>3. \A f \in safe', q \in Request : Guards(q, f) => f \in lease \/ Guards(q, f)'
      BY <3>1, <3>2 DEF Guards
    <3> QED BY <3>1, <3>2, <3>3 DEF Secured, Made
  <2>3. CASE Look(w)
    <3>1. pc[w] = "look" /\ (\A v \in Worker \ {w} : pc'[v] = pc[v])
      BY <2>3, <1>t DEF Look
    <3>2. UNCHANGED <<safe, captured, status, truth, disk, phase, lease, job, op, made>>
      BY <2>3 DEF Look, store, rows, boot, past
    <3>3. \A q \in Request, f \in Made : Guards(q, f) => Guards(q, f)'
      BY <3>1, <3>2, <1>t DEF Guards, Placed, Worker
    <3>4. \A f \in safe \ captured : train'[f] = train[f]
      BY <2>3, <1>t DEF Look, Confirmed, Secured, Feedback
    <3> QED BY <3>2, <3>3, <3>4 DEF Secured, Made
  <2>4. CASE Lookup(w)
    <3>1. pc[w] # "lease" /\ pc[w] # "idle" /\ \A v \in Worker \ {w} : pc'[v] = pc[v]
      BY <2>4, <1>t DEF Lookup
    <3>2. UNCHANGED <<safe, captured, train, status, truth, disk, phase, lease, job, op, made>>
      BY <2>4 DEF Lookup, store, rows, set, boot, past
    <3>3. \A q \in Request, f \in Made : Guards(q, f) => Guards(q, f)'
      BY <3>1, <3>2, <1>t DEF Guards, Placed, Worker
    <3> QED BY <3>2, <3>3 DEF Secured, Made
  <2>5. CASE Publish(w)
    <3>1. pc[w] = "publish" /\ (\A v \in Worker \ {w} : pc'[v] = pc[v]) /\ job[w] \in Made
      BY <2>5, <1>t DEF Publish
    <3>2. UNCHANGED <<safe, status, truth, disk, phase, lease, job, op, made>>
      BY <2>5 DEF Publish, store, rows, boot
    <3>3. \A q \in Request, f \in Made : Guards(q, f) => Guards(q, f)'
      BY <3>1, <3>2, <1>t DEF Guards, Placed, Worker
    <3>4. captured' = captured \cup {g \in Feedback : train'[g] # "pending" /\ sha'[g] # None}
      BY <2>5 DEF Publish
    <3>5. ASSUME NEW f \in safe' \ captured' PROVE train'[f] = "pending"
      <4>1. f \in Feedback /\ train[f] = "pending" /\ f \notin captured
        BY <1>t, <3>2, <3>4, <3>5 DEF Secured
      <4>2. Pixels[truth[job[w]].crop] # None
        BY <2>5, <3>1, ReadingAssumption DEF Placed
      <4>3. CASE f = job[w]
        <5>1. sha'[f] = Pixels[truth[job[w]].crop]
          BY <2>5, <1>t, <4>1, <4>3 DEF Publish
        <5> QED BY <3>4, <3>5, <4>1, <4>2, <5>1
      <4>4. CASE f # job[w]
        <5>1. sha'[f] = sha[f]
          BY <2>5, <1>t, <4>4 DEF Publish
        <5>2. train'[f] = train[f] \/ sha[f] = Pixels[truth[job[w]].crop]
          BY <2>5, <1>t, <4>1, <4>4 DEF Publish
        <5> QED BY <3>4, <3>5, <4>1, <4>2, <5>1, <5>2
      <4> QED BY <4>3, <4>4
    <3> QED BY <3>2, <3>3, <3>4, <3>5 DEF Secured, Made
  <2>6. CASE CaptureFails(w)
    <3>1. pc[w] # "lease" /\ pc[w] # "idle" /\ \A v \in Worker \ {w} : pc'[v] = pc[v]
      BY <2>6, <1>t DEF CaptureFails
    <3>2. UNCHANGED <<safe, captured, train, status, truth, disk, phase, lease, job, op, made>>
      BY <2>6 DEF CaptureFails, store, rows, set, boot, past
    <3>3. \A q \in Request, f \in Made : Guards(q, f) => Guards(q, f)'
      BY <3>1, <3>2, <1>t DEF Guards, Placed, Worker
    <3> QED BY <3>2, <3>3 DEF Secured, Made
  <2>7. CASE Release(w)
    <3>1. pc[w] = "release"
          /\ \A q \in Request \ {w} : UNCHANGED <<op[q], job[q], pc[q]>>
      BY <2>7, <1>t DEF Release, Worker
    <3>2. UNCHANGED <<safe, captured, train, status, truth, disk, phase, made>>
      BY <2>7 DEF Release, store, rows, set, boot, past
    <3>3. \A f \in lease : f \in lease' \/ (f = job[w] /\ ~Pending(f))
      BY <2>7 DEF Release
    <3>4. \A q \in Request, f \in Made : Guards(q, f) => Guards(q, f)'
      BY <3>1, <3>2 DEF Guards, Placed
    <3> QED BY <3>2, <3>3, <3>4 DEF Secured, Made, Pending, Confirmed
  <2>8. CASE PinRefused(w)
    <3>1. pc[w] = "look" /\ \A v \in Worker \ {w} : pc'[v] = pc[v]
      BY <2>8, <1>t DEF PinRefused
    <3>2. UNCHANGED <<captured, status, truth, disk, phase, lease, job, op, made>>
          /\ safe' = safe \ {job[w]}
      BY <2>8 DEF PinRefused, store, rows, boot
    <3>3. \A q \in Request, f \in Made : Guards(q, f) => Guards(q, f)'
      BY <3>1, <3>2, <1>t DEF Guards, Placed, Worker
    <3>4. \A f \in safe' \ captured : train'[f] = train[f]
      BY <2>8, <3>2, <1>t DEF PinRefused, Secured
    <3> QED BY <3>2, <3>3, <3>4 DEF Secured, Made
  <2> QED BY <1>3, <2>1, <2>2, <2>3, <2>4, <2>5, <2>6, <2>7, <2>8 DEF Capture
<1>4. ASSUME NEW f \in Feedback, LoseSample(f) \/ Recover(f) PROVE Secure'
  <2>1. CASE LoseSample(f)
    <3>1. safe' \subseteq safe
          /\ UNCHANGED <<captured, train, status, truth, disk, phase, lease, job, op, pc, made>>
      BY <2>1 DEF LoseSample, store, rows, cap, boot
    <3> QED BY <3>1 DEF Secured, Guards, Made
  <2>2. CASE Recover(f)
    <3>1. UNCHANGED <<safe, captured, train, status, truth, disk, phase, lease, op, made>>
          /\ \A q \in Request : UNCHANGED <<job[q], pc[q]>>
      BY <2>2, <1>t, WorkerAssumption DEF Recover, store, rows, set, past, Worker
    <3> QED BY <3>1 DEF Secured, Guards, Made
  <2> QED BY <1>4, <2>1, <2>2
<1>5. CASE Crash
  <2>1. UNCHANGED <<safe, captured, train, status, truth, made>> /\ phase' = "reconcile"
    BY <1>5 DEF Crash, rows, set, past
  <2>2. \A x \in disk : Settled(x) => x \in disk'
    BY <1>5, <1>t, ReadingAssumption DEF Crash, Settled, Kept
  <2> QED BY <2>1, <2>2 DEF Secured, Kept, Made
<1>6. CASE Reconcile
  <2>1. UNCHANGED <<safe, captured, status, truth, disk, made>> /\ phase' = "pins"
    BY <1>6 DEF Reconcile, store, rows, past
  <2>2. \A f \in Feedback : train[f] = "pending" => train'[f] = "pending"
    BY <1>6 DEF Reconcile
  <2> QED BY <2>1, <2>2, <1>t DEF Secured, Made
<1>7. CASE RefreshPins
  <2>1. UNCHANGED <<safe, captured, train, status, truth, disk, made>>
        /\ lease' = {f \in Feedback : Pending(f) /\ truth[f].crop \in disk}
    BY <1>7 DEF RefreshPins, store, rows, set, past
  <2> QED BY <2>1, <1>t DEF Secured, Made, Pending, Confirmed
<1>8. CASE Started
  <2>1. UNCHANGED <<safe, captured, train, status, truth, disk, made, lease, job, op, pc>>
        /\ phase = "recover"
    BY <1>8 DEF Started, store, rows, set, past
  <2> QED BY <2>1 DEF Secured, Guards, Made
<1>9. CASE UNCHANGED vars
  BY <1>9, <1>q DEF vars, store, rows, set, cap, boot, past
<1> QED BY <1>1, <1>2, <1>3, <1>4, <1>5, <1>6, <1>7, <1>8, <1>9 DEF Next

\* The invariant holds in every reachable state.
LEMMA Invariant == Spec => []ReviewInv
<1>1. Init => ReviewInv
  <2> SUFFICES ASSUME Init PROVE ReviewInv
    OBVIOUS
  <2> USE DEF Init
  <2>1. EventType
    BY ReadingAssumption DEF EventType, Known, Image
  <2>2. RowType
    BY BoundAssumption DEF RowType, Fact, NoTruth, Known, Image, Training, Feedback
  <2>3. CaptureType
    BY BoundAssumption DEF CaptureType, Worker, Feedback
  <2>4. rd \in [Reading -> RState]
    BY DEF RState, NoReading, Known, Image
  <2>5. op \in [Request -> OState]
    BY BoundAssumption DEF OState, NoRequest, Known, Image
  <2>6. Placed
    BY DEF Placed, NoRequest, Made, Worker
  <2>7. Spoken
    BY DEF Spoken, NoReading
  <2>8. Fresh /\ Found /\ Secure
    BY DEF Fresh, Found, Secure, Worker
  <2>9. Kept
    BY ReadingAssumption DEF Kept, Settled, NoReading, NoRequest, Made
  <2>10. OneCurrentTruth /\ OneTruth
    BY DEF OneCurrentTruth, OneTruth
  <2> QED BY <2>1, <2>2, <2>3, <2>4, <2>5, <2>6, <2>7, <2>8, <2>9, <2>10
          DEF ReviewInv, Base, TypeOK
<1>2. ReviewInv /\ [Next]_vars => ReviewInv'
  BY TypeStep, PlacedStep, SpokenStep, FreshStep, KeptStep, FoundStep, SecureStep,
     OneCurrentTruthStep, OneTruthStep DEF ReviewInv, Base
<1> QED BY <1>1, <1>2, PTL DEF Spec

\* Every variable keeps its type, whatever the operators, the camera and the
\* captures do at the same time.
THEOREM TypeCorrect == Spec => []TypeOK
BY Invariant, PTL DEF ReviewInv, Base

\* However many requests correct an event at once, the unique index and the
\* deletability rule of retention leave it one current truth at most, and a
\* row of plate_events under it.
THEOREM OneTruthPerEvent == Spec => []OneCurrentTruth
BY Invariant, PTL DEF ReviewInv

\* However many captures run, and however often samples are lost and taken
\* again, no crop carries two labels in the training set.
THEOREM OneLabelPerCrop == Spec => []OneTruth
BY Invariant, PTL DEF ReviewInv

\* A confirmation whose request held the crop is never recorded as having no
\* image before its sample was stored.
THEOREM ConfirmationKeepsImage == Spec => []TruthNotLost
<1>1. ReviewInv => TruthNotLost
  BY DEF ReviewInv, Secure, Secured, TruthNotLost
<1> QED BY <1>1, Invariant, PTL
----------------------------------------------------------------------------
(* A decision is kept.  What a reading between its transactions knows of    *)
(* its event is what the event shows, or older than the decision it shows:  *)
(* the commit lock keeps the other readings of the camera away (Serial),    *)
(* and a decision carries the latest time (Timed).                          *)

Busy(i) == rd[i].at \in {"save", "write"}

Serial == \A i, j \in Reading : Busy(i) /\ Busy(j) /\ CameraId[i] = CameraId[j] => i = j

Timed == /\ \A i \in Reading : rd[i].time <= clock /\ rd[i].stamp <= clock
         /\ \A e \in Reading : stamp[e] <= clock

Named == /\ \A e \in reviewed : plate[e] # Unread
         /\ \A i \in Reading : rd[i].reviewed => rd[i].plate # Unread
         /\ \A r \in Request : op[r].at = "correct" => op[r].label \in Plate

Unstored == \A i \in Reading : i \in event => i \in Old \/ rd[i].at = "done"

\* What a refresh i knows of its event e.
Knows(i, e) == /\ e \in event /\ CameraId[e] = CameraId[i]
               /\ \/ rd[i].stamp < stamp[e]
                  \/ e \in reviewed => rd[i].reviewed /\ rd[i].plate = plate[e]

Snapshot == \A i \in Reading : Busy(i) /\ rd[i].target # None => Knows(i, rd[i].target)

DecisionInv == Serial /\ Timed /\ Named /\ Unstored /\ Snapshot

decided == <<event, plate, reviewed, stamp, clock>>

\* What becomes of a reading in its first transaction.
Judged(i, e) ==
    \/ /\ rd'[i].at = "done" /\ rd'[i].stamp = rd[i].stamp
       /\ rd'[i].plate = rd[i].plate /\ rd'[i].reviewed = rd[i].reviewed
    \/ /\ rd'[i].at = "save" /\ rd'[i].target = None /\ rd'[i].reviewed = FALSE
       /\ rd'[i].stamp = rd[i].time
    \/ /\ rd'[i].at = "save" /\ rd'[i].target = e /\ e \in event
       /\ CameraId[e] = CameraId[i]
       /\ rd'[i].plate = rd[i].seen
       /\ e \in reviewed => rd'[i].reviewed
       /\ rd'[i].reviewed => e \in reviewed
       /\ plate[e] \in {Unread, rd[i].seen} /\ rd'[i].stamp \in {stamp[e], rd[i].time}

LEMMA JudgedBy ==
    ASSUME TypeOK, NEW i \in Reading, NEW e \in event \cup {None}, Read(i, e)
    PROVE  /\ rd[i].at = "due" /\ ~Committing(CameraId[i]) /\ UNCHANGED decided
           /\ \A j \in Reading \ {i} : rd'[j] = rd[j]
           /\ rd'[i].time = rd[i].time /\ Judged(i, e)
<1> USE DEF TypeOK
<1>1. rd[i].at = "due" /\ ~Committing(CameraId[i]) /\ UNCHANGED decided
      /\ (\A j \in Reading \ {i} : rd'[j] = rd[j]) /\ (e # None => CameraId[e] = CameraId[i])
  BY DEF Read, decided, store
<1>0. rd[i] \in RState
  OBVIOUS
<1>2. CASE rd' = [rd EXCEPT ![i].at = "done"]
  <2>1. rd'[i] = [rd[i] EXCEPT !.at = "done"]
    BY <1>2
  <2> QED BY <1>0, <1>1, <2>1 DEF Judged, RState
<1>3. CASE rd' = [rd EXCEPT ![i] = [Stored(i) EXCEPT
                       !.plate = IF e = None THEN rd[i].seen ELSE Unread]]
  <2>1. rd'[i] = [Stored(i) EXCEPT !.plate = IF e = None THEN rd[i].seen ELSE Unread]
    BY <1>3
  <2> QED BY <1>1, <2>1 DEF Judged, Stored, NoReading
<1>4. CASE /\ e # None /\ ~Conflicts(i, e)
           /\ rd' = [rd EXCEPT ![i] = [Stored(i) EXCEPT
                       !.target = e, !.plate = rd[i].seen, !.crop = crop[e],
                       !.stamp = IF stamp[e] > rd[i].time THEN stamp[e] ELSE rd[i].time,
                       !.reviewed = e \in reviewed]]
  <2>1. rd'[i] = [Stored(i) EXCEPT
                       !.target = e, !.plate = rd[i].seen, !.crop = crop[e],
                       !.stamp = IF stamp[e] > rd[i].time THEN stamp[e] ELSE rd[i].time,
                       !.reviewed = e \in reviewed]
    BY <1>4
  <2>2. plate[e] \in {Unread, rd[i].seen}
    BY <1>4 DEF Conflicts
  <2> QED BY <1>1, <1>4, <2>1, <2>2 DEF Judged, Stored, NoReading
<1> QED BY <1>1, <1>2, <1>3, <1>4 DEF Read

\* A save leaves everything but the image as it was.
LEMMA SavedAs ==
    ASSUME TypeOK, NEW i \in Reading, Save(i)
    PROVE  /\ rd[i].at = "save" /\ rd'[i].at = "write" /\ UNCHANGED decided
           /\ \A j \in Reading \ {i} : rd'[j] = rd[j]
           /\ rd'[i].time = rd[i].time /\ rd'[i].stamp = rd[i].stamp
           /\ rd'[i].plate = rd[i].plate /\ rd'[i].target = rd[i].target
           /\ rd'[i].reviewed = rd[i].reviewed
<1>1. rd[i] \in RState
  BY DEF TypeOK
<1>2. CASE rd'[i] = [rd[i] EXCEPT !.at = "write"]
  BY <1>1, <1>2 DEF Save, RState, TypeOK, decided
<1>3. ASSUME NEW c \in {i, None}, rd'[i] = [rd[i] EXCEPT !.at = "write", !.crop = c]
      PROVE  /\ rd'[i].at = "write"
             /\ rd'[i].time = rd[i].time /\ rd'[i].stamp = rd[i].stamp
             /\ rd'[i].plate = rd[i].plate /\ rd'[i].target = rd[i].target
             /\ rd'[i].reviewed = rd[i].reviewed
  BY <1>1, <1>3 DEF RState
<1>4. \/ rd'[i] = [rd[i] EXCEPT !.at = "write"]
      \/ \E c \in {i, None} : rd'[i] = [rd[i] EXCEPT !.at = "write", !.crop = c]
  BY DEF Save, TypeOK
<1>5. rd[i].at = "save" /\ UNCHANGED decided
  BY DEF Save, decided
<1>6. ASSUME NEW j \in Reading \ {i} PROVE rd'[j] = rd[j]
  BY DEF Save, TypeOK
<1> QED BY <1>2, <1>3, <1>4, <1>5, <1>6

\* The owner transaction of a reading.
Owned(i) == IF rd[i].target = None THEN i ELSE rd[i].target

LEMMA WrittenAs ==
    ASSUME TypeOK, NEW i \in Reading, Write(i)
    PROVE  /\ rd[i].at = "write" /\ rd'[i].at = "done" /\ UNCHANGED clock
           /\ \A j \in Reading \ {i} : rd'[j] = rd[j]
           /\ rd'[i].time = rd[i].time /\ rd'[i].stamp = rd[i].stamp
           /\ rd'[i].plate = rd[i].plate /\ rd'[i].reviewed = rd[i].reviewed
           /\ Owned(i) \in Reading /\ event' = event \cup {Owned(i)}
           /\ plate'[Owned(i)] = rd[i].plate /\ stamp'[Owned(i)] = rd[i].stamp
           /\ Owned(i) \in reviewed' => rd[i].reviewed
           /\ rd[i].reviewed => Owned(i) \in reviewed'
           /\ \A e \in Reading \ {Owned(i)} :
                 /\ plate'[e] = plate[e] /\ stamp'[e] = stamp[e]
                 /\ e \in reviewed' <=> e \in reviewed
<1>1. rd[i] \in RState /\ Owned(i) \in Reading
  BY DEF TypeOK, RState, Owned
<1>2. rd'[i] = [rd[i] EXCEPT !.at = "done"]
  BY DEF Write, TypeOK
<1> QED BY <1>1, <1>2 DEF Write, TypeOK, EventType, RState, Owned

\* A reading that has to start over.
Restarted(i) == /\ rd'[i].at = "due" /\ rd'[i].time = rd[i].time /\ rd'[i].stamp = 0
                /\ rd'[i].reviewed = FALSE /\ rd'[i].target = None

LEMMA RestartedBy ==
    ASSUME TypeOK
    PROVE  /\ \A i \in Reading : WriteFails(i) =>
                 /\ UNCHANGED decided /\ rd[i].at = "write" /\ Restarted(i)
                 /\ \A j \in Reading \ {i} : rd'[j] = rd[j]
           /\ Crash => /\ UNCHANGED decided
                       /\ \A i \in Reading : \/ Busy(i) /\ Restarted(i)
                                             \/ ~Busy(i) /\ rd'[i] = rd[i]
<1>1. ASSUME NEW i \in Reading, rd'[i] = Again(i) PROVE Restarted(i)
  BY <1>1 DEF Again, NoReading, Restarted
<1>2. ASSUME NEW i \in Reading, WriteFails(i)
      PROVE  UNCHANGED decided /\ rd[i].at = "write" /\ rd'[i] = Again(i)
             /\ \A j \in Reading \ {i} : rd'[j] = rd[j]
  BY <1>2 DEF WriteFails, TypeOK, decided
<1>3. ASSUME Crash PROVE UNCHANGED decided
           /\ \A i \in Reading : \/ Busy(i) /\ rd'[i] = Again(i)
                                 \/ ~Busy(i) /\ rd'[i] = rd[i]
  BY <1>3 DEF Crash, Busy, decided
<1> QED BY <1>1, <1>2, <1>3

\* The steps that change events or readings.
LEMMA Cases ==
    ASSUME TypeOK, Placed, [Next]_vars
    PROVE  \/ \E i \in Reading, s \in Known : Emit(i, s)
           \/ \E i \in Reading, e \in event \cup {None} : Read(i, e)
           \/ \E i \in Reading : Save(i) \/ Write(i) \/ WriteFails(i)
           \/ \E e \in Reading : Retention(e)
           \/ \E r \in Request : op[r].at = "correct" /\ Decide(r) /\ UNCHANGED <<event, rd>>
           \/ Crash
           \/ UNCHANGED <<decided, rd>>
<1> USE DEF decided, store, rows, set, cap, boot, past
<1>1. ASSUME NEW i \in Reading, Expire(i) PROVE UNCHANGED <<decided, rd>>
  BY <1>1 DEF Expire
<1>2. ASSUME NEW r \in Request, Operator(r)
      PROVE  \/ op[r].at = "correct" /\ Decide(r) /\ UNCHANGED <<event, rd>>
             \/ UNCHANGED <<decided, rd>>
  BY <1>2 DEF Operator, Retain, Select, Confirm, Correct, Fails, Audit
<1>3. ASSUME NEW w \in Worker, Capture(w) PROVE UNCHANGED <<decided, rd>>
  BY <1>3 DEF Lease, LeaseFails, Look, PinRefused, Lookup, Publish, CaptureFails, Release, Capture
<1>4. ASSUME NEW f \in Feedback, LoseSample(f) \/ Recover(f) PROVE UNCHANGED <<decided, rd>>
  BY <1>4 DEF LoseSample, Recover
<1>5. CASE Reconcile \/ RefreshPins \/ Started \/ UNCHANGED vars
  BY <1>5 DEF Reconcile, RefreshPins, Started, vars
<1> QED BY <1>1, <1>2, <1>3, <1>4, <1>5 DEF Next, Camera

\* A label is chosen among the plates.
LEMMA LabelStep ==
    ASSUME TypeOK, Named, [Next]_vars
    PROVE  \A r \in Request : op'[r].at = "correct" => op'[r].label \in Plate
<1> USE DEF TypeOK, OState, Named
<1>q. ASSUME UNCHANGED op PROVE \A r \in Request : op'[r].at = "correct" => op'[r].label \in Plate
  BY <1>q
<1>z. ASSUME NEW q \in Request, op' = [op EXCEPT ![q] = NoRequest]
      PROVE \A r \in Request : op'[r].at = "correct" => op'[r].label \in Plate
  BY <1>z DEF NoRequest
<1>1. ASSUME NEW i \in Reading, Camera(i) \/ Expire(i) \/ Retention(i)
      PROVE \A r \in Request : op'[r].at = "correct" => op'[r].label \in Plate
  BY <1>1, <1>q DEF Emit, Read, Save, Write, WriteFails, Expire, Retention, Camera,
     store, rows, set, cap, boot, past
<1>2. ASSUME NEW q \in Request, Operator(q)
      PROVE \A r \in Request : op'[r].at = "correct" => op'[r].label \in Plate
  <2>1. ASSUME NEW e \in event, Retain(q, e)
        PROVE \A r \in Request : op'[r].at = "correct" => op'[r].label \in Plate
    BY <2>1 DEF Retain, NoRequest
  <2>2. ASSUME NEW l \in Plate, Select(q, l)
        PROVE \A r \in Request : op'[r].at = "correct" => op'[r].label \in Plate
    <3>1. op'[q].label = l /\ \A r \in Request \ {q} : op'[r] = op[r]
      BY <2>2 DEF Select
    <3> QED BY <3>1
  <2> QED BY <1>2, <2>1, <2>2, <1>z DEF Operator, Confirm, Correct, Fails, Audit
<1>3. ASSUME NEW w \in Worker, Capture(w)
      PROVE \A r \in Request : op'[r].at = "correct" => op'[r].label \in Plate
  BY <1>3, <1>q, <1>z DEF Lease, LeaseFails, Look, PinRefused, Lookup, Publish, CaptureFails, Release,
     Capture, store, rows, set, cap, boot, past
<1>4. ASSUME NEW f \in Feedback, LoseSample(f) \/ Recover(f)
      PROVE \A r \in Request : op'[r].at = "correct" => op'[r].label \in Plate
  BY <1>4, <1>q DEF LoseSample, Recover, store, rows, set, cap, boot, past
<1>5. CASE Crash
  BY <1>5 DEF Crash, NoRequest
<1>6. CASE Reconcile \/ RefreshPins \/ Started \/ UNCHANGED vars
  BY <1>6, <1>q DEF Reconcile, RefreshPins, Started, vars, store, rows, set, cap, boot, past
<1> QED BY <1>1, <1>2, <1>3, <1>4, <1>5, <1>6 DEF Next

\* An observation, and a decision: the only steps that move the clock.
LEMMA EmittedAs ==
    ASSUME TypeOK, NEW i \in Reading, NEW s \in Known, Emit(i, s)
    PROVE  /\ i \notin Old /\ rd[i].at = "none" /\ rd'[i].at = "due" /\ clock' = clock + 1
           /\ UNCHANGED <<event, plate, reviewed, stamp>>
           /\ \A j \in Reading \ {i} : rd'[j] = rd[j]
           /\ rd'[i].time = clock + 1 /\ rd'[i].stamp = rd[i].stamp
           /\ rd'[i].plate = rd[i].plate /\ rd'[i].reviewed = rd[i].reviewed
<1>1. rd[i] \in RState
  BY DEF TypeOK
<1>2. rd'[i] = [rd[i] EXCEPT !.at = "due", !.seen = s, !.time = clock + 1]
  BY DEF Emit, TypeOK
<1>3. /\ rd'[i].at = "due" /\ rd'[i].time = clock + 1 /\ rd'[i].stamp = rd[i].stamp
      /\ rd'[i].plate = rd[i].plate /\ rd'[i].reviewed = rd[i].reviewed
  BY <1>1, <1>2 DEF RState
<1>4. \A j \in Reading \ {i} : rd'[j] = rd[j]
  BY DEF Emit, TypeOK
<1> QED BY <1>3, <1>4 DEF Emit, store

LEMMA DecidedAs ==
    ASSUME TypeOK, Placed, NEW r \in Request, op[r].at = "correct", Decide(r)
    PROVE  /\ op[r].event \in Reading /\ clock' = clock + 1
           /\ reviewed' = reviewed \cup {op[r].event}
           /\ plate'[op[r].event] = op[r].label /\ stamp'[op[r].event] = clock + 1
           /\ \A e \in Reading \ {op[r].event} : plate'[e] = plate[e] /\ stamp'[e] = stamp[e]
BY DEF Decide, TypeOK, EventType, Placed

\* A camera's readings commit one after the other.
LEMMA SerialStep == TypeOK /\ Placed /\ Serial /\ [Next]_vars => Serial'
<1> SUFFICES ASSUME TypeOK, Placed, Serial, [Next]_vars PROVE Serial'
  OBVIOUS
<1> USE DEF Serial, Busy
<1>q. ASSUME \A i \in Reading : Busy(i)' => Busy(i) PROVE Serial'
  BY <1>q
<1>1. ASSUME NEW i \in Reading, NEW s \in Known, Emit(i, s) PROVE Serial'
  BY <1>1, <1>q, EmittedAs
<1>2. ASSUME NEW i \in Reading, NEW e \in event \cup {None}, Read(i, e) PROVE Serial'
  <2>1. \A j \in Reading : CameraId[j] = CameraId[i] => ~Busy(j)
    BY <1>2, JudgedBy DEF Committing
  <2> QED BY <1>2, <2>1, JudgedBy
<1>3. ASSUME NEW i \in Reading, Save(i) \/ Write(i) \/ WriteFails(i) PROVE Serial'
  <2>1. CASE Save(i)
    BY <2>1, <1>q, SavedAs
  <2>2. CASE Write(i)
    BY <2>2, <1>q, WrittenAs
  <2>3. CASE WriteFails(i)
    BY <2>3, <1>q, RestartedBy DEF Restarted
  <2> QED BY <1>3, <2>1, <2>2, <2>3
<1>4. CASE Crash
  BY <1>4, <1>q, RestartedBy DEF Restarted
<1>5. CASE UNCHANGED rd
  BY <1>5, <1>q
<1> QED BY <1>1, <1>2, <1>3, <1>4, <1>5, Cases DEF Retention

\* Nothing carries a time that is still to come.
LEMMA TimedStep == TypeOK /\ Placed /\ Timed /\ [Next]_vars => Timed'
<1> SUFFICES ASSUME TypeOK, Placed, Timed, [Next]_vars PROVE Timed'
  OBVIOUS
<1> USE DEF Timed
<1>t. /\ clock \in Nat /\ \A e \in Reading : stamp[e] \in Nat
      /\ \A i \in Reading : rd[i].time \in Nat /\ rd[i].stamp \in Nat
  BY DEF TypeOK, EventType, RState
<1>1. ASSUME NEW i \in Reading, NEW s \in Known, Emit(i, s) PROVE Timed'
  BY <1>1, <1>t, EmittedAs
<1>2. ASSUME NEW i \in Reading, NEW e \in event \cup {None}, Read(i, e) PROVE Timed'
  <2>1. rd'[i].stamp <= clock
    <3>1. Judged(i, e) /\ rd[i].time <= clock /\ rd[i].stamp <= clock
      BY <1>2, JudgedBy
    <3>2. e \in event => stamp[e] <= clock
      BY DEF TypeOK, EventType
    <3> QED BY <3>1, <3>2 DEF Judged
  <2> QED BY <1>2, <1>t, <2>1, JudgedBy DEF decided
<1>3. ASSUME NEW i \in Reading, Save(i) PROVE Timed'
  BY <1>3, <1>t, SavedAs DEF decided
<1>4. ASSUME NEW i \in Reading, Write(i) PROVE Timed'
  BY <1>4, <1>t, WrittenAs
<1>5. ASSUME NEW i \in Reading, WriteFails(i) PROVE Timed'
  <2>1. UNCHANGED decided /\ Restarted(i) /\ \A j \in Reading \ {i} : rd'[j] = rd[j]
    BY <1>5, RestartedBy
  <2> QED BY <1>t, <2>1 DEF Restarted, decided
<1>6. ASSUME NEW r \in Request, op[r].at = "correct", Decide(r), UNCHANGED rd PROVE Timed'
  BY <1>6, <1>t, DecidedAs
<1>7. CASE Crash
  <2>1. UNCHANGED decided /\ \A i \in Reading : Restarted(i) \/ rd'[i] = rd[i]
    BY <1>7, RestartedBy
  <2> QED BY <1>t, <2>1 DEF Restarted, decided
<1>8. CASE UNCHANGED <<stamp, clock, rd>>
  BY <1>8
<1> QED BY <1>1, <1>2, <1>3, <1>4, <1>5, <1>6, <1>7, <1>8, Cases DEF Retention, decided

\* An operator's decision names a plate.
LEMMA NamedStep == TypeOK /\ Placed /\ Named /\ [Next]_vars => Named'
<1> SUFFICES ASSUME TypeOK, Placed, Named, [Next]_vars PROVE Named'
  OBVIOUS
<1> DEFINE Events == \A e \in reviewed : plate[e] # Unread
           Readings == \A i \in Reading : rd[i].reviewed => rd[i].plate # Unread
<1>0. Events /\ Readings /\ reviewed \subseteq Reading
  BY DEF Named, TypeOK, EventType
<1> SUFFICES Events' /\ Readings'
  BY LabelStep DEF Named
<1>1. ASSUME NEW i \in Reading, NEW s \in Known, Emit(i, s) PROVE Events' /\ Readings'
  BY <1>0, <1>1, EmittedAs
<1>2. ASSUME NEW i \in Reading, NEW e \in event \cup {None}, Read(i, e) PROVE Events' /\ Readings'
  <2>1. rd'[i].reviewed => rd'[i].plate # Unread
    <3>1. Judged(i, e) /\ (rd[i].reviewed => rd[i].plate # Unread)
      BY <1>0, <1>2, JudgedBy
    <3>2. e \in reviewed => plate[e] # Unread
      BY <1>0
    <3> QED BY <3>1, <3>2 DEF Judged
  <2> QED BY <1>0, <1>2, <2>1, JudgedBy DEF decided
<1>3. ASSUME NEW i \in Reading, Save(i) PROVE Events' /\ Readings'
  BY <1>0, <1>3, SavedAs DEF decided
<1>4. ASSUME NEW i \in Reading, Write(i) PROVE Events' /\ Readings'
  <2>1. reviewed' \subseteq Reading
    <3>1. reviewed' = reviewed \cup {Owned(i)} \/ reviewed' = reviewed \ {Owned(i)}
      BY <1>4 DEF Write, Owned
    <3> QED BY <1>0, <1>4, <3>1, WrittenAs
  <2> QED BY <1>0, <1>4, <2>1, WrittenAs
<1>5. ASSUME NEW i \in Reading, WriteFails(i) PROVE Events' /\ Readings'
  BY <1>0, <1>5, RestartedBy DEF Restarted, decided
<1>6. ASSUME NEW r \in Request, op[r].at = "correct", Decide(r), UNCHANGED rd
      PROVE  Events' /\ Readings'
  <2>1. op[r].label # Unread
    BY <1>6, ReadingAssumption DEF Named
  <2> QED BY <1>0, <1>6, <2>1, DecidedAs
<1>7. CASE Crash
  BY <1>0, <1>7, RestartedBy DEF Restarted, decided
<1>8. CASE UNCHANGED <<plate, reviewed, rd>>
  BY <1>0, <1>8
<1> QED BY <1>1, <1>2, <1>3, <1>4, <1>5, <1>6, <1>7, <1>8, Cases DEF Retention, decided

\* The event that a reading would insert is not there before.
LEMMA UnstoredStep == TypeOK /\ Placed /\ Unstored /\ Snapshot /\ [Next]_vars => Unstored'
<1> SUFFICES ASSUME TypeOK, Placed, Unstored, Snapshot, [Next]_vars PROVE Unstored'
  OBVIOUS
<1> USE DEF Unstored
<1>q. ASSUME event' \subseteq event, \A i \in Reading : rd[i].at = "done" => rd'[i].at = "done"
      PROVE  Unstored'
  BY <1>q
<1>1. ASSUME NEW i \in Reading, NEW s \in Known, Emit(i, s) PROVE Unstored'
  BY <1>1, <1>q, EmittedAs
<1>2. ASSUME NEW i \in Reading, NEW e \in event \cup {None}, Read(i, e) PROVE Unstored'
  BY <1>2, <1>q, JudgedBy DEF decided
<1>3. ASSUME NEW i \in Reading, Save(i) \/ WriteFails(i) PROVE Unstored'
  BY <1>3, <1>q, SavedAs, RestartedBy DEF Restarted, decided
<1>4. ASSUME NEW i \in Reading, Write(i) PROVE Unstored'
  <2>1. Owned(i) \in event \/ Owned(i) = i
    BY <1>4, WrittenAs DEF Owned, Snapshot, Knows, Busy
  <2> QED BY <1>4, <2>1, WrittenAs
<1>5. ASSUME NEW e \in Reading, Retention(e) PROVE Unstored'
  BY <1>5, <1>q DEF Retention
<1>6. CASE Crash
  BY <1>6, <1>q, RestartedBy DEF Busy, decided
<1>7. CASE UNCHANGED <<event, rd>>
  BY <1>7, <1>q
<1> QED BY <1>1, <1>2, <1>3, <1>4, <1>5, <1>6, <1>7, Cases DEF decided

\* What a refresh has read stays true of its event, or a decision overtakes it.
LEMMA SnapshotStep == TypeOK /\ Placed /\ DecisionInv /\ [Next]_vars => Snapshot'
<1> SUFFICES ASSUME TypeOK, Placed, DecisionInv, [Next]_vars PROVE Snapshot'
  OBVIOUS
<1> USE DEF DecisionInv, Snapshot, Busy
<1>t. /\ clock \in Nat /\ \A e \in Reading : stamp[e] \in Nat
      /\ \A i \in Reading : rd[i].time \in Nat /\ rd[i].stamp \in Nat
      /\ event \subseteq Reading /\ reviewed \subseteq Reading
  BY DEF TypeOK, EventType, RState
<1>q. ASSUME NEW i \in Reading, Busy(i), rd'[i].target = rd[i].target, rd[i].target # None,
             rd'[i].stamp = rd[i].stamp, rd'[i].reviewed = rd[i].reviewed,
             rd'[i].plate = rd[i].plate, UNCHANGED <<event, plate, reviewed, stamp>>
      PROVE  Knows(i, rd[i].target)'
  BY <1>q DEF Knows
<1>1. ASSUME NEW i \in Reading, NEW s \in Known, Emit(i, s) PROVE Snapshot'
  BY <1>1, <1>q, EmittedAs
<1>2. ASSUME NEW i \in Reading, NEW e \in event \cup {None}, Read(i, e) PROVE Snapshot'
  <2>1. ASSUME rd'[i].at = "save", rd'[i].target # None PROVE Knows(i, rd[i].target)'
    <3>1. rd'[i].target = e /\ e \in event /\ CameraId[e] = CameraId[i]
          /\ rd'[i].plate = rd[i].seen /\ (e \in reviewed => rd'[i].reviewed)
          /\ plate[e] \in {Unread, rd[i].seen} /\ UNCHANGED decided
      BY <1>2, <2>1, JudgedBy DEF Judged
    <3>2. e \in reviewed => plate[e] = rd[i].seen
      BY <3>1 DEF Named
    <3>3. e \in event' /\ (e \in reviewed' => rd'[i].reviewed /\ rd'[i].plate = plate'[e])
      BY <3>1, <3>2 DEF decided
    <3> QED BY <3>1, <3>3 DEF Knows
  <2>2. rd'[i].at \in {"save", "done"}
    BY <1>2, JudgedBy DEF Judged
  <2>3. ASSUME NEW j \in Reading \ {i}, Busy(j)', rd'[j].target # None
        PROVE  Knows(j, rd[j].target)'
    <3>1. rd'[j] = rd[j] /\ UNCHANGED decided
      BY <1>2, JudgedBy
    <3> QED BY <2>3, <3>1, <1>q DEF decided
  <2> QED BY <2>1, <2>2, <2>3
<1>3. ASSUME NEW i \in Reading, Save(i) PROVE Snapshot'
  BY <1>3, <1>q, SavedAs DEF decided
<1>4. ASSUME NEW i \in Reading, Write(i) PROVE Snapshot'
  <2>1. ASSUME NEW j \in Reading, Busy(j)', rd'[j].target # None PROVE Knows(j, rd[j].target)'
    <3>1. j # i /\ rd'[j] = rd[j] /\ Busy(j) /\ Knows(j, rd[j].target)
      BY <1>4, <2>1, WrittenAs
    <3>2. CameraId[Owned(i)] = CameraId[i]
      BY <1>4, WrittenAs DEF Owned, Knows
    <3>3. Owned(i) # rd[j].target
      BY <1>4, <3>1, <3>2, WrittenAs DEF Serial, Knows
    <3>4. LET e == rd[j].target
          IN  /\ e \in event' /\ CameraId[e] = CameraId[j] /\ stamp'[e] = stamp[e]
              /\ plate'[e] = plate[e] /\ (e \in reviewed' <=> e \in reviewed)
      BY <1>4, <1>t, <3>1, <3>3, WrittenAs DEF Knows
    <3> QED BY <3>1, <3>4 DEF Knows
  <2> QED BY <2>1 DEF Snapshot
<1>5. ASSUME NEW i \in Reading, WriteFails(i) PROVE Snapshot'
  BY <1>5, <1>q, RestartedBy DEF Restarted, decided
<1>6. ASSUME NEW e \in Reading, Retention(e) PROVE Snapshot'
  BY <1>6 DEF Retention
<1>7. ASSUME NEW r \in Request, op[r].at = "correct", Decide(r), UNCHANGED <<event, rd>>
      PROVE  Snapshot'
  <2>1. ASSUME NEW i \in Reading, Busy(i), rd[i].target # None PROVE Knows(i, rd[i].target)'
    <3>1. Knows(i, rd[i].target) /\ rd[i].target \in Reading /\ rd[i].stamp < clock + 1
      BY <1>t, <2>1 DEF Knows, Timed
    <3>2. CASE rd[i].target = op[r].event
      BY <1>7, <3>1, <3>2, DecidedAs DEF Knows
    <3>3. CASE rd[i].target # op[r].event
      BY <1>7, <3>1, <3>3, DecidedAs DEF Knows
    <3> QED BY <3>2, <3>3
  <2> QED BY <1>7, <2>1
<1>8. CASE Crash
  BY <1>8, <1>q, RestartedBy DEF Restarted, decided
<1>9. CASE UNCHANGED <<decided, rd>>
  BY <1>9, <1>q DEF decided
<1> QED BY <1>1, <1>2, <1>3, <1>4, <1>5, <1>6, <1>7, <1>8, <1>9, Cases

LEMMA DecisionInvariant == Spec => []DecisionInv
<1>1. Init => DecisionInv
  BY ReadingAssumption, BoundAssumption DEF Init, DecisionInv, Serial, Timed, Named, Unstored,
     Snapshot, Busy, NoReading, NoRequest
<1>2. ReviewInv /\ DecisionInv /\ [Next]_vars => DecisionInv'
  BY SerialStep, TimedStep, NamedStep, UnstoredStep, SnapshotStep DEF ReviewInv, Base, DecisionInv
<1> QED BY <1>1, <1>2, Invariant, PTL DEF Spec

\* What an operator decided about an event is changed by an operator, or by a
\* refresh that had read the event before the decision: a reading that comes
\* after it, is retried, or waits for the commit lock writes back what was
\* decided (_persist, correct_event_plate).
THEOREM DecisionsAreKept == Spec => DecisionKept
<1>1. ASSUME ReviewInv, DecisionInv, [Next]_vars, NEW e \in reviewed \cap event',
             e \notin reviewed' \/ plate'[e] # plate[e]
      PROVE  \/ \E r \in Request : op[r].at = "correct" /\ op[r].event = e
             \/ \E i \in Reading : /\ rd[i].at = "write" /\ rd[i].target = e
                                   /\ rd[i].stamp < stamp[e]
  <2>1. TypeOK /\ Placed /\ e \in Reading /\ e \in event
    BY <1>1 DEF ReviewInv, Base, TypeOK, EventType
  <2>2. ASSUME UNCHANGED <<plate, reviewed>> PROVE FALSE
    BY <1>1, <2>2
  <2>3. ASSUME NEW i \in Reading, Write(i)
        PROVE rd[i].at = "write" /\ rd[i].target = e /\ rd[i].stamp < stamp[e]
    <3>1. Owned(i) = e /\ rd[i].at = "write"
      BY <1>1, <2>1, <2>3, WrittenAs
    <3>2. i \notin event
      BY <1>1, <2>1, <3>1 DEF DecisionInv, Unstored, ReviewInv, Kept
    <3>3. rd[i].target = e /\ rd[i].target # None
      BY <2>1, <3>1, <3>2 DEF Owned
    <3> QED BY <1>1, <2>1, <2>3, <3>1, <3>3, WrittenAs DEF DecisionInv, Snapshot, Busy, Knows
  <2>4. ASSUME NEW r \in Request, op[r].at = "correct", Decide(r) PROVE op[r].event = e
    BY <1>1, <2>1, <2>4, DecidedAs
  <2>5. \A i \in Reading, s \in Known : ~Emit(i, s)
    BY <2>1, <2>2, EmittedAs
  <2>6. \A i \in Reading, x \in event \cup {None} : ~Read(i, x)
    BY <2>1, <2>2, JudgedBy DEF decided
  <2>7. \A i \in Reading : ~Save(i) /\ ~WriteFails(i) /\ ~Retention(i)
    BY <2>1, <2>2, SavedAs, RestartedBy DEF Retention, decided
  <2>8. ~Crash
    BY <2>1, <2>2, RestartedBy DEF decided
  <2> QED BY <1>1, <2>1, <2>2, <2>3, <2>4, <2>5, <2>6, <2>7, <2>8, Cases DEF decided
<1>2. ReviewInv /\ DecisionInv /\ [Next]_vars =>
        [\A e \in reviewed \cap event' :
          (e \notin reviewed' \/ plate'[e] # plate[e]) =>
              \/ \E r \in Request : op[r].at = "correct" /\ op[r].event = e
              \/ \E i \in Reading : /\ rd[i].at = "write" /\ rd[i].target = e
                                    /\ rd[i].stamp < stamp[e]]_vars
  BY <1>1
<1> QED BY <1>2, Invariant, DecisionInvariant, PTL DEF Spec, DecisionKept
----------------------------------------------------------------------------
(* The rows of events implement EventRecord: a reading that is between its  *)
(* transactions is the plan of its event.                                   *)

Planned(e) == {[plate |-> rd[i].plate, reviewed |-> rd[i].reviewed] : i \in Refreshing(e)}

\* Whoever is not a refresh of e, before and after, does not matter to its plan.
LEMMA SamePlan ==
    ASSUME NEW e \in Reading,
           \A i \in Reading : i \in Refreshing(e)' <=> i \in Refreshing(e),
           \A i \in Refreshing(e) : rd'[i].plate = rd[i].plate /\ rd'[i].reviewed = rd[i].reviewed
    PROVE  Planned(e)' = Planned(e)
<1>1. Refreshing(e)' = Refreshing(e)
  BY DEF Refreshing
<1> QED BY <1>1 DEF Planned

\* A refresh carries over the decision that its event shows.
LEMMA ReadReview ==
    ASSUME TypeOK, NEW i \in Reading, NEW x \in event \cup {None}, Read(i, x),
           rd'[i].at = "save", rd'[i].target # None
    PROVE  rd'[i].reviewed = (x \in reviewed)
<1> USE DEF TypeOK
<1>1. CASE rd' = [rd EXCEPT ![i].at = "done"]
  BY <1>1 DEF RState
<1>2. CASE rd' = [rd EXCEPT ![i] = [Stored(i) EXCEPT
                       !.plate = IF x = None THEN rd[i].seen ELSE Unread]]
  BY <1>2 DEF Stored, NoReading
<1>3. CASE rd' = [rd EXCEPT ![i] = [Stored(i) EXCEPT
                       !.target = x, !.plate = rd[i].seen, !.crop = crop[x],
                       !.stamp = IF stamp[x] > rd[i].time THEN stamp[x] ELSE rd[i].time,
                       !.reviewed = x \in reviewed]]
  BY <1>3 DEF Stored, NoReading
<1> QED BY <1>1, <1>2, <1>3 DEF Read

LEMMA RecordInit == Init => Record!Init
<1> SUFFICES ASSUME Init PROVE Record!Init
  OBVIOUS
<1>1. \A e \in Reading : Refreshing(e) = {}
  BY DEF Init, Refreshing, NoReading
<1>2. event \subseteq Reading /\ reviewed = {} /\ plate \in [Reading -> Plate \cup {Unread}]
  BY ReadingAssumption DEF Init
<1> QED BY <1>1, <1>2 DEF Record!Init, Record!Known

LEMMA RecordNext == ReviewInv /\ DecisionInv /\ [Next]_vars => [Record!Next]_(Record!vars)
<1> SUFFICES ASSUME ReviewInv, DecisionInv, [Next]_vars PROVE [Record!Next]_(Record!vars)
  OBVIOUS
<1>t. TypeOK /\ Placed /\ Spoken /\ None \notin Reading
  BY ReadingAssumption DEF ReviewInv, Base
<1>q. ASSUME UNCHANGED <<event, plate, reviewed>>, \A e \in Reading : Planned(e)' = Planned(e)
      PROVE  [Record!Next]_(Record!vars)
  BY <1>q DEF Record!vars, Planned
<1>r. ASSUME UNCHANGED <<event, plate, reviewed>>, NEW i \in Reading,
             \A j \in Reading \ {i} : rd'[j] = rd[j],
             ~Busy(i) \/ (rd'[i].plate = rd[i].plate /\ rd'[i].reviewed = rd[i].reviewed),
             \A e \in Reading : i \in Refreshing(e)' <=> i \in Refreshing(e)
      PROVE  [Record!Next]_(Record!vars)
  <2>1. ASSUME NEW e \in Reading PROVE Planned(e)' = Planned(e)
    <3>1. \A j \in Reading : j \in Refreshing(e)' <=> j \in Refreshing(e)
      BY <1>r DEF Refreshing
    <3>2. \A j \in Refreshing(e) : rd'[j].plate = rd[j].plate /\ rd'[j].reviewed = rd[j].reviewed
      BY <1>r DEF Refreshing, Busy
    <3> QED BY <3>1, <3>2, SamePlan
  <2> QED BY <1>r, <2>1, <1>q
<1>1. ASSUME NEW i \in Reading, NEW s \in Known, Emit(i, s) PROVE [Record!Next]_(Record!vars)
  BY <1>1, <1>r, <1>t, EmittedAs DEF Refreshing, Busy
<1>2. ASSUME NEW i \in Reading, NEW x \in event \cup {None}, Read(i, x)
      PROVE  [Record!Next]_(Record!vars)
  <2>1. /\ rd[i].at = "due" /\ ~Committing(CameraId[i]) /\ UNCHANGED <<event, plate, reviewed>>
        /\ \A j \in Reading \ {i} : rd'[j] = rd[j]
        /\ Judged(i, x)
    BY <1>2, <1>t, JudgedBy DEF decided
  <2>2. CASE rd'[i].at = "done" \/ rd'[i].target = None
    BY <2>1, <2>2, <1>r, <1>t DEF Refreshing, Busy
  <2>3. CASE /\ rd'[i].at = "save" /\ rd'[i].target = x /\ x \in event /\ CameraId[x] = CameraId[i]
             /\ rd'[i].plate = rd[i].seen /\ rd'[i].reviewed = (x \in reviewed)
             /\ plate[x] \in {Unread, rd[i].seen}
    <3>1. x \in Reading /\ rd[i].seen \in Known
      BY <1>t, <2>3 DEF TypeOK, EventType, RState
    <3>2. Refreshing(x) = {}
      <4> SUFFICES ASSUME NEW j \in Refreshing(x) PROVE FALSE
        OBVIOUS
      <4>1. j \in Reading /\ Busy(j) /\ rd[j].target = x
        BY DEF Refreshing, Busy
      <4>2. CameraId[x] = CameraId[j]
        BY <4>1, <3>1, <1>t DEF DecisionInv, Snapshot, Knows
      <4> QED BY <2>1, <2>3, <4>1, <4>2 DEF Committing, Busy
    <3>3. Refreshing(x)' = {i}
      BY <2>1, <2>3, <3>2 DEF Refreshing
    <3>4. Planned(x) = {} /\ Planned(x)' = {[plate |-> rd[i].seen, reviewed |-> x \in reviewed]}
      BY <2>3, <3>2, <3>3 DEF Planned
    <3>5. ASSUME NEW e \in Reading \ {x} PROVE Planned(e)' = Planned(e)
      <4>1. \A j \in Reading : j \in Refreshing(e)' <=> j \in Refreshing(e)
        BY <2>1, <2>3, <3>5 DEF Refreshing
      <4>2. \A j \in Refreshing(e) : rd'[j] = rd[j]
        BY <2>1 DEF Refreshing
      <4> QED BY <4>1, <4>2, SamePlan
    <3>6. Record!Plan(x)
      BY <1>t, <2>1, <2>3, <3>1, <3>4, <3>5 DEF Record!Plan, Record!Known, Known, Planned
    <3> QED BY <3>1, <3>6 DEF Record!Next
  <2>4. CASE /\ rd'[i].at = "save" /\ rd'[i].target # None
    <3>1. rd'[i].reviewed = (x \in reviewed)
      BY <1>2, <1>t, <2>4, ReadReview
    <3> QED BY <2>1, <2>3, <2>4, <3>1 DEF Judged
  <2>5. rd'[i].at \in {"done", "save"}
    BY <2>1 DEF Judged
  <2> QED BY <2>2, <2>4, <2>5
<1>3. ASSUME NEW i \in Reading, Save(i) PROVE [Record!Next]_(Record!vars)
  BY <1>3, <1>r, <1>t, SavedAs DEF Refreshing, decided
<1>4. ASSUME NEW i \in Reading, Write(i) PROVE [Record!Next]_(Record!vars)
  <2>1. /\ rd[i].at = "write" /\ rd'[i].at = "done" /\ Busy(i)
        /\ \A j \in Reading \ {i} : rd'[j] = rd[j]
    BY <1>4, <1>t, WrittenAs DEF Busy
  <2>2. rd[i].plate \in Known /\ plate \in [Reading -> Known] /\ event \subseteq Reading
        /\ reviewed \subseteq event /\ rd[i].target \in Reading \cup {None}
    BY <1>t DEF TypeOK, EventType, RState
  <2>3. CASE rd[i].target = None
    <3>1. i \notin event /\ ~rd[i].reviewed
      BY <1>t, <2>1, <2>3 DEF DecisionInv, Unstored, ReviewInv, Kept, Spoken
    <3>2. event' = event \cup {i} /\ plate' = [plate EXCEPT ![i] = rd[i].plate] /\ reviewed' = reviewed
      BY <1>4, <2>2, <2>3, <3>1 DEF Write
    <3>3. ASSUME NEW e \in Reading PROVE Planned(e)' = Planned(e)
      <4>1. \A j \in Reading : j \in Refreshing(e)' <=> j \in Refreshing(e)
        BY <1>t, <2>1, <2>3 DEF Refreshing
      <4>2. \A j \in Refreshing(e) : rd'[j] = rd[j]
        BY <1>t, <2>1, <2>3 DEF Refreshing
      <4> QED BY <4>1, <4>2, SamePlan
    <3>4. Record!Insert(i)
      BY <2>2, <3>1, <3>2, <3>3 DEF Record!Insert, Record!Known, Known, Planned
    <3> QED BY <3>4 DEF Record!Next
  <2>4. CASE rd[i].target # None
    <3>0. PICK e \in Reading : e = rd[i].target
      BY <2>2, <2>4
    <3>1. e \in event /\ CameraId[i] = CameraId[e] /\ i \in Refreshing(e)
      BY <2>1, <2>2, <2>4, <3>0 DEF DecisionInv, Snapshot, Knows, Refreshing
    <3>2. event' = event /\ plate' = [plate EXCEPT ![e] = rd[i].plate]
          /\ reviewed' = IF rd[i].reviewed THEN reviewed \cup {e} ELSE reviewed \ {e}
      BY <1>4, <2>2, <2>4, <3>0, <3>1 DEF Write
    <3>3. ASSUME NEW j \in Refreshing(e) PROVE j = i
      <4>1. j \in Reading /\ Busy(j) /\ rd[j].target = e
        BY DEF Refreshing, Busy
      <4>2. CameraId[j] = CameraId[e]
        BY <1>t, <4>1 DEF DecisionInv, Snapshot, Knows
      <4> QED BY <2>1, <3>1, <4>1, <4>2 DEF DecisionInv, Serial
    <3>4. Refreshing(e)' = {}
      BY <2>1, <3>3 DEF Refreshing
    <3>5. [plate |-> rd[i].plate, reviewed |-> rd[i].reviewed] \in Planned(e) /\ Planned(e)' = {}
      BY <3>1, <3>4 DEF Planned
    <3>6. ASSUME NEW x \in Reading \ {e} PROVE Planned(x)' = Planned(x)
      <4>1. \A j \in Reading : j \in Refreshing(x)' <=> j \in Refreshing(x)
        BY <2>1, <3>0, <3>6 DEF Refreshing
      <4>2. \A j \in Refreshing(x) : rd'[j] = rd[j]
        BY <2>1, <3>0, <3>6 DEF Refreshing
      <4> QED BY <4>1, <4>2, SamePlan
    <3>7. Record!Refresh(e)
      BY <3>1, <3>2, <3>5, <3>6 DEF Record!Refresh, Planned
    <3> QED BY <3>1, <3>7 DEF Record!Next
  <2> QED BY <2>3, <2>4
<1>5. ASSUME NEW i \in Reading, WriteFails(i) PROVE [Record!Next]_(Record!vars)
  <2>1. /\ rd[i].at = "write" /\ rd'[i].at = "due" /\ UNCHANGED <<event, plate, reviewed>>
        /\ \A j \in Reading \ {i} : rd'[j] = rd[j]
    BY <1>5, <1>t, RestartedBy DEF Restarted, decided
  <2>2. CASE rd[i].target = None
    <3>1. ASSUME NEW e \in Reading PROVE Planned(e)' = Planned(e)
      <4>1. \A j \in Reading : j \in Refreshing(e)' <=> j \in Refreshing(e)
        BY <1>t, <2>1, <2>2 DEF Refreshing
      <4>2. \A j \in Refreshing(e) : rd'[j] = rd[j]
        BY <1>t, <2>1, <2>2 DEF Refreshing
      <4> QED BY <4>1, <4>2, SamePlan
    <3> QED BY <2>1, <3>1, <1>q
  <2>3. CASE rd[i].target # None
    <3>0. PICK e \in Reading : e = rd[i].target
      BY <1>t, <2>3 DEF TypeOK, RState
    <3>1. Busy(i) /\ CameraId[i] = CameraId[e] /\ i \in Refreshing(e)
      BY <1>t, <2>1, <2>3, <3>0 DEF DecisionInv, Snapshot, Knows, Refreshing, Busy
    <3>2. ASSUME NEW j \in Refreshing(e) PROVE j = i
      <4>1. j \in Reading /\ Busy(j) /\ rd[j].target = e
        BY DEF Refreshing, Busy
      <4>2. CameraId[j] = CameraId[e]
        BY <1>t, <4>1 DEF DecisionInv, Snapshot, Knows
      <4> QED BY <3>1, <4>1, <4>2 DEF DecisionInv, Serial
    <3>3. Refreshing(e)' = {}
      BY <2>1, <3>2 DEF Refreshing
    <3>4. Planned(e)' = {}
      BY <3>3 DEF Planned
    <3>5. ASSUME NEW x \in Reading \ {e} PROVE Planned(x)' = Planned(x)
      <4>1. \A j \in Reading : j \in Refreshing(x)' <=> j \in Refreshing(x)
        BY <2>1, <3>0, <3>5 DEF Refreshing
      <4>2. \A j \in Refreshing(x) : rd'[j] = rd[j]
        BY <2>1, <3>0, <3>5 DEF Refreshing
      <4> QED BY <4>1, <4>2, SamePlan
    <3>6. Record!GiveUp(e)
      BY <2>1, <3>1, <3>4, <3>5 DEF Record!GiveUp, Planned
    <3> QED BY <3>1, <3>6 DEF Record!Next
  <2> QED BY <2>2, <2>3
<1>6. ASSUME NEW e \in Reading, Retention(e) PROVE [Record!Next]_(Record!vars)
  <2>1. e \in event \ reviewed /\ event' = event \ {e} /\ UNCHANGED <<plate, reviewed, rd>>
    BY <1>6, <1>t DEF Retention, Deletable, Spoken, HasRow, Made
  <2>2. Refreshing(e) = {}
    BY <1>6 DEF Retention, Refreshing
  <2>3. Planned(e) = {} /\ \A x \in Reading : Planned(x)' = Planned(x)
    BY <2>1, <2>2 DEF Planned, Refreshing
  <2>4. Record!Delete(e)
    BY <2>1, <2>3 DEF Record!Delete, Planned
  <2> QED BY <2>4 DEF Record!Next
<1>7. ASSUME NEW r \in Request, op[r].at = "correct", Decide(r), UNCHANGED <<event, rd>>
      PROVE  [Record!Next]_(Record!vars)
  <2>1. op[r].event \in event /\ op[r].event \in Reading /\ op[r].label \in Plate
    BY <1>7, <1>t DEF Placed, TypeOK, EventType, DecisionInv, Named
  <2>2. \A x \in Reading : Planned(x)' = Planned(x)
    BY <1>7 DEF Planned, Refreshing
  <2>3. Record!Decide(op[r].event)
    BY <1>7, <2>1, <2>2 DEF Decide, Record!Decide, Planned
  <2> QED BY <2>1, <2>3 DEF Record!Next
<1>8. CASE Crash
  <2>1. UNCHANGED <<event, plate, reviewed>> /\ \A i \in Reading : ~Busy(i)'
    BY <1>8, <1>t, RestartedBy DEF Restarted, decided, Busy
  <2>2. \A e \in Reading : Planned(e)' = {}
    BY <2>1 DEF Planned, Refreshing, Busy
  <2>3. Record!End
    BY <2>1, <2>2 DEF Record!End, Planned
  <2> QED BY <2>3 DEF Record!Next
<1>9. CASE UNCHANGED <<decided, rd>>
  BY <1>9, <1>q DEF decided, Planned, Refreshing
<1> QED BY <1>1, <1>2, <1>3, <1>4, <1>5, <1>6, <1>7, <1>8, <1>9, <1>t, Cases

\* The events keep what EventRecord promises, for any number of readings,
\* cameras and operators: the two transactions of _persist, their retries and
\* crashes are one refresh, planned and written.
THEOREM ImplementsRecord == Spec => RecordSpec
BY RecordInit, RecordNext, Invariant, DecisionInvariant, PTL DEF Spec, RecordSpec, Record!Spec
============================================================================
