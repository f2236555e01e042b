---------------------------- MODULE StorageProofs ----------------------------
(***************************************************************************)
(* Theorems about a change of the storage settings: the gate that gives a   *)
(* save the data for itself (StorageGate, for any finite set of clients),   *)
(* and the save behind it (StorageMigration, for any roots, readings,       *)
(* workers and numbers of failures and crashes).                            *)
(*                                                                         *)
(* MoveInv adds to the properties of StorageMigration what they rest on:    *)
(* what a process that is down has left (Resting), that one worker runs and *)
(* a thread at work holds a settled reading (Runs), that saves and updates  *)
(* exclude each other (Turns), what a save knows of its copies (Copies),    *)
(* and when the pointer may be ahead of the process (Ahead).                *)
(***************************************************************************)
EXTENDS StorageGate, StorageMigration, FiniteSetTheorems, TLAPS

-----------------------------------------------------------------------------
(* The gate.                                                                *)

SharedOwners == {r \in Requests \ Savers : Owns(r)}

\* While a save owns the gate nothing is counted as a reader.
WriterAlone == writer # NoTicket => readers = 0

GateInv == GateTypeOK /\ NoLeak /\ WriterAlone

\* What RemoveAt leaves of a sequence.
LEMMA RemoveAtProperties ==
    ASSUME NEW S, NEW q \in Seq(S), NEW k \in 1 .. Len(q)
    PROVE  /\ RemoveAt(q, k) \in Seq(S)
           /\ Len(RemoveAt(q, k)) = Len(q) - 1
           /\ \A i \in 1 .. Len(q) - 1 :
                RemoveAt(q, k)[i] = IF i < k THEN q[i] ELSE q[i + 1]
<1> DEFINE front == SubSeq(q, 1, k - 1)
           back  == SubSeq(q, k + 1, Len(q))
<1>1. front \in Seq(S) /\ Len(front) = k - 1 /\ \A i \in 1 .. k - 1 : front[i] = q[i]
  OBVIOUS
<1>2. back \in Seq(S) /\ Len(back) = Len(q) - k
      /\ \A i \in 1 .. Len(q) - k : back[i] = q[k + i]
  OBVIOUS
<1>3. RemoveAt(q, k) = front \o back
  BY DEF RemoveAt
<1> HIDE DEF front, back
<1>4. /\ front \o back \in Seq(S)
      /\ Len(front \o back) = Len(q) - 1
  BY <1>1, <1>2
<1>5. ASSUME NEW i \in 1 .. Len(q) - 1
      PROVE  (front \o back)[i] = IF i < k THEN q[i] ELSE q[i + 1]
  <2>1. CASE i < k
    BY <2>1, <1>1, <1>2
  <2>2. CASE ~(i < k)
    <3>1. (front \o back)[i] = back[i - (k - 1)]
      BY <2>2, <1>1, <1>2
    <3>2. i - (k - 1) \in 1 .. Len(q) - k /\ k + (i - (k - 1)) = i + 1
      BY <2>2
    <3> QED BY <2>2, <3>1, <3>2, <1>2
  <2> QED BY <2>1, <2>2
<1> QED BY <1>3, <1>4, <1>5

\* A request that becomes a shared owner is counted, one that ceases is not.
LEMMA SharedCount ==
    ASSUME GateTypeOK, NEW r \in Requests \ Savers
    PROVE  /\ IsFiniteSet(SharedOwners) /\ Cardinality(SharedOwners) \in Nat
           /\ ~Owns(r) => Cardinality(SharedOwners \cup {r}) = Cardinality(SharedOwners) + 1
           /\ Owns(r) => Cardinality(SharedOwners \ {r}) = Cardinality(SharedOwners) - 1
<1>1. IsFiniteSet(SharedOwners)
  BY RequestsAssumption, FS_Subset DEF SharedOwners
<1>2. Cardinality(SharedOwners) \in Nat
  BY <1>1, FS_CardinalityType
<1>3. ~Owns(r) => Cardinality(SharedOwners \cup {r}) = Cardinality(SharedOwners) + 1
  BY <1>1, FS_AddElement DEF SharedOwners
<1>4. Owns(r) => Cardinality(SharedOwners \ {r}) = Cardinality(SharedOwners) - 1
  BY <1>1, FS_RemoveElement DEF SharedOwners
<1> QED BY <1>1, <1>2, <1>3, <1>4

LEMMA GateInitInv == GateInit => GateInv
<1> SUFFICES ASSUME GateInit PROVE GateInv
  OBVIOUS
<1>1. GateTypeOK
  <2>1. waiting \in Seq(Savers)
    BY DEF GateInit
  <2> QED BY <2>1 DEF GateInit, GateTypeOK, GateSteps
<1>2. {r \in Requests \ Savers : Owns(r)} = {}
  BY DEF GateInit, Owns
<1>3. readers = Cardinality({r \in Requests \ Savers : Owns(r)})
  BY <1>2, FS_EmptySet DEF GateInit
<1>4. \A r \in Savers : Owns(r) <=> writer = r
  BY RequestsAssumption DEF GateInit, Owns
<1>5. Len(waiting) = 0
  BY DEF GateInit
<1>6. \A r \in Savers : pc[r] # "polling"
  BY RequestsAssumption DEF GateInit
<1>7. NoLeak
  BY <1>3, <1>4, <1>5, <1>6 DEF NoLeak
<1> QED BY <1>1, <1>7 DEF GateInv, WriterAlone, GateInit

\* NoLeak, conjunct by conjunct.
CountsReaders == readers = Cardinality(SharedOwners)
KnowsWriter   == \A r \in Savers : Owns(r) <=> writer = r
QueuesSavers  == \A r \in Savers :
                    pc[r] = "polling" <=> \E i \in 1 .. Len(waiting) : waiting[i] = r
QueuesOnce    == \A i, j \in 1 .. Len(waiting) : waiting[i] = waiting[j] => i = j

LEMMA NoLeakParts ==
    /\ NoLeak <=> CountsReaders /\ KnowsWriter /\ QueuesSavers /\ QueuesOnce
    /\ NoLeak' <=> CountsReaders' /\ KnowsWriter' /\ QueuesSavers' /\ QueuesOnce'
<1>1. NoLeak <=> CountsReaders /\ KnowsWriter /\ QueuesSavers /\ QueuesOnce
  BY DEF NoLeak, CountsReaders, KnowsWriter, QueuesSavers, QueuesOnce, SharedOwners
<1>2. NoLeak' <=> CountsReaders' /\ KnowsWriter' /\ QueuesSavers' /\ QueuesOnce'
  BY DEF NoLeak, CountsReaders, KnowsWriter, QueuesSavers, QueuesOnce, SharedOwners
<1> QED BY <1>1, <1>2

\* A step that takes no slot and gives none back disturbs no owner.
LEMMA SameOwners ==
    ASSUME GateTypeOK, UNCHANGED <<readers, writer>>,
           CountsReaders, KnowsWriter,
           \A q \in Requests : Owns(q)' <=> Owns(q)
    PROVE  CountsReaders' /\ KnowsWriter'
<1>1. SharedOwners' = SharedOwners
  BY DEF SharedOwners
<1>2. CountsReaders'
  BY <1>1 DEF CountsReaders
<1>3. KnowsWriter'
  BY RequestsAssumption DEF KnowsWriter
<1> QED BY <1>2, <1>3

\* Nor does one that leaves the queue and its pollers as they are.
LEMMA SameQueue ==
    ASSUME UNCHANGED waiting, QueuesSavers, QueuesOnce,
           \A q \in Savers : pc'[q] = "polling" <=> pc[q] = "polling"
    PROVE  QueuesSavers' /\ QueuesOnce'
BY DEF QueuesSavers, QueuesOnce

LEMMA StepArrive ==
    ASSUME GateInv, NEW r \in Requests, Arrive(r)
    PROVE  GateInv'
<1> USE RequestsAssumption DEF Arrive, Goes, GateInv
<1>1. pc \in [Requests -> GateSteps] /\ pc[r] = "idle"
      /\ pc' = [pc EXCEPT ![r] = "polling"] /\ waiting \in Seq(Savers)
  BY DEF GateTypeOK
<1>2. \A q \in Requests : Owns(q)' <=> Owns(q)
  BY <1>1 DEF Owns
<1>3. CountsReaders' /\ KnowsWriter'
  BY <1>2, SameOwners, NoLeakParts
<1>4. QueuesSavers' /\ QueuesOnce' /\ waiting' \in Seq(Savers)
  <2>1. CASE r \in Savers
    <3>1. /\ waiting' \in Seq(Savers) /\ Len(waiting') = Len(waiting) + 1
          /\ waiting'[Len(waiting) + 1] = r
          /\ \A i \in 1 .. Len(waiting) : waiting'[i] = waiting[i]
      BY <2>1, <1>1
    <3>2. \A i \in 1 .. Len(waiting) : waiting[i] # r
      BY <2>1, <1>1, NoLeakParts DEF QueuesSavers
    <3>3. QueuesOnce'
      BY <3>1, <3>2, <1>1, NoLeakParts DEF QueuesOnce
    <3>4. ASSUME NEW q \in Savers
          PROVE  pc'[q] = "polling" <=> \E i \in 1 .. Len(waiting') : waiting'[i] = q
      <4>1. CASE q = r
        BY <4>1, <3>1, <1>1
      <4>2. CASE q # r
        <5>1. pc'[q] = pc[q]
          BY <4>2, <1>1
        <5>2. pc[q] = "polling" <=> \E i \in 1 .. Len(waiting) : waiting[i] = q
          BY NoLeakParts DEF QueuesSavers
        <5> QED BY <5>1, <5>2, <3>1, <4>2, <1>1
      <4> QED BY <4>1, <4>2
    <3> QED BY <3>1, <3>3, <3>4 DEF QueuesSavers
  <2>2. CASE r \notin Savers
    BY <2>2, <1>1, SameQueue, NoLeakParts
  <2> QED BY <2>1, <2>2
<1>5. GateTypeOK'
  BY <1>1, <1>4 DEF GateTypeOK, GateSteps
<1> QED BY <1>3, <1>4, <1>5, NoLeakParts DEF WriterAlone

LEMMA StepCancel ==
    ASSUME GateInv, NEW r \in Requests, Cancel(r)
    PROVE  GateInv'
<1> USE RequestsAssumption DEF Cancel, Goes, GateInv
<1>1. pc \in [Requests -> GateSteps] /\ pc[r] = "polling"
      /\ pc' = [pc EXCEPT ![r] = "idle"] /\ waiting \in Seq(Savers)
  BY DEF GateTypeOK
<1>2. \A q \in Requests : Owns(q)' <=> Owns(q)
  BY <1>1 DEF Owns
<1>3. CountsReaders' /\ KnowsWriter'
  BY <1>2, SameOwners, NoLeakParts
<1>4. QueuesSavers' /\ QueuesOnce' /\ waiting' \in Seq(Savers)
  <2>1. CASE \E i \in 1 .. Len(waiting) : waiting[i] = r
    <3>1. PICK k \in 1 .. Len(waiting) :
            waiting[k] = r /\ waiting' = RemoveAt(waiting, k)
      BY <2>1
    <3>2. /\ waiting' \in Seq(Savers) /\ Len(waiting') = Len(waiting) - 1
          /\ \A i \in 1 .. Len(waiting) - 1 :
                waiting'[i] = IF i < k THEN waiting[i] ELSE waiting[i + 1]
      <4>1. /\ RemoveAt(waiting, k) \in Seq(Savers)
            /\ Len(RemoveAt(waiting, k)) = Len(waiting) - 1
            /\ \A i \in 1 .. Len(waiting) - 1 : RemoveAt(waiting, k)[i] =
                  IF i < k THEN waiting[i] ELSE waiting[i + 1]
        <5>1. waiting \in Seq(Savers)
          BY <1>1
        <5> QED BY ONLY <5>1, RemoveAtProperties
      <4> QED BY <4>1, <3>1
    <3>3. QueuesOnce'
      BY <3>2, <1>1, NoLeakParts DEF QueuesOnce
    <3>4. \A i \in 1 .. Len(waiting) : waiting[i] = r => i = k
      BY <3>1, NoLeakParts DEF QueuesOnce
    <3>5. ASSUME NEW q \in Savers
          PROVE  pc'[q] = "polling" <=> \E i \in 1 .. Len(waiting') : waiting'[i] = q
      <4>1. CASE q = r
        <5>1. \A i \in 1 .. Len(waiting') : waiting'[i] # r
          <6> SUFFICES ASSUME NEW i \in 1 .. Len(waiting'), waiting'[i] = r
                       PROVE  FALSE
            OBVIOUS
          <6>1. CASE i < k
            BY <6>1, <3>2, <3>4, <1>1
          <6>2. CASE ~(i < k)
            <7>1. i + 1 \in 1 .. Len(waiting) /\ waiting'[i] = waiting[i + 1]
              BY <6>2, <3>2, <1>1
            <7> QED BY <7>1, <3>4, <6>2
          <6> QED BY <6>1, <6>2
        <5>2. pc'[q] # "polling"
          BY <4>1, <1>1
        <5> QED BY <5>1, <5>2, <4>1
      <4>2. CASE q # r
        <5>1. pc'[q] = pc[q]
          BY <4>2, <1>1
        <5>2. pc[q] = "polling" <=> \E i \in 1 .. Len(waiting) : waiting[i] = q
          BY NoLeakParts DEF QueuesSavers
        <5>3. ASSUME NEW i \in 1 .. Len(waiting), waiting[i] = q
              PROVE  \E j \in 1 .. Len(waiting') : waiting'[j] = q
          <6>1. CASE i < k
            BY <6>1, <5>3, <3>2, <1>1
          <6>2. CASE i > k
            <7>1. i - 1 \in 1 .. Len(waiting') /\ ~(i - 1 < k)
              BY <6>2, <3>2, <1>1
            <7>2. waiting'[i - 1] = waiting[i]
              BY <7>1, <3>2, <1>1
            <7> QED BY <7>1, <7>2, <5>3
          <6>3. i # k
            BY <3>1, <5>3, <4>2
          <6> QED BY <6>1, <6>2, <6>3
        <5>4. ASSUME NEW j \in 1 .. Len(waiting'), waiting'[j] = q
              PROVE  \E i \in 1 .. Len(waiting) : waiting[i] = q
          BY <5>4, <3>2, <1>1
        <5> QED BY <5>1, <5>2, <5>3, <5>4
      <4> QED BY <4>1, <4>2
    <3> QED BY <3>2, <3>3, <3>5 DEF QueuesSavers
  <2>2. CASE ~\E i \in 1 .. Len(waiting) : waiting[i] = r
    <3>1. r \notin Savers
      BY <2>2, <1>1, NoLeakParts DEF QueuesSavers
    <3> QED BY <2>2, <3>1, <1>1, SameQueue, NoLeakParts
  <2> QED BY <2>1, <2>2
<1>5. GateTypeOK'
  BY <1>1, <1>4 DEF GateTypeOK, GateSteps
<1> QED BY <1>3, <1>4, <1>5, NoLeakParts DEF WriterAlone

LEMMA StepAcquireShared ==
    ASSUME GateInv, NEW r \in Requests, AcquireShared(r)
    PROVE  GateInv'
<1> USE RequestsAssumption DEF AcquireShared, Goes, GateInv
<1>1. pc \in [Requests -> GateSteps] /\ pc[r] = "polling"
      /\ pc' = [pc EXCEPT ![r] = "admitted"] /\ r \in Requests \ Savers
  BY DEF GateTypeOK
<1>2. ~Owns(r) /\ Owns(r)' /\ \A q \in Requests \ {r} : Owns(q)' <=> Owns(q)
  BY <1>1 DEF Owns
<1>3. SharedOwners' = SharedOwners \cup {r}
  BY <1>1, <1>2 DEF SharedOwners
<1>4. CountsReaders'
  <2>1. Cardinality(SharedOwners \cup {r}) = Cardinality(SharedOwners) + 1
    BY <1>1, <1>2, SharedCount
  <2> QED BY <2>1, <1>3, NoLeakParts DEF CountsReaders
<1>5. KnowsWriter'
  BY <1>1, <1>2, NoLeakParts DEF KnowsWriter
<1>6. QueuesSavers' /\ QueuesOnce'
  <2>1. \A q \in Savers : pc'[q] = "polling" <=> pc[q] = "polling"
    BY <1>1
  <2> QED BY <2>1, SameQueue, NoLeakParts
<1>7. GateTypeOK'
  BY <1>1 DEF GateTypeOK, GateSteps
<1> QED BY <1>4, <1>5, <1>6, <1>7, NoLeakParts DEF WriterAlone

LEMMA StepAcquireExclusive ==
    ASSUME GateInv, NEW r \in Requests, AcquireExclusive(r)
    PROVE  GateInv'
<1> USE RequestsAssumption DEF AcquireExclusive, Goes, GateInv
<1>1. /\ pc \in [Requests -> GateSteps] /\ pc[r] = "polling" /\ r \in Savers
      /\ pc' = [pc EXCEPT ![r] = "admitted"]
      /\ waiting \in Seq(Savers) /\ waiting # <<>> /\ waiting[1] = r
      /\ writer = NoTicket /\ writer' = r
  BY DEF GateTypeOK
<1>2. ~Owns(r) /\ Owns(r)' /\ \A q \in Requests \ {r} : Owns(q)' <=> Owns(q)
  BY <1>1 DEF Owns
<1>3. CountsReaders'
  <2>1. SharedOwners' = SharedOwners
    BY <1>1, <1>2 DEF SharedOwners
  <2> QED BY <2>1, NoLeakParts DEF CountsReaders
<1>4. KnowsWriter'
  <2>1. \A q \in Savers : ~Owns(q)
    BY <1>1, NoLeakParts DEF KnowsWriter
  <2> QED BY <2>1, <1>1, <1>2 DEF KnowsWriter
<1>5. /\ waiting' \in Seq(Savers) /\ Len(waiting') = Len(waiting) - 1
      /\ \A i \in 1 .. Len(waiting) - 1 : waiting'[i] = waiting[i + 1]
  BY <1>1
<1>6. QueuesOnce'
  BY <1>5, <1>1, NoLeakParts DEF QueuesOnce
<1>7. \A i \in 1 .. Len(waiting) : waiting[i] = r => i = 1
  BY <1>1, NoLeakParts DEF QueuesOnce
<1>8. ASSUME NEW q \in Savers
      PROVE  pc'[q] = "polling" <=> \E i \in 1 .. Len(waiting') : waiting'[i] = q
  <2>1. CASE q = r
    <3>1. pc'[q] # "polling"
      BY <2>1, <1>1
    <3>2. ASSUME NEW i \in 1 .. Len(waiting'), waiting'[i] = r PROVE FALSE
      <4>1. i + 1 \in 1 .. Len(waiting) /\ waiting[i + 1] = r
        BY <3>2, <1>5, <1>1
      <4> QED BY <4>1, <1>7
    <3> QED BY <3>1, <3>2, <2>1
  <2>2. CASE q # r
    <3>1. pc'[q] = pc[q]
      BY <2>2, <1>1
    <3>2. pc[q] = "polling" <=> \E i \in 1 .. Len(waiting) : waiting[i] = q
      BY NoLeakParts DEF QueuesSavers
    <3>3. ASSUME NEW i \in 1 .. Len(waiting), waiting[i] = q
          PROVE  \E j \in 1 .. Len(waiting') : waiting'[j] = q
      <4>1. i # 1
        BY <3>3, <2>2, <1>1
      <4>2. i - 1 \in 1 .. Len(waiting') /\ waiting'[i - 1] = waiting[i]
        BY <4>1, <1>5, <1>1
      <4> QED BY <4>2, <3>3
    <3>4. ASSUME NEW j \in 1 .. Len(waiting'), waiting'[j] = q
          PROVE  \E i \in 1 .. Len(waiting) : waiting[i] = q
      BY <3>4, <1>5, <1>1
    <3> QED BY <3>1, <3>2, <3>3, <3>4
  <2> QED BY <2>1, <2>2
<1>9. GateTypeOK'
  BY <1>1, <1>5 DEF GateTypeOK, GateSteps
<1> QED BY <1>3, <1>4, <1>6, <1>8, <1>9, NoLeakParts DEF QueuesSavers, WriterAlone

LEMMA StepEndpoint ==
    ASSUME GateInv, NEW r \in Requests,
           CheckRestart(r) \/ RequireRestart(r) \/ Return(r)
    PROVE  GateInv'
<1> USE RequestsAssumption DEF CheckRestart, RequireRestart, Return, Goes, GateInv
<1>1. /\ pc \in [Requests -> GateSteps] /\ pc' \in [Requests -> GateSteps]
      /\ pc[r] \in {"admitted", "handling"} /\ pc'[r] \in {"handling", "done"}
      /\ \A q \in Requests \ {r} : pc'[q] = pc[q]
  BY DEF GateTypeOK, GateSteps
<1>2. \A q \in Requests : Owns(q)' <=> Owns(q)
  BY <1>1 DEF Owns
<1>3. \A q \in Savers : pc'[q] = "polling" <=> pc[q] = "polling"
  BY <1>1
<1>4. UNCHANGED <<readers, writer, waiting>>
  OBVIOUS
<1>5. NoLeak'
  BY <1>2, <1>3, <1>4, SameOwners, SameQueue, NoLeakParts
<1>6. GateTypeOK'
  BY <1>1 DEF GateTypeOK
<1> QED BY <1>4, <1>5, <1>6 DEF WriterAlone

LEMMA StepRelease ==
    ASSUME GateInv, NEW r \in Requests, Release(r)
    PROVE  GateInv'
<1> USE RequestsAssumption DEF Release, Goes, GateInv
<1>1. pc \in [Requests -> GateSteps] /\ pc[r] = "done" /\ pc' = [pc EXCEPT ![r] = "idle"]
  BY DEF GateTypeOK
<1>2. Owns(r) /\ ~Owns(r)' /\ \A q \in Requests \ {r} : Owns(q)' <=> Owns(q)
  BY <1>1 DEF Owns
<1>3. QueuesSavers' /\ QueuesOnce'
  <2>1. \A q \in Savers : pc'[q] = "polling" <=> pc[q] = "polling"
    BY <1>1
  <2> QED BY <2>1, SameQueue, NoLeakParts
<1>4. CASE r \in Savers
  <2>1. SharedOwners' = SharedOwners
    BY <1>2, <1>4 DEF SharedOwners
  <2>2. CountsReaders'
    BY <2>1, <1>4, NoLeakParts DEF CountsReaders
  <2>3. KnowsWriter'
    BY <1>2, <1>4, NoLeakParts DEF KnowsWriter
  <2>4. GateTypeOK'
    BY <1>1, <1>4 DEF GateTypeOK, GateSteps
  <2> QED BY <1>3, <2>2, <2>3, <2>4, NoLeakParts DEF WriterAlone
<1>5. CASE r \notin Savers
  <2>1. SharedOwners' = SharedOwners \ {r}
    BY <1>2, <1>5 DEF SharedOwners
  <2>2. Cardinality(SharedOwners \ {r}) = Cardinality(SharedOwners) - 1
    BY <1>2, <1>5, SharedCount
  <2>3. readers \in Nat /\ readers > 0 /\ readers' = readers - 1 /\ writer' = writer
    BY <1>5 DEF GateTypeOK
  <2>4. CountsReaders'
    BY <2>1, <2>2, <2>3, NoLeakParts DEF CountsReaders
  <2>5. KnowsWriter'
    BY <1>2, <1>5, <2>3, NoLeakParts DEF KnowsWriter
  <2>6. GateTypeOK'
    BY <1>1, <2>3 DEF GateTypeOK, GateSteps
  <2> QED BY <1>3, <2>3, <2>4, <2>5, <2>6, NoLeakParts DEF WriterAlone
<1> QED BY <1>4, <1>5

LEMMA GateStep == GateInv /\ [GateNext]_gateVars => GateInv'
<1> SUFFICES ASSUME GateInv, [GateNext]_gateVars PROVE GateInv'
  OBVIOUS
<1>1. CASE UNCHANGED gateVars
  BY <1>1 DEF gateVars, GateInv, GateTypeOK, NoLeak, WriterAlone, Owns
<1>2. CASE GateNext
  <2>1. PICK r \in Requests :
          \/ Arrive(r) \/ AcquireShared(r) \/ AcquireExclusive(r) \/ Cancel(r)
          \/ CheckRestart(r) \/ RequireRestart(r) \/ Return(r) \/ Release(r)
    BY <1>2 DEF GateNext
  <2> QED BY <2>1, StepArrive, StepAcquireShared, StepAcquireExclusive, StepCancel,
             StepEndpoint, StepRelease
<1> QED BY <1>1, <1>2

LEMMA GateInvariant == GateSpec => []GateInv
BY GateInitInv, GateStep, PTL DEF GateSpec

LEMMA InvExcludes == GateInv => Exclusion
<1> SUFFICES ASSUME GateInv, NEW r \in Savers, NEW q \in Requests, Owns(r), Owns(q)
             PROVE  q = r
  BY DEF Exclusion
<1>1. writer = r /\ writer # NoTicket
  BY NoLeakParts, RequestsAssumption DEF GateInv, KnowsWriter
<1>2. CASE q \in Savers
  BY <1>1, <1>2, NoLeakParts DEF GateInv, KnowsWriter
<1>3. CASE q \notin Savers
  <2>1. Cardinality(SharedOwners) = 0
    BY <1>1, NoLeakParts DEF GateInv, WriterAlone, CountsReaders
  <2>2. IsFiniteSet(SharedOwners)
    BY RequestsAssumption, FS_Subset DEF SharedOwners
  <2>3. SharedOwners = {}
    BY <2>1, <2>2, FS_EmptySet
  <2> QED BY <2>3, <1>3 DEF SharedOwners
<1> QED BY <1>2, <1>3

\* The typing of the gate and the requests, for any number of clients.
THEOREM GateTypeCorrect == GateSpec => []GateTypeOK
BY GateInvariant, PTL DEF GateInv

\* A save that owns the gate owns it alone: the reader/writer exclusion that
\* save_storage_settings relies on, for any number of clients.
THEOREM SavesAreExclusive == GateSpec => []Exclusion
<1>1. GateInv => Exclusion
  BY InvExcludes
<1> QED BY <1>1, GateInvariant, PTL

\* The gate's counter, owner and queue always agree with the requests that
\* hold them, through cancellation, refusal and answer.
THEOREM NothingLeaks == GateSpec => []NoLeak
BY GateInvariant, PTL DEF GateInv

\* No endpoint starts once a restart is required: every way into an endpoint
\* reads the flag.
THEOREM FenceHolds == GateSpec => Fence
<1>1. GateTypeOK /\ [GateNext]_gateVars => [FenceStep]_gateVars
  <2> SUFFICES ASSUME GateTypeOK, GateNext, required, NEW q \in Requests, pc'[q] = "handling"
               PROVE  pc[q] = "handling"
    BY DEF FenceStep
  <2>1. PICK r \in Requests :
          \/ Arrive(r) \/ AcquireShared(r) \/ AcquireExclusive(r) \/ Cancel(r)
          \/ CheckRestart(r) \/ RequireRestart(r) \/ Return(r) \/ Release(r)
    BY DEF GateNext
  <2>2. pc' = pc \/ \E to \in GateSteps \ {"handling"} : pc' = [pc EXCEPT ![r] = to]
    BY <2>1 DEF Arrive, AcquireShared, AcquireExclusive, Cancel, CheckRestart,
                RequireRestart, Return, Release, Goes, GateSteps
  <2> QED BY <2>2 DEF GateTypeOK
<1> QED BY <1>1, GateTypeCorrect, PTL DEF GateSpec, Fence

LEMMA QuietStep == GateInv /\ FenceIsQuiet /\ [GateNext]_gateVars => FenceIsQuiet'
<1> SUFFICES ASSUME GateInv, FenceIsQuiet, [GateNext]_gateVars,
                    NEW q \in Requests, required', pc'[q] = "handling"
             PROVE  q \in Savers /\ writer' = q
  BY DEF FenceIsQuiet
<1>1. CASE UNCHANGED gateVars
  BY <1>1 DEF gateVars, FenceIsQuiet
<1>2. CASE GateNext
  <2>1. PICK r \in Requests :
          \/ Arrive(r) \/ AcquireShared(r) \/ AcquireExclusive(r) \/ Cancel(r)
          \/ CheckRestart(r) \/ RequireRestart(r) \/ Return(r) \/ Release(r)
    BY <1>2 DEF GateNext
  <2>2. CASE RequireRestart(r)
    <3>1. pc[q] = "handling" /\ Owns(q) /\ Owns(r) /\ r \in Savers /\ writer' = writer
      BY <2>2 DEF RequireRestart, Owns
    <3>2. q = r
      BY <3>1, InvExcludes DEF Exclusion
    <3> QED BY <3>1, <3>2, NoLeakParts DEF GateInv, KnowsWriter
  <2>3. CASE ~RequireRestart(r)
    <3>1. required
      BY <2>1, <2>3 DEF Arrive, AcquireShared, AcquireExclusive, Cancel, CheckRestart,
                        Return, Release
    <3>2. pc[q] = "handling" /\ q # r
      BY <2>1, <2>3, <3>1 DEF Arrive, AcquireShared, AcquireExclusive, Cancel,
            CheckRestart, Return, Release, Goes, GateInv, GateTypeOK, GateSteps
    <3>3. q \in Savers /\ writer = q
      BY <3>1, <3>2 DEF FenceIsQuiet
    <3>4. writer # NoTicket
      BY <3>3, RequestsAssumption
    <3>5. r \in Savers /\ Owns(r) => r = q
      BY <3>3, NoLeakParts DEF GateInv, KnowsWriter
    <3>6. writer' = writer
      BY <2>1, <2>3, <3>2, <3>4, <3>5 DEF Arrive, AcquireShared, AcquireExclusive,
            Cancel, CheckRestart, Return, Release, Goes, Owns
    <3> QED BY <3>3, <3>6
  <2> QED BY <2>2, <2>3
<1> QED BY <1>1, <1>2

\* When the flag is set nobody but the save that set it is at work, so no
\* change is under way that the moved data would miss.
THEOREM FenceFindsQuiet == GateSpec => []FenceIsQuiet
<1>1. GateInit => FenceIsQuiet
  BY DEF GateInit, FenceIsQuiet
<1> QED BY <1>1, QuietStep, GateInvariant, PTL DEF GateSpec

-----------------------------------------------------------------------------
(* The save behind it.                                                      *)


\* A root the process could run from.
Whole(r) == accepted \subseteq settled[r] \cup owed[r] /\ files[r] = Complete

Copying == {"dbcopied", "copied", "dbpublished", "published", "pointed"}
Quiet   == {"shutting", "joining", "checking", "quiesced"} \cup Copying

\* Nothing is at work in a process that is down, and nothing unsynchronized.
Resting ==
    ~up => /\ save = NoSave /\ update = "idle" /\ ~restart
           /\ current = None /\ alive = {} /\ cameras = "off" /\ synced
           /\ \A w \in Workers : hand[w] = None

\* One worker runs at most, the current one; a hand holds what is settled.
Runs ==
    /\ up => current # None
    /\ current # None /\ current \notin stopped => current \in alive
    /\ alive \ stopped \subseteq {current}
    /\ \A w \in Workers : hand[w] # None => hand[w] \in settled[root]

\* Saves and updates take turns, and what stands stopped meanwhile.
Turns ==
    /\ save.pc = "idle" <=> save = NoSave
    /\ save # NoSave => save.target \in Roots /\ update \in {"idle", "launched"}
    /\ restart => update \in {"idle", "launched"} /\ save.pc \in {"idle", "pointed"}
    /\ save.pc = "pointed" => restart
    /\ save.pc \in Copying => save.target # root
    /\ save.pc \in Quiet => cameras = "off"
    /\ update = "reopening" => current \notin stopped

\* What the copies hold, from the moment they are taken.
Copies ==
    /\ save.pc = "dbcopied" /\ current \in stopped => staged.settled = settled[root]
    /\ save.pc \in {"copied", "dbpublished", "published"} =>
         accepted \subseteq staged.settled \cup staged.owed
    /\ save.pc \in {"dbpublished", "published"} =>
         "db" \in files[save.target] /\ settled[save.target] = staged.settled
    /\ save.pc = "published" =>
         "sidecar" \in files[save.target] /\ owed[save.target] = staged.owed

\* The pointer is ahead of the process only behind a save that moved the root,
\* with nothing accepted any more.
Ahead ==
    /\ up /\ pointer # root =>
         /\ restart \/ (save.pc = "failed" /\ save.target = pointer)
         /\ cameras = "off"
    /\ save.pc = "pointed" => save.target = pointer

Safe == Whole(pointer) /\ (up => Whole(root))

MoveInv == /\ TypeOK /\ Resting /\ Runs /\ Turns /\ Copies /\ Ahead /\ Safe
           /\ ServiceRestored

-----------------------------------------------------------------------------
\* A save that goes on keeps its root.
LEMMA ReachEffect ==
    ASSUME TypeOK, NEW from, NEW to \in Steps, Reach(from, to)
    PROVE  /\ up /\ save.pc = from /\ save'.pc = to
           /\ save'.target = save.target /\ save'.quiesced = save.quiesced
           /\ save' \in [pc: Steps, target: Roots \cup {None}, quiesced: BOOLEAN]
BY DEF TypeOK, Reach

\* Starting a worker replaces a stopped one, or changes nothing.
LEMMA StartEffect ==
    ASSUME TypeOK, Runs, StartWorker
    PROVE  /\ current' \in Workers /\ alive' \subseteq Workers /\ alive \subseteq alive'
           /\ stopped' = stopped /\ hand' = hand
           /\ current' \in alive' \ stopped' /\ alive' \ stopped' \subseteq {current'}
           /\ current \notin stopped /\ current # None => current' = current
BY OthersAssumption DEF TypeOK, Runs, StartWorker, Unused, workers

\* Every step keeps the types.
LEMMA TypeStep == MoveInv /\ [Next]_vars => TypeOK'
<1> SUFFICES ASSUME MoveInv, [Next]_vars PROVE TypeOK'
  OBVIOUS
<1> USE DEF MoveInv
<1>q. ASSUME UNCHANGED <<files, settled, owed, pointer, synced, staged, accepted, up,
   root, current, stopped, alive, hand, cameras, restart, unstarted, save, update,
   faults, crashes>> PROVE TypeOK'
  BY <1>q, OthersAssumption, RootsAssumption DEF TypeOK
<1>1. ASSUME Saving PROVE TypeOK'
  <2>1. ASSUME NEW t \in Roots, Begin(t) PROVE TypeOK'
    BY <2>1, OthersAssumption, RootsAssumption DEF Begin, disk, workers, process,
       bounds, TypeOK, Steps, UpdateSteps, NoSave, Nothing, Complete
  <2>2. CASE StopCameras
    BY <2>2, OthersAssumption, RootsAssumption DEF StopCameras, Reach, disk, workers,
       process, bounds, TypeOK, Steps, UpdateSteps, NoSave, Nothing, Complete
  <2>3. CASE CamerasStuck
    BY <2>3, OthersAssumption, RootsAssumption DEF CamerasStuck, Fault, Reach, disk,
       workers, process, TypeOK, Steps, UpdateSteps, NoSave, Nothing, Complete
  <2>4. CASE StopWorker
    <3>1. current \in Workers
      BY <2>4 DEF StopWorker, Reach, Runs, TypeOK
    <3>2. save' \in [pc: Steps, target: Roots \cup {None}, quiesced: BOOLEAN]
      BY <2>4, ReachEffect DEF StopWorker, Steps
    <3> QED BY <2>4, <3>1, <3>2 DEF StopWorker, TypeOK, disk, process, bounds
  <2>5. CASE Joined
    BY <2>5, OthersAssumption, RootsAssumption DEF Joined, Reach, disk, workers,
       process, bounds, TypeOK, Steps, UpdateSteps, NoSave, Nothing, Complete
  <2>6. CASE Quiesced
    BY <2>6, OthersAssumption, RootsAssumption DEF Quiesced, disk, workers, process,
       bounds, TypeOK, Steps, UpdateSteps, NoSave, Nothing, Complete
  <2>7. CASE SaveInPlace
    BY <2>7, OthersAssumption, RootsAssumption DEF SaveInPlace, Moves, StartWorker,
       Unused, workers, StartCameras, disk, process, bounds, TypeOK, Steps, UpdateSteps,
       NoSave, Nothing, Complete,
       RestartBoth, WorkerFails, Fault, Producers
  <2>8. CASE CopyDatabase
    BY <2>8, OthersAssumption, RootsAssumption DEF CopyDatabase, Moves, Reach, disk,
       workers, process, bounds, TypeOK, Steps, UpdateSteps, NoSave, Nothing, Complete
  <2>9. CASE CopySidecar
    BY <2>9, OthersAssumption, RootsAssumption DEF CopySidecar, Reach, disk, workers,
       process, bounds, TypeOK, Steps, UpdateSteps, NoSave, Nothing, Complete
  <2>10. CASE BackupRefused
    BY <2>10, OthersAssumption, RootsAssumption DEF BackupRefused, Reach, disk, workers,
       process, bounds, TypeOK, Steps, UpdateSteps, NoSave, Nothing, Complete
  <2>11. CASE PublishDatabase
    BY <2>11, OthersAssumption, RootsAssumption DEF PublishDatabase, Reach, workers,
       process, bounds, TypeOK, Steps, UpdateSteps, NoSave, Nothing, Complete
  <2>12. CASE PublishSidecar
    BY <2>12, OthersAssumption, RootsAssumption DEF PublishSidecar, Reach, workers,
       process, bounds, TypeOK, Steps, UpdateSteps, NoSave, Nothing, Complete
  <2>13. CASE ReplacePointer
    <3>1. save.target \in Roots /\ save' \in [pc: Steps, target: Roots \cup {None}, quiesced: BOOLEAN]
      BY <2>13, ReachEffect DEF ReplacePointer, Steps, Turns, NoSave
    <3> QED BY <2>13, <3>1 DEF ReplacePointer, TypeOK, workers, bounds
  <2>14. CASE ReplaceMisreported
    <3>1. save.target \in Roots /\ save' \in [pc: Steps, target: Roots \cup {None}, quiesced: BOOLEAN]
      BY <2>14, ReachEffect DEF ReplaceMisreported, Steps, Turns, NoSave
    <3>2. faults' \in 0 .. MaxFaults
      BY <2>14, OthersAssumption DEF ReplaceMisreported, Fault, TypeOK
    <3> QED BY <2>14, <3>1, <3>2 DEF ReplaceMisreported, TypeOK, workers, process
  <2>15. CASE SyncPointer
    BY <2>15, OthersAssumption, RootsAssumption DEF SyncPointer, workers, process,
       bounds, TypeOK, Steps, UpdateSteps, NoSave, Nothing, Complete
  <2>16. CASE Fails
    <3>1. CASE Reach(save.pc, "failed")
      <4>1. save' \in [pc: Steps, target: Roots \cup {None}, quiesced: BOOLEAN]
        BY <3>1, ReachEffect DEF Steps
      <4> QED BY <2>16, <4>1, OthersAssumption DEF Fails, Fault, TypeOK, disk, workers, process
    <3>2. CASE save' = NoSave
      <4>1. save' \in [pc: Steps, target: Roots \cup {None}, quiesced: BOOLEAN]
        BY <3>2 DEF Steps, NoSave
      <4> QED BY <2>16, <4>1, OthersAssumption DEF Fails, Fault, TypeOK, disk, workers, process
    <3> QED BY <2>16, <3>1, <3>2 DEF Fails
  <2>17. CASE KeepMoved
    BY <2>17, OthersAssumption, RootsAssumption DEF KeepMoved, Moves, disk, workers,
       bounds, TypeOK, Steps, UpdateSteps, NoSave, Nothing, Complete
  <2>18. CASE RollBack
    <3>1. /\ current' \in Workers \cup {None} /\ alive' \subseteq Workers
          /\ stopped' = stopped /\ hand' = hand /\ cameras' \in {"on", "stopping", "off"}
          /\ unstarted' \subseteq Producers /\ faults' \in 0 .. MaxFaults
          /\ restart' \in BOOLEAN
      <4>1. CASE save.quiesced
        <5>1. RestartBoth /\ UNCHANGED restart
          BY <2>18, <4>1 DEF RollBack, RestartProducers
        <5>2. StartWorker \/ UNCHANGED workers
          BY <5>1 DEF RestartBoth, WorkerFails
        <5>3. current' \in Workers \cup {None} /\ alive' \subseteq Workers
              /\ stopped' = stopped /\ hand' = hand
          BY <5>2, StartEffect DEF workers, TypeOK
        <5>4. faults' \in 0 .. MaxFaults
          BY <5>1, OthersAssumption DEF RestartBoth, Fault, TypeOK
        <5> QED BY <5>1, <5>3, <5>4 DEF RestartBoth, StartCameras, Producers, TypeOK
      <4>2. CASE ~save.quiesced
        BY <2>18, <4>2 DEF RollBack, RestartProducers, workers, TypeOK
      <4> QED BY <4>1, <4>2
    <3>2. /\ files' \in [Roots -> SUBSET Complete]
          /\ save' \in [pc: Steps, target: Roots \cup {None}, quiesced: BOOLEAN]
      BY <2>18 DEF RollBack, Moves, TypeOK, NoSave, Steps
    <3> QED BY <2>18, <3>1, <3>2 DEF RollBack, TypeOK
  <2> QED BY <1>1, <2>1, <2>2, <2>3, <2>4, <2>5, <2>6, <2>7, <2>8, <2>9, <2>10, <2>11, <2>12,
     <2>13, <2>14, <2>15, <2>16, <2>17, <2>18 DEF Saving
<1>2. ASSUME Updating PROVE TypeOK'
  <2>1. CASE BeginUpdate
    BY <2>1, OthersAssumption, RootsAssumption DEF BeginUpdate, Proceed, disk, workers,
       process, bounds, TypeOK, Steps, UpdateSteps, NoSave, Nothing, Complete
  <2>2. CASE UpdateStopsCameras
    BY <2>2, OthersAssumption, RootsAssumption DEF UpdateStopsCameras, Proceed, disk,
       workers, process, bounds, TypeOK, Steps, UpdateSteps, NoSave, Nothing, Complete
  <2>3. CASE UpdateStopsWorker
    <3>1. current \in Workers
      BY <2>3 DEF UpdateStopsWorker, Proceed, Runs, TypeOK
    <3> QED BY <2>3, <3>1 DEF UpdateStopsWorker, Proceed, TypeOK, UpdateSteps, disk,
       process, bounds
  <2>4. CASE WorkerJoined
    BY <2>4, OthersAssumption, RootsAssumption DEF WorkerJoined, Proceed, disk, workers,
       process, bounds, TypeOK, Steps, UpdateSteps, NoSave, Nothing, Complete
  <2>5. CASE NoWrites
    BY <2>5, OthersAssumption, RootsAssumption DEF NoWrites, Proceed, disk, workers,
       process, bounds, TypeOK, Steps, UpdateSteps, NoSave, Nothing, Complete
  <2>6. CASE Launch
    BY <2>6, OthersAssumption, RootsAssumption DEF Launch, Proceed, disk, workers,
       process, bounds, TypeOK, Steps, UpdateSteps, NoSave, Nothing, Complete
  <2>7. CASE UpdateAborts
    BY <2>7, OthersAssumption, RootsAssumption DEF UpdateAborts, Fault, Drained,
       Joining, Proceed, disk, workers, process, TypeOK, Steps, UpdateSteps, NoSave,
       Nothing, Complete
  <2>8. CASE ResumeWorker
    BY <2>8, OthersAssumption, RootsAssumption DEF ResumeWorker, Proceed, StartWorker,
       Unused, workers, disk, process, bounds, TypeOK, Steps, UpdateSteps, NoSave,
       Nothing, Complete
  <2>9. CASE ResumeCameras
    BY <2>9, OthersAssumption, RootsAssumption DEF ResumeCameras, Proceed, StartCameras,
       disk, workers, process, bounds, TypeOK, Steps, UpdateSteps, NoSave, Nothing,
       Complete
  <2>10. CASE View
    BY <2>10, OthersAssumption, RootsAssumption DEF View, StartCameras, disk, workers,
       process, bounds, TypeOK, Steps, UpdateSteps, NoSave, Nothing, Complete
  <2>11. CASE ResumeWorkerFails
    BY <2>11, OthersAssumption DEF ResumeWorkerFails, Fault, Proceed, WorkerFails,
       disk, workers, TypeOK,
       UpdateSteps, Producers
  <2>12. CASE ResumeCamerasFails
    BY <2>12, OthersAssumption DEF ResumeCamerasFails, Fault, Proceed, disk, workers, TypeOK,
       UpdateSteps, Producers
  <2> QED BY <1>2, <2>1, <2>2, <2>3, <2>4, <2>5, <2>6, <2>7, <2>8, <2>9, <2>10, <2>11,
     <2>12 DEF Updating
<1>3. ASSUME NEW i \in Readings, Accept(i) PROVE TypeOK'
  BY <1>3, OthersAssumption, RootsAssumption DEF Accept, workers, process, bounds,
     TypeOK, Steps, UpdateSteps, NoSave, Nothing, Complete
<1>4. ASSUME NEW w \in Workers, Delete(w) \/ Exit(w) \/ \E i \in Readings : Settle(w, i)
   PROVE TypeOK'
  <2>1. CASE Delete(w)
    BY <2>1, OthersAssumption, RootsAssumption DEF Delete, process, bounds, TypeOK,
       Steps, UpdateSteps, NoSave, Nothing, Complete
  <2>2. CASE Exit(w)
    BY <2>2, OthersAssumption, RootsAssumption DEF Exit, disk, process, bounds, TypeOK,
       Steps, UpdateSteps, NoSave, Nothing, Complete
  <2>3. ASSUME NEW i \in Readings, Settle(w, i) PROVE TypeOK'
    BY <2>3, OthersAssumption, RootsAssumption DEF Settle, Joining, process, bounds,
       TypeOK, Steps, UpdateSteps, NoSave, Nothing, Complete
  <2> QED BY <1>4, <2>1, <2>2, <2>3
<1>5. CASE Poll
  BY <1>5, OthersAssumption, RootsAssumption DEF Poll, Joining, StartWorker, Unused,
     workers, disk, process, bounds, TypeOK, Steps, UpdateSteps, NoSave, Nothing,
     Complete
<1>6. CASE Quit
  <2>1. save' \in [pc: Steps, target: Roots \cup {None}, quiesced: BOOLEAN] /\ update' \in UpdateSteps
        /\ staged' \in [settled: SUBSET Readings, owed: SUBSET Readings]
    BY <1>6 DEF Quit, Down, Steps, UpdateSteps, NoSave, Nothing
  <2>2. crashes' \in 0 .. MaxCrashes
    BY <1>6, OthersAssumption DEF Quit, TypeOK
  <2> QED BY <1>6, <2>1, <2>2 DEF Quit, Down, TypeOK
<1>7. CASE PowerCut
  <2>1. save' \in [pc: Steps, target: Roots \cup {None}, quiesced: BOOLEAN] /\ update' \in UpdateSteps
        /\ staged' \in [settled: SUBSET Readings, owed: SUBSET Readings]
    BY <1>7 DEF PowerCut, Down, Steps, UpdateSteps, NoSave, Nothing
  <2>2. crashes' \in 0 .. MaxCrashes
    BY <1>7, OthersAssumption DEF PowerCut, TypeOK
  <2> QED BY <1>7, <2>1, <2>2 DEF PowerCut, Down, TypeOK
<1>8. CASE Boot
  BY <1>8, OthersAssumption, RootsAssumption DEF Boot, StartWorker, Unused, workers,
     StartCameras, disk, bounds, TypeOK, Steps, UpdateSteps, NoSave, Nothing, Complete
<1>9. CASE UNCHANGED vars
  BY <1>9, <1>q DEF vars, disk, workers, process, bounds
<1> QED BY <1>1, <1>2, <1>3, <1>4, <1>5, <1>6, <1>7, <1>8, <1>9 DEF Next

\* Every step leaves nothing behind a process that is down.
LEMMA RestingStep == MoveInv /\ [Next]_vars => Resting'
<1> SUFFICES ASSUME MoveInv, [Next]_vars PROVE Resting'
  OBVIOUS
<1> USE DEF MoveInv
<1>k. TypeOK /\ Resting
  OBVIOUS
<1>q. ASSUME UNCHANGED <<save, update, restart, current, alive, cameras, synced, hand,
   up>> PROVE Resting'
  BY <1>q, <1>k DEF Resting
<1>1. ASSUME Saving PROVE Resting'
  <2>1. ASSUME NEW t \in Roots, Begin(t) PROVE Resting'
    BY <2>1, <1>k DEF Begin, disk, workers, process, bounds, Resting
  <2>2. CASE StopCameras
    BY <2>2, <1>k DEF StopCameras, Reach, disk, workers, process, bounds, Resting
  <2>3. CASE CamerasStuck
    BY <2>3, <1>k DEF CamerasStuck, Fault, Reach, disk, workers, process, Resting
  <2>4. CASE StopWorker
    BY <2>4, <1>k DEF StopWorker, Reach, disk, process, bounds, Resting
  <2>5. CASE Joined
    BY <2>5, <1>k DEF Joined, Reach, disk, workers, process, bounds, Resting
  <2>6. CASE Quiesced
    BY <2>6, <1>k DEF Quiesced, disk, workers, process, bounds, Resting
  <2>7. CASE SaveInPlace
    BY <2>7, <1>k DEF SaveInPlace, Moves, StartWorker, Unused, workers, StartCameras,
       disk, process, bounds, Resting,
       RestartBoth, WorkerFails, Fault, Producers
  <2>8. CASE CopyDatabase
    BY <2>8, <1>k DEF CopyDatabase, Moves, Reach, disk, workers, process, bounds,
       Resting
  <2>9. CASE CopySidecar
    BY <2>9, <1>k DEF CopySidecar, Reach, disk, workers, process, bounds, Resting
  <2>10. CASE BackupRefused
    BY <2>10, <1>k DEF BackupRefused, Reach, disk, workers, process, bounds, Resting
  <2>11. CASE PublishDatabase
    BY <2>11, <1>k DEF PublishDatabase, Reach, workers, process, bounds, Resting
  <2>12. CASE PublishSidecar
    BY <2>12, <1>k DEF PublishSidecar, Reach, workers, process, bounds, Resting
  <2>13. CASE ReplacePointer
    BY <2>13, <1>k DEF ReplacePointer, Reach, workers, bounds, Resting
  <2>14. CASE ReplaceMisreported
    BY <2>14, <1>k DEF ReplaceMisreported, Fault, Reach, workers, process, Resting
  <2>15. CASE SyncPointer
    BY <2>15, <1>k DEF SyncPointer, workers, process, bounds, Resting
  <2>16. CASE Fails
    BY <2>16, <1>k DEF Fails, Fault, Drained, Joining, Reach, disk, workers, process,
       Resting
  <2>17. CASE KeepMoved
    BY <2>17, <1>k DEF KeepMoved, Moves, disk, workers, bounds, Resting
  <2>18. CASE RollBack
    BY <2>18, <1>k DEF RollBack, Moves, RestartProducers, StartWorker, Unused, workers,
       StartCameras, bounds, Resting,
       RestartBoth, WorkerFails, Fault, Producers
  <2> QED BY <1>1, <2>1, <2>2, <2>3, <2>4, <2>5, <2>6, <2>7, <2>8, <2>9, <2>10, <2>11, <2>12,
     <2>13, <2>14, <2>15, <2>16, <2>17, <2>18 DEF Saving
<1>2. ASSUME Updating PROVE Resting'
  <2>1. CASE BeginUpdate
    BY <2>1, <1>k DEF BeginUpdate, Proceed, disk, workers, process, bounds, Resting
  <2>2. CASE UpdateStopsCameras
    BY <2>2, <1>k DEF UpdateStopsCameras, Proceed, disk, workers, process, bounds,
       Resting
  <2>3. CASE UpdateStopsWorker
    BY <2>3, <1>k DEF UpdateStopsWorker, Proceed, disk, process, bounds, Resting
  <2>4. CASE WorkerJoined
    BY <2>4, <1>k DEF WorkerJoined, Proceed, disk, workers, process, bounds, Resting
  <2>5. CASE NoWrites
    BY <2>5, <1>k DEF NoWrites, Proceed, disk, workers, process, bounds, Resting
  <2>6. CASE Launch
    BY <2>6, <1>k DEF Launch, Proceed, disk, workers, process, bounds, Resting
  <2>7. CASE UpdateAborts
    BY <2>7, <1>k DEF UpdateAborts, Fault, Drained, Joining, Proceed, disk, workers,
       process, Resting
  <2>8. CASE ResumeWorker
    BY <2>8, <1>k DEF ResumeWorker, Proceed, StartWorker, Unused, workers, disk,
       process, bounds, Resting
  <2>9. CASE ResumeCameras
    BY <2>9, <1>k DEF ResumeCameras, Proceed, StartCameras, disk, workers, process,
       bounds, Resting
  <2>10. CASE View
    BY <2>10, <1>k DEF View, StartCameras, disk, workers, process, bounds, Resting
  <2>11. CASE ResumeWorkerFails
    BY <2>11, <1>k DEF ResumeWorkerFails, Fault, Proceed, WorkerFails, disk, workers, Resting
  <2>12. CASE ResumeCamerasFails
    BY <2>12, <1>k DEF ResumeCamerasFails, Fault, Proceed, disk, workers, Resting
  <2> QED BY <1>2, <2>1, <2>2, <2>3, <2>4, <2>5, <2>6, <2>7, <2>8, <2>9, <2>10, <2>11,
     <2>12 DEF Updating
<1>3. ASSUME NEW i \in Readings, Accept(i) PROVE Resting'
  BY <1>3, <1>q DEF Accept, workers, process, bounds, disk
<1>4. ASSUME NEW w \in Workers, Delete(w) \/ Exit(w) \/ \E i \in Readings : Settle(w, i)
   PROVE Resting'
  <2>1. CASE Delete(w)
    BY <2>1, <1>k DEF Delete, process, bounds, Resting
  <2>2. CASE Exit(w)
    BY <2>2, <1>k DEF Exit, disk, process, bounds, Resting
  <2>3. ASSUME NEW i \in Readings, Settle(w, i) PROVE Resting'
    BY <2>3, <1>k DEF Settle, Joining, process, bounds, Resting
  <2> QED BY <1>4, <2>1, <2>2, <2>3
<1>5. CASE Poll
  BY <1>5, <1>k DEF Poll, Joining, StartWorker, Unused, workers, disk, process, bounds,
     Resting
<1>6. CASE Quit
  BY <1>6, <1>k DEF Quit, Down, Resting
<1>7. CASE PowerCut
  BY <1>7, <1>k DEF PowerCut, Down, Resting
<1>8. CASE Boot
  BY <1>8, <1>k DEF Boot, StartWorker, Unused, workers, StartCameras, disk, bounds,
     Resting
<1>9. CASE UNCHANGED vars
  BY <1>9, <1>q DEF vars, disk, workers, process, bounds
<1> QED BY <1>1, <1>2, <1>3, <1>4, <1>5, <1>6, <1>7, <1>8, <1>9 DEF Next

\* Every step leaves one worker running at most.
LEMMA RunsStep == MoveInv /\ [Next]_vars => Runs'
<1> SUFFICES ASSUME MoveInv, [Next]_vars PROVE Runs'
  OBVIOUS
<1> USE DEF MoveInv
<1>k. TypeOK /\ Resting /\ Runs /\ None \notin Workers \cup Readings
      /\ (StartWorker => /\ current' \in Workers /\ alive \subseteq alive'
                         /\ stopped' = stopped /\ hand' = hand
                         /\ current' \in alive' \ stopped' /\ alive' \ stopped' \subseteq {current'})
  BY StartEffect, OthersAssumption
<1>q. ASSUME UNCHANGED <<current, stopped, alive, hand, up, settled, root>> PROVE Runs'
  BY <1>q, <1>k DEF Runs
<1>1. ASSUME Saving PROVE Runs'
  <2>1. CASE StopWorker
    BY <2>1, <1>k DEF StopWorker, Reach, disk, process, bounds, Runs
  <2>2. CASE SaveInPlace
    BY <2>2, <1>k DEF SaveInPlace, Moves, workers, StartCameras, disk, process, bounds,
       Runs,
       RestartBoth, WorkerFails, Fault, Producers
  <2>3. CASE PublishDatabase
    <3>1. settled'[root] = settled[root]
      BY <2>3 DEF PublishDatabase, Reach, Turns, Copying, TypeOK
    <3> QED BY <2>3, <3>1, <1>k DEF PublishDatabase, Reach, Runs, workers, process
  <2>4. CASE RollBack
    BY <2>4, <1>k DEF RollBack, Moves, RestartProducers, workers, StartCameras, bounds,
       Runs,
       RestartBoth, WorkerFails, Fault, Producers
  <2> QED BY <1>1, <2>1, <2>2, <2>3, <2>4, <1>q DEF Saving, Begin, disk, workers,
     process, bounds, StopCameras, Reach, CamerasStuck, Fault, Joined, Quiesced,
     CopyDatabase, Moves, CopySidecar, BackupRefused, PublishSidecar, ReplacePointer,
     ReplaceMisreported, SyncPointer, Fails, Drained, Joining, KeepMoved
<1>2. ASSUME Updating PROVE Runs'
  <2>1. CASE UpdateStopsWorker
    BY <2>1, <1>k DEF UpdateStopsWorker, Proceed, disk, process, bounds, Runs
  <2>2. CASE ResumeWorker
    BY <2>2, <1>k DEF ResumeWorker, Proceed, workers, disk, process, bounds, Runs
  <2> QED BY <1>2, <2>1, <2>2, <1>q DEF Updating, BeginUpdate, Proceed, disk, workers,
     process, bounds, UpdateStopsCameras, WorkerJoined, NoWrites, Launch, UpdateAborts,
     Fault, Drained, Joining, ResumeCameras, StartCameras, View,
       ResumeWorkerFails, WorkerFails, ResumeCamerasFails
<1>3. ASSUME NEW i \in Readings, Accept(i) PROVE Runs'
  BY <1>3, <1>q DEF Accept, workers, process, bounds, disk
<1>4. ASSUME NEW w \in Workers, Delete(w) \/ Exit(w) \/ \E i \in Readings : Settle(w, i)
   PROVE Runs'
  <2>1. CASE Delete(w)
    BY <2>1, <1>k DEF Delete, process, bounds, Runs
  <2>2. CASE Exit(w)
    BY <2>2, <1>k DEF Exit, disk, process, bounds, Runs
  <2>3. ASSUME NEW i \in Readings, Settle(w, i) PROVE Runs'
    <3>1. settled[root] \subseteq settled'[root] /\ i \in settled'[root] /\ up' = up /\ root' = root
      BY <2>3 DEF Settle, process, TypeOK
    <3>2. \A v \in Workers : hand'[v] = IF v = w THEN i ELSE hand[v]
      BY <2>3 DEF Settle, TypeOK
    <3> QED BY <2>3, <3>1, <3>2, <1>k DEF Settle, Runs
  <2> QED BY <1>4, <2>1, <2>2, <2>3
<1>5. CASE Poll
  BY <1>5, <1>k DEF Poll, Joining, workers, disk, process, bounds, Runs
<1>6. CASE Quit
  BY <1>6, <1>k DEF Quit, Down, Runs
<1>7. CASE PowerCut
  BY <1>7, <1>k DEF PowerCut, Down, Runs
<1>8. CASE Boot
  BY <1>8, <1>k DEF Boot, Resting, Runs
<1>9. CASE UNCHANGED vars
  BY <1>9, <1>q DEF vars, disk, workers, process, bounds
<1> QED BY <1>1, <1>2, <1>3, <1>4, <1>5, <1>6, <1>7, <1>8, <1>9 DEF Next

\* Every step keeps saves and updates in turn.
LEMMA TurnsStep == MoveInv /\ [Next]_vars => Turns'
<1> SUFFICES ASSUME MoveInv, [Next]_vars PROVE Turns'
  OBVIOUS
<1> USE DEF MoveInv
<1>k. TypeOK /\ Resting /\ Runs /\ Turns /\ Ahead /\ None \notin Workers
      /\ (StartWorker => current' \in alive' \ stopped' /\ stopped' = stopped)
      /\ \A from, to : Reach(from, to) /\ to \in Steps =>
           up /\ save.pc = from /\ save'.pc = to /\ save'.target = save.target
  BY ReachEffect, StartEffect, OthersAssumption
<1>q. ASSUME UNCHANGED <<save, update, restart, root, cameras, current, stopped>> PROVE
   Turns'
  BY <1>q, <1>k DEF Turns, NoSave, Copying, Quiet
<1>1. ASSUME Saving PROVE Turns'
  <2>1. ASSUME NEW t \in Roots, Begin(t) PROVE Turns'
    BY <2>1, <1>k DEF Begin, disk, workers, process, bounds, Turns, NoSave, Copying,
       Quiet, Steps
  <2>2. CASE StopCameras
    BY <2>2, <1>k DEF StopCameras, disk, workers, process, bounds, Turns, NoSave,
       Copying, Quiet, Steps
  <2>3. CASE CamerasStuck
    BY <2>3, <1>k DEF CamerasStuck, Fault, disk, workers, process, Turns, NoSave,
       Copying, Quiet, Steps
  <2>4. CASE StopWorker
    BY <2>4, <1>k DEF StopWorker, disk, process, bounds, Turns, NoSave, Copying, Quiet,
       Steps
  <2>5. CASE Joined
    BY <2>5, <1>k DEF Joined, disk, workers, process, bounds, Turns, NoSave, Copying,
       Quiet, Steps
  <2>6. CASE Quiesced
    <3>1. save'.pc = "quiesced" /\ save'.target = save.target /\ save.pc = "checking"
      BY <2>6 DEF Quiesced, TypeOK
    <3> QED BY <2>6, <1>k, <3>1 DEF Quiesced, Turns, NoSave, Quiet, Copying, workers,
       process
  <2>7. CASE SaveInPlace
    BY <2>7, <1>k DEF SaveInPlace, Moves, workers, StartCameras, disk, process, bounds,
       Turns, NoSave, Copying, Quiet, Steps,
       RestartBoth, WorkerFails, Fault, Producers
  <2>8. CASE CopyDatabase
    BY <2>8, <1>k DEF CopyDatabase, Moves, disk, workers, process, bounds, Turns,
       NoSave, Copying, Quiet, Steps
  <2>9. CASE CopySidecar
    BY <2>9, <1>k DEF CopySidecar, disk, workers, process, bounds, Turns, NoSave,
       Copying, Quiet, Steps
  <2>10. CASE BackupRefused
    BY <2>10, <1>k DEF BackupRefused, disk, workers, process, bounds, Turns, NoSave,
       Copying, Quiet, Steps
  <2>11. CASE PublishDatabase
    BY <2>11, <1>k DEF PublishDatabase, workers, process, bounds, Turns, NoSave,
       Copying, Quiet, Steps
  <2>12. CASE PublishSidecar
    BY <2>12, <1>k DEF PublishSidecar, workers, process, bounds, Turns, NoSave, Copying,
       Quiet, Steps
  <2>13. CASE ReplacePointer
    BY <2>13, <1>k DEF ReplacePointer, workers, bounds, Turns, NoSave, Copying, Quiet,
       Steps
  <2>14. CASE ReplaceMisreported
    BY <2>14, <1>k DEF ReplaceMisreported, Fault, workers, process, Turns, NoSave,
       Copying, Quiet, Steps
  <2>15. CASE SyncPointer
    BY <2>15, <1>k DEF SyncPointer, workers, process, bounds, Turns, NoSave, Copying,
       Quiet, Steps
  <2>16. CASE Fails
    <3>1. CASE Reach(save.pc, "failed") /\ save.pc \in Quiet \ {"shutting", "pointed"}
      <4> QED BY <2>16, <1>k, <3>1 DEF Fails, Turns, Steps, Quiet, Copying, NoSave,
         disk, workers, process
    <3>2. CASE save' = NoSave /\ save.pc = "pointed"
      BY <2>16, <1>k, <3>2 DEF Fails, Turns, NoSave, Quiet, Copying, workers, process
    <3> QED BY <2>16, <3>1, <3>2 DEF Fails, Quiet, Copying
  <2>17. CASE KeepMoved
    BY <2>17, <1>k DEF KeepMoved, Moves, disk, workers, bounds, Turns, NoSave, Copying,
       Quiet, Steps
  <2>18. CASE RollBack
    BY <2>18, <1>k DEF RollBack, Moves, RestartProducers, workers, StartCameras, bounds,
       Turns, NoSave, Copying, Quiet, Steps,
       RestartBoth, WorkerFails, Fault, Producers
  <2> QED BY <1>1, <2>1, <2>2, <2>3, <2>4, <2>5, <2>6, <2>7, <2>8, <2>9, <2>10, <2>11, <2>12,
     <2>13, <2>14, <2>15, <2>16, <2>17, <2>18 DEF Saving
<1>2. ASSUME Updating PROVE Turns'
  <2>1. CASE BeginUpdate
    BY <2>1, <1>k DEF BeginUpdate, Proceed, disk, workers, process, bounds, Turns,
       NoSave, Copying, Quiet, Steps
  <2>2. CASE UpdateStopsCameras
    BY <2>2, <1>k DEF UpdateStopsCameras, Proceed, disk, workers, process, bounds,
       Turns, NoSave, Copying, Quiet, Steps
  <2>3. CASE UpdateStopsWorker
    BY <2>3, <1>k DEF UpdateStopsWorker, Proceed, disk, process, bounds, Turns, NoSave,
       Copying, Quiet, Steps
  <2>4. CASE WorkerJoined
    BY <2>4, <1>k DEF WorkerJoined, Proceed, disk, workers, process, bounds, Turns,
       NoSave, Copying, Quiet, Steps
  <2>5. CASE NoWrites
    BY <2>5, <1>k DEF NoWrites, Proceed, disk, workers, process, bounds, Turns, NoSave,
       Copying, Quiet, Steps
  <2>6. CASE Launch
    BY <2>6, <1>k DEF Launch, Proceed, disk, workers, process, bounds, Turns, NoSave,
       Copying, Quiet, Steps
  <2>7. CASE UpdateAborts
    BY <2>7, <1>k DEF UpdateAborts, Fault, Drained, Joining, Proceed, disk, workers,
       process, Turns, NoSave, Copying, Quiet, Steps
  <2>8. CASE ResumeWorker
    BY <2>8, <1>k DEF ResumeWorker, Proceed, workers, disk, process, bounds, Turns,
       NoSave, Copying, Quiet, Steps
  <2>9. CASE ResumeCameras
    BY <2>9, <1>k DEF ResumeCameras, Proceed, StartCameras, disk, workers, process,
       bounds, Turns, NoSave, Copying, Quiet, Steps
  <2>10. CASE View
    BY <2>10, <1>k DEF View, StartCameras, disk, workers, process, bounds, Turns,
       NoSave, Copying, Quiet, Steps
  <2>11. CASE ResumeWorkerFails
    BY <2>11, <1>k DEF ResumeWorkerFails, Fault, Proceed, WorkerFails, disk, workers, Turns, NoSave,
       Copying, Quiet
  <2>12. CASE ResumeCamerasFails
    BY <2>12, <1>k DEF ResumeCamerasFails, Fault, Proceed, disk, workers, Turns, NoSave,
       Copying, Quiet
  <2> QED BY <1>2, <2>1, <2>2, <2>3, <2>4, <2>5, <2>6, <2>7, <2>8, <2>9, <2>10, <2>11,
     <2>12 DEF Updating
<1>3. ASSUME NEW i \in Readings, Accept(i) PROVE Turns'
  BY <1>3, <1>q DEF Accept, workers, process, bounds, disk
<1>4. ASSUME NEW w \in Workers, Delete(w) \/ Exit(w) \/ \E i \in Readings : Settle(w, i)
   PROVE Turns'
  BY <1>4, <1>q DEF Delete, process, bounds, Exit, disk, Settle, Joining, workers
<1>5. CASE Poll
  BY <1>5, <1>k DEF Poll, Joining, workers, disk, process, bounds, Turns, NoSave,
     Copying, Quiet, Steps
<1>6. CASE Quit
  BY <1>6, <1>k DEF Quit, Down, Turns, NoSave, Copying, Quiet, Steps
<1>7. CASE PowerCut
  BY <1>7, <1>k DEF PowerCut, Down, Turns, NoSave, Copying, Quiet, Steps
<1>8. CASE Boot
  BY <1>8, <1>k DEF Boot, Resting, Turns, NoSave, Quiet, Copying, StartCameras, disk
<1>9. CASE UNCHANGED vars
  BY <1>9, <1>q DEF vars, disk, workers, process, bounds
<1> QED BY <1>1, <1>2, <1>3, <1>4, <1>5, <1>6, <1>7, <1>8, <1>9 DEF Next

\* Every step keeps what the copies hold.
LEMMA CopiesStep == MoveInv /\ [Next]_vars => Copies'
<1> SUFFICES ASSUME MoveInv, [Next]_vars PROVE Copies'
  OBVIOUS
<1> USE DEF MoveInv
<1>k. /\ TypeOK /\ Resting /\ Runs /\ Turns /\ Copies /\ Ahead /\ Safe /\ None \notin Workers \cup Readings
      /\ (StartWorker => /\ current' \in alive' \ stopped' /\ stopped' = stopped
                         /\ (current \notin stopped /\ current # None => current' = current))
      /\ \A from, to : Reach(from, to) /\ to \in Steps =>
           up /\ save.pc = from /\ save'.pc = to /\ save'.target = save.target
  BY ReachEffect, StartEffect, OthersAssumption
<1>c. /\ save.pc \in Quiet => up /\ cameras = "off" /\ update \in {"idle", "launched"}
      /\ save.pc \in Quiet \ {"pointed"} => pointer = root /\ ~restart
      /\ save.pc \in Copying => save.target \in Roots /\ save.target # root
      /\ up /\ cameras # "off" => pointer = root
      /\ up /\ ~restart /\ save.pc # "failed" => pointer = root
  BY DEF Resting, Turns, Ahead, Quiet, Copying, NoSave
<1>q. ASSUME UNCHANGED <<save, current, stopped, staged, settled, owed, files, accepted,
   root>> PROVE Copies'
  BY <1>q, <1>k DEF Copies
<1>1. ASSUME Saving PROVE Copies'
  <2>1. ASSUME NEW t \in Roots, Begin(t) PROVE Copies'
    BY <2>1, <1>k DEF Begin, disk, workers, process, bounds, Copies, NoSave, Steps
  <2>2. CASE StopCameras
    BY <2>2, <1>k DEF StopCameras, disk, workers, process, bounds, Copies, NoSave, Steps
  <2>3. CASE CamerasStuck
    BY <2>3, <1>k DEF CamerasStuck, Fault, disk, workers, process, Copies, NoSave, Steps
  <2>4. CASE StopWorker
    BY <2>4, <1>k DEF StopWorker, disk, process, bounds, Copies, NoSave, Steps
  <2>5. CASE Joined
    BY <2>5, <1>k DEF Joined, disk, workers, process, bounds, Copies, NoSave, Steps
  <2>6. CASE Quiesced
    BY <2>6, <1>k DEF Quiesced, disk, workers, process, bounds, Copies, NoSave, Steps
  <2>7. CASE SaveInPlace
    BY <2>7, <1>k DEF SaveInPlace, Moves, workers, StartCameras, disk, process, bounds,
       Copies, NoSave, Steps,
       RestartBoth, WorkerFails, Fault, Producers
  <2>8. CASE CopyDatabase
    BY <2>8, <1>k DEF CopyDatabase, Moves, disk, workers, process, bounds, Copies,
       NoSave, Steps
  <2>9. CASE CopySidecar
    <3>1. save'.pc = "copied" /\ save.pc = "dbcopied" /\ up /\ accepted \subseteq settled[root] \cup owed[root]
      BY <2>9, <1>k DEF CopySidecar, Steps, Safe, Whole
    <3>2. staged'.settled = settled[root] /\ staged'.owed = owed[root]
      BY <2>9, <1>k, <3>1 DEF CopySidecar, Copies, TypeOK
    <3> QED BY <2>9, <3>1, <3>2 DEF CopySidecar, Copies, disk
  <2>10. CASE BackupRefused
    BY <2>10, <1>k DEF BackupRefused, disk, workers, process, bounds, Copies, NoSave,
       Steps
  <2>11. CASE PublishDatabase
    <3>1. save'.pc = "dbpublished" /\ save.pc = "copied" /\ save'.target = save.target /\ save.target \in Roots
      BY <2>11, <1>k, <1>c DEF PublishDatabase, Steps, Copying
    <3>2. "db" \in files'[save.target] /\ settled'[save.target] = staged.settled
      BY <2>11, <3>1 DEF PublishDatabase, TypeOK
    <3> QED BY <2>11, <1>k, <3>1, <3>2 DEF PublishDatabase, Copies
  <2>12. CASE PublishSidecar
    <3>1. save'.pc = "published" /\ save.pc = "dbpublished" /\ save'.target = save.target /\ save.target \in Roots
      BY <2>12, <1>k, <1>c DEF PublishSidecar, Steps, Copying
    <3>2. files'[save.target] = files[save.target] \cup {"sidecar"} /\ owed'[save.target] = staged.owed
      BY <2>12, <3>1 DEF PublishSidecar, TypeOK
    <3> QED BY <2>12, <1>k, <3>1, <3>2 DEF PublishSidecar, Copies
  <2>13. CASE ReplacePointer
    BY <2>13, <1>k DEF ReplacePointer, workers, bounds, Copies, NoSave, Steps
  <2>14. CASE ReplaceMisreported
    BY <2>14, <1>k DEF ReplaceMisreported, Fault, workers, process, Copies, NoSave,
       Steps
  <2>15. CASE SyncPointer
    BY <2>15, <1>k DEF SyncPointer, workers, process, bounds, Copies, NoSave, Steps
  <2>16. CASE Fails
    BY <2>16, <1>k DEF Fails, Fault, Drained, Joining, disk, workers, process, Copies,
       NoSave, Steps
  <2>17. CASE KeepMoved
    BY <2>17, <1>k DEF KeepMoved, Moves, disk, workers, bounds, Copies, NoSave, Steps
  <2>18. CASE RollBack
    BY <2>18, <1>k DEF RollBack, Moves, RestartProducers, workers, StartCameras, bounds,
       Copies, NoSave, Steps,
       RestartBoth, WorkerFails, Fault, Producers
  <2> QED BY <1>1, <2>1, <2>2, <2>3, <2>4, <2>5, <2>6, <2>7, <2>8, <2>9, <2>10, <2>11, <2>12,
     <2>13, <2>14, <2>15, <2>16, <2>17, <2>18 DEF Saving
<1>2. ASSUME Updating PROVE Copies'
  <2>1. CASE UpdateStopsWorker
    <3>1. save.pc = "idle"
      BY <2>1, <1>k DEF UpdateStopsWorker, Proceed, Turns
    <3> QED BY <2>1, <3>1 DEF UpdateStopsWorker, Copies
  <2>2. CASE ResumeWorker
    BY <2>2, <1>k DEF ResumeWorker, Proceed, workers, disk, process, bounds, Copies,
       NoSave, Steps
  <2> QED BY <1>2, <2>1, <2>2, <1>q DEF Updating, BeginUpdate, Proceed, disk, workers,
     process, bounds, UpdateStopsCameras, WorkerJoined, NoWrites, Launch, UpdateAborts,
     Fault, Drained, Joining, ResumeCameras, StartCameras, View,
       ResumeWorkerFails, WorkerFails, ResumeCamerasFails
<1>3. ASSUME NEW i \in Readings, Accept(i) PROVE Copies'
  <2>1. save.pc \notin Quiet
    BY <1>3, <1>c DEF Accept
  <2> QED BY <1>3, <2>1 DEF Accept, Copies, Quiet, Copying
<1>4. ASSUME NEW w \in Workers, Delete(w) \/ Exit(w) \/ \E i \in Readings : Settle(w, i)
   PROVE Copies'
  <2>1. CASE Delete(w)
    <3>1. save.pc \in Copying => owed'[save.target] = owed[save.target]
      BY <2>1, <1>k, <1>c DEF Delete, TypeOK
    <3> QED BY <2>1, <1>k, <3>1 DEF Delete, Copies, Copying, process
  <2>2. ASSUME NEW i \in Readings, Settle(w, i) PROVE Copies'
    <3>1. save.pc \in Copying => settled'[save.target] = settled[save.target]
      BY <2>2, <1>k, <1>c DEF Settle, TypeOK
    <3>2. save.pc = "dbcopied" => current \notin stopped
      BY <2>2, <1>k, <1>c DEF Settle, Runs, Joining, Quiet, Copying
    <3> QED BY <2>2, <1>k, <3>1, <3>2 DEF Settle, Copies, Copying, process
  <2> QED BY <1>4, <2>1, <2>2, <1>q DEF Exit, disk, process, bounds, workers
<1>5. CASE Poll
  BY <1>5, <1>k DEF Poll, Joining, workers, disk, process, bounds, Copies, NoSave, Steps
<1>6. CASE Quit
  BY <1>6, <1>k DEF Quit, Down, Copies, NoSave, Steps
<1>7. CASE PowerCut
  BY <1>7, <1>k DEF PowerCut, Down, Copies, NoSave, Steps
<1>8. CASE Boot
  BY <1>8, <1>k DEF Boot, workers, StartCameras, disk, bounds, Copies, NoSave, Steps
<1>9. CASE UNCHANGED vars
  BY <1>9, <1>q DEF vars, disk, workers, process, bounds
<1> QED BY <1>1, <1>2, <1>3, <1>4, <1>5, <1>6, <1>7, <1>8, <1>9 DEF Next

\* Every step keeps the process behind the pointer quiet.
LEMMA AheadStep == MoveInv /\ [Next]_vars => Ahead'
<1> SUFFICES ASSUME MoveInv, [Next]_vars PROVE Ahead'
  OBVIOUS
<1> USE DEF MoveInv
<1>k. /\ TypeOK /\ Resting /\ Runs /\ Turns /\ Copies /\ Ahead /\ Safe /\ None \notin Workers \cup Readings
      /\ (StartWorker => /\ current' \in alive' \ stopped' /\ stopped' = stopped
                         /\ (current \notin stopped /\ current # None => current' = current))
      /\ \A from, to : Reach(from, to) /\ to \in Steps =>
           up /\ save.pc = from /\ save'.pc = to /\ save'.target = save.target
  BY ReachEffect, StartEffect, OthersAssumption
<1>c. /\ save.pc \in Quiet => up /\ cameras = "off" /\ update \in {"idle", "launched"}
      /\ save.pc \in Quiet \ {"pointed"} => pointer = root /\ ~restart
      /\ save.pc \in Copying => save.target \in Roots /\ save.target # root
      /\ up /\ cameras # "off" => pointer = root
      /\ up /\ ~restart /\ save.pc # "failed" => pointer = root
  BY DEF Resting, Turns, Ahead, Quiet, Copying, NoSave
<1>q. ASSUME UNCHANGED <<save, up, pointer, root, restart, cameras>> PROVE Ahead'
  BY <1>q, <1>k DEF Ahead
<1>1. ASSUME Saving PROVE Ahead'
  <2>1. ASSUME NEW t \in Roots, Begin(t) PROVE Ahead'
    BY <2>1, <1>k DEF Begin, disk, workers, process, bounds, Ahead, NoSave, Steps
  <2>2. CASE StopCameras
    BY <2>2, <1>k DEF StopCameras, disk, workers, process, bounds, Ahead, NoSave, Steps
  <2>3. CASE CamerasStuck
    BY <2>3, <1>k DEF CamerasStuck, Fault, disk, workers, process, Ahead, NoSave, Steps
  <2>4. CASE StopWorker
    BY <2>4, <1>k DEF StopWorker, disk, process, bounds, Ahead, NoSave, Steps
  <2>5. CASE Joined
    BY <2>5, <1>k DEF Joined, disk, workers, process, bounds, Ahead, NoSave, Steps
  <2>6. CASE Quiesced
    BY <2>6, <1>k DEF Quiesced, disk, workers, process, bounds, Ahead, NoSave, Steps
  <2>7. CASE SaveInPlace
    <3>1. pointer = root
      BY <2>7, <1>c DEF SaveInPlace, Quiet,
       RestartBoth, WorkerFails, Fault, Producers
    <3> QED BY <2>7, <3>1 DEF SaveInPlace, Ahead, NoSave, disk, process,
       RestartBoth, WorkerFails, Fault, Producers
  <2>8. CASE CopyDatabase
    BY <2>8, <1>k DEF CopyDatabase, Moves, disk, workers, process, bounds, Ahead,
       NoSave, Steps
  <2>9. CASE CopySidecar
    BY <2>9, <1>k DEF CopySidecar, disk, workers, process, bounds, Ahead, NoSave, Steps
  <2>10. CASE BackupRefused
    BY <2>10, <1>k DEF BackupRefused, disk, workers, process, bounds, Ahead, NoSave,
       Steps
  <2>11. CASE PublishDatabase
    BY <2>11, <1>k DEF PublishDatabase, workers, process, bounds, Ahead, NoSave, Steps
  <2>12. CASE PublishSidecar
    BY <2>12, <1>k DEF PublishSidecar, workers, process, bounds, Ahead, NoSave, Steps
  <2>13. CASE ReplacePointer
    <3>1. save'.pc = "pointed" /\ save'.target = save.target /\ cameras = "off"
      BY <2>13, <1>k, <1>c DEF ReplacePointer, Steps, Quiet, Copying
    <3> QED BY <2>13, <3>1 DEF ReplacePointer, Ahead
  <2>14. CASE ReplaceMisreported
    <3>1. save'.pc = "failed" /\ save'.target = save.target /\ cameras = "off"
      BY <2>14, <1>k, <1>c DEF ReplaceMisreported, Steps, Quiet, Copying
    <3> QED BY <2>14, <3>1 DEF ReplaceMisreported, Ahead
  <2>15. CASE SyncPointer
    BY <2>15, <1>k DEF SyncPointer, workers, process, bounds, Ahead, NoSave, Steps
  <2>16. CASE Fails
    BY <2>16, <1>k DEF Fails, Fault, Drained, Joining, disk, workers, process, Ahead,
       NoSave, Steps
  <2>17. CASE KeepMoved
    BY <2>17, <1>k DEF KeepMoved, Moves, disk, workers, bounds, Ahead, NoSave, Steps
  <2>18. CASE RollBack
    <3>1. pointer = root
      BY <2>18, <1>k DEF RollBack, Moves, Ahead, Turns,
       RestartBoth, WorkerFails, Fault, Producers
    <3> QED BY <2>18, <3>1 DEF RollBack, Ahead, NoSave,
       RestartBoth, WorkerFails, Fault, Producers
  <2> QED BY <1>1, <2>1, <2>2, <2>3, <2>4, <2>5, <2>6, <2>7, <2>8, <2>9, <2>10, <2>11, <2>12,
     <2>13, <2>14, <2>15, <2>16, <2>17, <2>18 DEF Saving
<1>2. ASSUME Updating PROVE Ahead'
  <2>1. CASE UpdateStopsCameras
    BY <2>1, <1>k DEF UpdateStopsCameras, Proceed, disk, workers, process, bounds,
       Ahead, NoSave, Steps
  <2>2. CASE UpdateAborts
    BY <2>2, <1>k DEF UpdateAborts, Fault, Drained, Joining, Proceed, disk, workers,
       process, Ahead, NoSave, Steps
  <2>3. CASE ResumeCameras
    <3>1. pointer = root /\ save.pc = "idle"
      BY <2>3, <1>k, <1>c DEF ResumeCameras, Proceed, Turns
    <3> QED BY <2>3, <3>1 DEF ResumeCameras, Proceed, Ahead, disk, process
  <2>4. CASE View
    BY <2>4, <1>k DEF View, StartCameras, disk, workers, process, bounds, Ahead, NoSave,
       Steps
  <2> QED BY <1>2, <2>1, <2>2, <2>3, <2>4, <1>q DEF Updating, BeginUpdate, Proceed,
     disk, workers, process, bounds, UpdateStopsWorker, WorkerJoined, NoWrites, Launch,
     ResumeWorker,
       ResumeWorkerFails, WorkerFails, ResumeCamerasFails
<1>3. ASSUME NEW i \in Readings, Accept(i) PROVE Ahead'
  BY <1>3, <1>q DEF Accept, workers, process, bounds, disk
<1>4. ASSUME NEW w \in Workers, Delete(w) \/ Exit(w) \/ \E i \in Readings : Settle(w, i)
   PROVE Ahead'
  BY <1>4, <1>q DEF Delete, process, bounds, Exit, disk, Settle, Joining, workers
<1>5. CASE Quit
  BY <1>5, <1>k DEF Quit, Down, Ahead, NoSave, Steps
<1>6. CASE PowerCut
  BY <1>6, <1>k DEF PowerCut, Down, Ahead, NoSave, Steps
<1>7. CASE Boot
  BY <1>7, <1>k DEF Boot, workers, StartCameras, disk, bounds, Ahead, NoSave, Steps
<1>8. CASE Poll \/ UNCHANGED vars
  BY <1>8, <1>q DEF Poll, Joining, workers, disk, process, bounds, vars
<1> QED BY <1>1, <1>2, <1>3, <1>4, <1>5, <1>6, <1>7, <1>8 DEF Next

\* Every step leaves every reading in the root of the process and in the next one.
LEMMA SafeStep == MoveInv /\ [Next]_vars => Safe'
<1> SUFFICES ASSUME MoveInv, [Next]_vars PROVE Safe'
  OBVIOUS
<1> USE DEF MoveInv
<1>k. /\ TypeOK /\ Resting /\ Runs /\ Turns /\ Copies /\ Ahead /\ Safe /\ None \notin Workers \cup Readings
      /\ (StartWorker => /\ current' \in alive' \ stopped' /\ stopped' = stopped
                         /\ (current \notin stopped /\ current # None => current' = current))
      /\ \A from, to : Reach(from, to) /\ to \in Steps =>
           up /\ save.pc = from /\ save'.pc = to /\ save'.target = save.target
  BY ReachEffect, StartEffect, OthersAssumption
<1>c. /\ save.pc \in Quiet => up /\ cameras = "off" /\ update \in {"idle", "launched"}
      /\ save.pc \in Quiet \ {"pointed"} => pointer = root /\ ~restart
      /\ save.pc \in Copying => save.target \in Roots /\ save.target # root
      /\ up /\ cameras # "off" => pointer = root
      /\ up /\ ~restart /\ save.pc # "failed" => pointer = root
  BY DEF Resting, Turns, Ahead, Quiet, Copying, NoSave
<1>q. ASSUME UNCHANGED <<up, pointer, root, settled, owed, files, accepted>> PROVE Safe'
  BY <1>q, <1>k DEF Safe, Whole
<1>1. ASSUME Saving PROVE Safe'
  <2>1. CASE PublishDatabase
    <3>1. save.target # root /\ save.target # pointer
      BY <2>1, <1>k, <1>c DEF PublishDatabase, Quiet, Copying, Steps
    <3>2. ASSUME NEW r \in Roots, r # save.target PROVE files'[r] = files[r] /\ settled'[r] = settled[r]
      BY <2>1, <3>2 DEF PublishDatabase, TypeOK
    <3> QED BY <2>1, <1>k, <3>1, <3>2 DEF PublishDatabase, Safe, Whole, TypeOK, process
  <2>2. CASE PublishSidecar
    <3>1. save.target # root /\ save.target # pointer
      BY <2>2, <1>k, <1>c DEF PublishSidecar, Quiet, Copying, Steps
    <3>2. ASSUME NEW r \in Roots, r # save.target PROVE files'[r] = files[r] /\ owed'[r] = owed[r]
      BY <2>2, <3>2 DEF PublishSidecar, TypeOK
    <3> QED BY <2>2, <1>k, <3>1, <3>2 DEF PublishSidecar, Safe, Whole, TypeOK, process
  <2>3. CASE ReplacePointer
    <3>1. save.pc = "published" /\ save.target \in Roots
      BY <2>3, <1>k, <1>c DEF ReplacePointer, Copying, Steps
    <3>2. Whole(save.target)
      BY <1>k, <3>1 DEF Copies, Whole, TypeOK, Complete
    <3> QED BY <2>3, <1>k, <3>2 DEF ReplacePointer, Safe, Whole
  <2>4. CASE ReplaceMisreported
    <3>1. save.pc = "published" /\ save.target \in Roots
      BY <2>4, <1>k, <1>c DEF ReplaceMisreported, Copying, Steps
    <3>2. Whole(save.target)
      BY <1>k, <3>1 DEF Copies, Whole, TypeOK, Complete
    <3> QED BY <2>4, <1>k, <3>2 DEF ReplaceMisreported, Safe, Whole, process
  <2>5. CASE RollBack
    <3>1. Moves => save.target # root /\ save.target # pointer
      BY <2>5 DEF RollBack, Moves,
       RestartBoth, WorkerFails, Fault, Producers
    <3>2. ASSUME NEW r \in Roots, Moves => r # save.target PROVE files'[r] = files[r]
      BY <2>5, <3>2 DEF RollBack, TypeOK,
       RestartBoth, WorkerFails, Fault, Producers
    <3> QED BY <2>5, <1>k, <3>1, <3>2 DEF RollBack, Safe, Whole, TypeOK,
       RestartBoth, WorkerFails, Fault, Producers
  <2> QED BY <1>1, <2>1, <2>2, <2>3, <2>4, <2>5, <1>q DEF Saving, Begin, disk, workers,
     process, bounds, StopCameras, CamerasStuck, Fault, StopWorker, Joined, Quiesced,
     SaveInPlace, Moves, StartCameras, CopyDatabase, CopySidecar, BackupRefused,
     SyncPointer, Fails, Drained, Joining, KeepMoved,
       RestartBoth, WorkerFails, Producers
<1>2. ASSUME Updating PROVE Safe'
  BY <1>2, <1>q DEF BeginUpdate, Proceed, disk, workers, process, bounds,
     UpdateStopsCameras, UpdateStopsWorker, WorkerJoined, NoWrites, Launch,
     UpdateAborts, Fault, Drained, Joining, ResumeWorker, ResumeCameras, StartCameras,
     View, Updating,
       ResumeWorkerFails, WorkerFails, ResumeCamerasFails
<1>3. ASSUME NEW i \in Readings, Accept(i) PROVE Safe'
  <2>1. pointer = root
    BY <1>3, <1>c DEF Accept
  <2>2. owed'[root] = owed[root] \cup {i}
    BY <1>3 DEF Accept, TypeOK
  <2> QED BY <1>3, <1>k, <2>1, <2>2 DEF Accept, Safe, Whole, process
<1>4. ASSUME NEW w \in Workers, Delete(w) \/ Exit(w) \/ \E i \in Readings : Settle(w, i)
   PROVE Safe'
  <2>1. CASE Delete(w)
    <3>1. hand[w] \in settled[root] /\ up
      BY <2>1, <1>k DEF Delete, Runs
    <3>2. \A r \in Roots : owed'[r] = IF r = root THEN owed[r] \ {hand[w]} ELSE owed[r]
      BY <2>1 DEF Delete, TypeOK
    <3> QED BY <2>1, <1>k, <3>1, <3>2 DEF Delete, Safe, Whole, TypeOK, process
  <2>2. ASSUME NEW i \in Readings, Settle(w, i) PROVE Safe'
    BY <2>2, <1>k DEF Settle, Joining, process, bounds, Safe, Whole
  <2> QED BY <1>4, <2>1, <2>2, <1>q DEF Exit, disk, process, bounds, workers
<1>5. CASE Quit
  BY <1>5, <1>k DEF Quit, Down, Safe, Whole
<1>6. CASE PowerCut
  BY <1>6, <1>k DEF PowerCut, Down, Safe, Whole
<1>7. CASE Boot
  BY <1>7, <1>k DEF Boot, workers, StartCameras, disk, bounds, Safe, Whole
<1>8. CASE Poll \/ UNCHANGED vars
  BY <1>8, <1>q DEF Poll, Joining, workers, disk, process, bounds, vars
<1> QED BY <1>1, <1>2, <1>3, <1>4, <1>5, <1>6, <1>7, <1>8 DEF Next

\* Every step leaves the service running, or the restart required.
LEMMA ServiceRestoredStep == MoveInv /\ [Next]_vars => ServiceRestored'
<1> SUFFICES ASSUME MoveInv, [Next]_vars PROVE ServiceRestored'
  OBVIOUS
<1> USE DEF MoveInv
<1>k. /\ TypeOK /\ Resting /\ Runs /\ Turns /\ Copies /\ Ahead /\ Safe /\ None \notin Workers \cup Readings
      /\ (StartWorker => /\ current' \in alive' \ stopped' /\ stopped' = stopped
                         /\ (current \notin stopped /\ current # None => current' = current))
      /\ \A from, to : Reach(from, to) /\ to \in Steps =>
           up /\ save.pc = from /\ save'.pc = to /\ save'.target = save.target
  BY ReachEffect, StartEffect, OthersAssumption
<1>c. /\ save.pc \in Quiet => up /\ cameras = "off" /\ update \in {"idle", "launched"}
      /\ save.pc \in Quiet \ {"pointed"} => pointer = root /\ ~restart
      /\ save.pc \in Copying => save.target \in Roots /\ save.target # root
      /\ up /\ cameras # "off" => pointer = root
      /\ up /\ ~restart /\ save.pc # "failed" => pointer = root
  BY DEF Resting, Turns, Ahead, Quiet, Copying, NoSave
<1>q. ASSUME UNCHANGED <<up, save, update, restart, unstarted, cameras, current, alive,
   stopped>> PROVE ServiceRestored'
  BY <1>q, <1>k DEF ServiceRestored
<1>1. ASSUME Saving PROVE ServiceRestored'
  <2>1. ASSUME NEW t \in Roots, Begin(t) PROVE ServiceRestored'
    BY <2>1, <1>k DEF Begin, disk, workers, process, bounds, ServiceRestored, NoSave,
       Steps
  <2>2. CASE StopCameras
    BY <2>2, <1>k DEF StopCameras, disk, workers, process, bounds, ServiceRestored,
       NoSave, Steps
  <2>3. CASE CamerasStuck
    BY <2>3, <1>k DEF CamerasStuck, Fault, disk, workers, process, ServiceRestored,
       NoSave, Steps
  <2>4. CASE StopWorker
    BY <2>4, <1>k DEF StopWorker, disk, process, bounds, ServiceRestored, NoSave, Steps
  <2>5. CASE Joined
    BY <2>5, <1>k DEF Joined, disk, workers, process, bounds, ServiceRestored, NoSave,
       Steps
  <2>6. CASE Quiesced
    BY <2>6, <1>k DEF Quiesced, disk, workers, process, bounds, ServiceRestored, NoSave,
       Steps
  <2>7. CASE SaveInPlace
    BY <2>7, <1>k DEF SaveInPlace, Moves, workers, StartCameras, disk, process, bounds,
       ServiceRestored, NoSave, Steps,
       RestartBoth, WorkerFails, Fault, Producers
  <2>8. CASE CopyDatabase
    BY <2>8, <1>k DEF CopyDatabase, Moves, disk, workers, process, bounds,
       ServiceRestored, NoSave, Steps
  <2>9. CASE CopySidecar
    BY <2>9, <1>k DEF CopySidecar, disk, workers, process, bounds, ServiceRestored,
       NoSave, Steps
  <2>10. CASE BackupRefused
    BY <2>10, <1>k DEF BackupRefused, disk, workers, process, bounds, ServiceRestored,
       NoSave, Steps
  <2>11. CASE PublishDatabase
    BY <2>11, <1>k DEF PublishDatabase, workers, process, bounds, ServiceRestored,
       NoSave, Steps
  <2>12. CASE PublishSidecar
    BY <2>12, <1>k DEF PublishSidecar, workers, process, bounds, ServiceRestored,
       NoSave, Steps
  <2>13. CASE ReplacePointer
    BY <2>13, <1>k DEF ReplacePointer, workers, bounds, ServiceRestored, NoSave, Steps
  <2>14. CASE ReplaceMisreported
    BY <2>14, <1>k DEF ReplaceMisreported, Fault, workers, process, ServiceRestored,
       NoSave, Steps
  <2>15. CASE SyncPointer
    <3>1. restart
      BY <2>15, <1>k DEF SyncPointer, Turns
    <3> QED BY <2>15, <3>1 DEF SyncPointer, ServiceRestored, process
  <2>16. CASE Fails
    <3>1. CASE Reach(save.pc, "failed")
      BY <1>k, <3>1 DEF ServiceRestored, NoSave, Steps
    <3>2. CASE save.pc = "pointed"
      BY <2>16, <1>k, <3>2 DEF Fails, Turns, ServiceRestored, process
    <3> QED BY <2>16, <3>1, <3>2 DEF Fails
  <2>17. CASE KeepMoved
    BY <2>17, <1>k DEF KeepMoved, Moves, disk, workers, bounds, ServiceRestored, NoSave,
       Steps
  <2>18. CASE RollBack
    BY <2>18, <1>k DEF RollBack, Moves, RestartProducers, workers, StartCameras, bounds,
       ServiceRestored, NoSave, Steps,
       RestartBoth, WorkerFails, Fault, Producers
  <2> QED BY <1>1, <2>1, <2>2, <2>3, <2>4, <2>5, <2>6, <2>7, <2>8, <2>9, <2>10, <2>11, <2>12,
     <2>13, <2>14, <2>15, <2>16, <2>17, <2>18 DEF Saving
<1>2. ASSUME Updating PROVE ServiceRestored'
  <2>1. CASE BeginUpdate
    BY <2>1, <1>k DEF BeginUpdate, Proceed, disk, workers, process, bounds,
       ServiceRestored, NoSave, Steps
  <2>2. CASE UpdateStopsCameras
    BY <2>2, <1>k DEF UpdateStopsCameras, Proceed, disk, workers, process, bounds,
       ServiceRestored, NoSave, Steps
  <2>3. CASE UpdateStopsWorker
    BY <2>3, <1>k DEF UpdateStopsWorker, Proceed, disk, process, bounds,
       ServiceRestored, NoSave, Steps
  <2>4. CASE WorkerJoined
    BY <2>4, <1>k DEF WorkerJoined, Proceed, disk, workers, process, bounds,
       ServiceRestored, NoSave, Steps
  <2>5. CASE NoWrites
    BY <2>5, <1>k DEF NoWrites, Proceed, disk, workers, process, bounds,
       ServiceRestored, NoSave, Steps
  <2>6. CASE Launch
    BY <2>6, <1>k DEF Launch, Proceed, disk, workers, process, bounds, ServiceRestored,
       NoSave, Steps
  <2>7. CASE UpdateAborts
    BY <2>7, <1>k DEF UpdateAborts, Fault, Drained, Joining, Proceed, disk, workers,
       process, ServiceRestored, NoSave, Steps
  <2>8. CASE ResumeWorker
    BY <2>8, <1>k DEF ResumeWorker, Proceed, workers, disk, process, bounds,
       ServiceRestored, NoSave, Steps
  <2>9. CASE ResumeCameras
    <3>1. current \notin stopped /\ current # None /\ current \in alive
      BY <2>9, <1>k DEF ResumeCameras, Proceed, Turns, Runs
    <3>2. cameras' # "off"
      BY <2>9 DEF ResumeCameras, StartCameras
    <3> QED BY <2>9, <3>1, <3>2 DEF ResumeCameras, ServiceRestored, workers
  <2>10. CASE View
    BY <2>10, <1>k DEF View, StartCameras, disk, workers, process, bounds,
       ServiceRestored, NoSave, Steps
  <2>11. CASE ResumeWorkerFails
    BY <2>11, <1>k DEF ResumeWorkerFails, Fault, Proceed, WorkerFails, disk, workers, Producers,
       ServiceRestored
  <2>12. CASE ResumeCamerasFails
    <3>1. current \notin stopped /\ current # None /\ current \in alive
      BY <2>12, <1>k DEF ResumeCamerasFails, Proceed, Turns, Runs
    <3> QED BY <2>12, <3>1 DEF ResumeCamerasFails, ServiceRestored, workers
  <2> QED BY <1>2, <2>1, <2>2, <2>3, <2>4, <2>5, <2>6, <2>7, <2>8, <2>9, <2>10, <2>11,
     <2>12 DEF Updating
<1>3. ASSUME NEW i \in Readings, Accept(i) PROVE ServiceRestored'
  BY <1>3, <1>q DEF Accept, workers, process, bounds, disk
<1>4. ASSUME NEW w \in Workers, Delete(w) \/ Exit(w) \/ \E i \in Readings : Settle(w, i)
   PROVE ServiceRestored'
  <2>1. CASE Exit(w)
    BY <2>1, <1>k DEF Exit, disk, process, bounds, ServiceRestored, NoSave, Steps
  <2> QED BY <1>4, <2>1, <1>q DEF Delete, process, bounds, Settle, Joining, disk,
     workers
<1>5. CASE Poll
  BY <1>5, <1>k DEF Poll, Joining, workers, disk, process, bounds, ServiceRestored,
     NoSave, Steps
<1>6. CASE Quit
  BY <1>6, <1>k DEF Quit, Down, ServiceRestored, NoSave, Steps
<1>7. CASE PowerCut
  BY <1>7, <1>k DEF PowerCut, Down, ServiceRestored, NoSave, Steps
<1>8. CASE Boot
  BY <1>8, <1>k DEF Boot, workers, StartCameras, disk, bounds, ServiceRestored, NoSave,
     Steps
<1>9. CASE UNCHANGED vars
  BY <1>9, <1>q DEF vars, disk, workers, process, bounds
<1> QED BY <1>1, <1>2, <1>3, <1>4, <1>5, <1>6, <1>7, <1>8, <1>9 DEF Next

\* The invariant holds in every reachable state.
LEMMA Invariant == Spec => []MoveInv
<1>1. Init => MoveInv
  <2> SUFFICES ASSUME Init PROVE MoveInv
    OBVIOUS
  <2> USE DEF Init
  <2>1. TypeOK
    <3>1. files \in [Roots -> SUBSET Complete]
      OBVIOUS
    <3>2. settled \in [Roots -> SUBSET Readings] /\ owed \in [Roots -> SUBSET Readings]
      OBVIOUS
    <3>3. staged \in [settled: SUBSET Readings, owed: SUBSET Readings]
      BY DEF Nothing
    <3>4. hand \in [Workers -> Readings \cup {None}]
      OBVIOUS
    <3>5. save \in [pc: Steps, target: Roots \cup {None}, quiesced: BOOLEAN]
      BY DEF NoSave, Steps
    <3>6. update \in UpdateSteps
      BY DEF UpdateSteps
    <3>7. faults \in 0 .. MaxFaults /\ crashes \in 0 .. MaxCrashes
      BY OthersAssumption
    <3>8. pointer \in Roots /\ root \in Roots
      BY RootsAssumption
    <3>9. /\ accepted \subseteq Readings
          /\ current \in Workers \cup {None}
          /\ stopped \subseteq Workers /\ alive \subseteq Workers
          /\ {synced, up, restart} \subseteq BOOLEAN /\ unstarted \subseteq Producers
          /\ cameras \in {"on", "stopping", "off"}
      OBVIOUS
    <3> HIDE DEF Init
    <3> QED BY <3>1, <3>2, <3>3, <3>4, <3>5, <3>6, <3>7, <3>8, <3>9 DEF TypeOK
  <2>2. Resting /\ Runs /\ ServiceRestored
    BY DEF Resting, Runs, ServiceRestored
  <2>3. Turns /\ Copies /\ Ahead
    BY DEF Turns, Copies, Ahead, NoSave, Copying, Quiet
  <2>4. Safe
    BY RootsAssumption DEF Safe, Whole
  <2> QED BY <2>1, <2>2, <2>3, <2>4 DEF MoveInv
<1>2. MoveInv /\ [Next]_vars => MoveInv'
  BY TypeStep, RestingStep, RunsStep, TurnsStep, CopiesStep, AheadStep, SafeStep,
     ServiceRestoredStep DEF MoveInv
<1> QED BY <1>1, <1>2, PTL DEF Spec

\* Every variable keeps its type.
THEOREM TypeCorrect == Spec => []TypeOK
BY Invariant, PTL DEF MoveInv

\* However many saves, updates, failures, crashes and power cuts there are:
\* every root the next start may use has both of its databases, and they hold
\* every reading ever accepted.
THEOREM NoReadingIsLost == Spec => []MoveLosesNothing
<1>1. MoveInv => MoveLosesNothing
  BY DEF MoveInv, Safe, Whole, Resting, MoveLosesNothing, Candidates
<1> QED BY <1>1, Invariant, PTL

\* No save or update that is over just leaves the service stopped: what is not at
\* work then stands behind a required restart, or its own restart has raised and
\* nothing has started it since.
THEOREM ServiceIsRestored == Spec => []ServiceRestored
BY Invariant, PTL DEF MoveInv
=============================================================================
