-------------------------- MODULE MediaStoreProofs --------------------------
(***************************************************************************)
(* Theorems about MediaStore, for any paths, quota and bounds.  MediaInv    *)
(* adds to the properties what they rest on: which attempts cannot have     *)
(* left anything yet (Virgin), what a retry knows of its attempt at each    *)
(* step (Stages), who holds the lock and what a complete inventory has      *)
(* settled (Clean), that a file is in one place only (Apart), that the      *)
(* journal of a file some row names is decided (Decided), and that what a   *)
(* journal planned to move, or accepted, is where recovery will look for it *)
(* (Planned, Decidable).                                                    *)
(***************************************************************************)
EXTENDS MediaStore, TLAPS

InPlace(i) == FileAt(Target(i)) = i
Here(p)    == <<p, media[p]>>

Early  == {"begin", "inventory", "evict", "create"}
Inside == {"evict", "create", "claim", "write", "abort", "pending", "settle", "finalize"}

Later(i)   == i[2] > tries[i[1]]
Current(i) == i = Now(i[1])
NotMade(i) == Later(i) \/ (Current(i) /\ pc[i[1]] \in Early)
Unused(i)  == Later(i) \/ (Current(i) /\ pc[i[1]] \in {"begin", "inventory"})

\* An attempt that has not created its file yet has left no trace.
Traceless(i) ==
    /\ NotMade(i) => /\ i \notin full \cup owned \cup adopted \cup expired \cup claimed
                     /\ ~InPlace(i) /\ ~Quarantined(i) /\ oracle[i] # "accepted"
    /\ Unused(i) => status[i] = "none" /\ i \notin resv

Virgin == \A i \in Id : Traceless(i)

\* What holds of the current attempt of a retry of x ...
Stage(x) ==
    /\ pc[x] \in Inside => Now(x) \in resv /\ status[Now(x)] = "pending"
    /\ pc[x] \in {"claim", "write", "abort", "unlink", "pending"} =>
         Now(x) \notin owned /\ oracle[Now(x)] # "accepted"
    /\ pc[x] \in {"write", "pending", "settle", "finalize"} => Now(x) \in claimed
    /\ pc[x] \in {"pending", "settle", "finalize"} => media[x] = tries[x]
    /\ pc[x] = "owner" /\ media[x] # NoFile => media[x] <= tries[x]
    /\ pc[x] = "finalize" => Now(x) \in owned
    /\ pc[x] \in Early \cup {"claim", "write", "abort", "unlink"} => media[x] = NoFile

\* ... and of every attempt, however long ago.
Deeds ==
    /\ claimed \cap existed = {}
    /\ \A i \in full \ owned : i \in claimed
    /\ \A i \in Id : oracle[i] = "accepted" \/ status[i] = "committed" => i \in owned

Stages == (\A p \in Path : Stage(p)) /\ Deeds

\* The lock, and what an inventory without a failure has settled.
Clean ==
    /\ \A p \in Path : pc[p] \in {"inventory", "evict"} <=> lock = p
    /\ \A p \in Path : pc[p] = "evict" => queue = {}
    /\ lock # NoOne /\ whole => Stale \subseteq queue
    /\ queue \cap resv = {}

\* A file is in place or in one quarantine, never in two places.
Apart ==
    /\ \A i, j \in Id : i \in quar[j] => ~InPlace(i)
    /\ \A i, j, k \in Id : i \in quar[j] /\ i \in quar[k] => j = k

\* A whole file that no row names has a journal; files set aside have none of
\* their own, and a row names them if they are whole.
Aside ==
    /\ \A i \in Id : InPlace(i) /\ i \in full \ owned => status[i] # "none"
    /\ \A i \in Id : Quarantined(i) => status[i] = "none" /\ (i \in full => i \in owned)

\* A file that a row names, or is about to, is decided.
Named == (owned \cup {Here(p) : p \in {q \in Path : pc[q] = "owner" /\ media[q] # NoFile}})
         \ adopted

Decided == \A i \in Named : Kept(i) /\ ~Undecided(i)

\* The quota makes room for the attempt i, on a complete inventory.
MakesRoom(i) == lock = i[1] /\ Current(i) /\ pc[i[1]] = "evict" /\ whole

\* What a journal planned to move is in its quarantine while its writer lives,
\* but for the move that is being made; a file is planned to be moved only when its own journal is gone; an attempt
\* whose file may yet be unlinked has not written it.
Planned ==
    /\ \A i \in Id : status[i] = "none" => moves[i] = {}
    /\ \A i \in resv : moves[i] \subseteq quar[i] \/ MakesRoom(i)
    /\ \A i \in Id : \A m \in moves[i] : status[m] = "none" /\ ~NotMade(m)
    /\ \A p \in Path : pc[p] \in {"claim", "write", "abort", "unlink"} => Now(p) \notin full

\* Recovery can decide every open journal, also one whose writer still lives.
Decidable ==
    \A i \in Id : status[i] = "pending" =>
        /\ \A m \in moves[i] \cap full : m \in quar[i] \/ InPlace(m)
        /\ oracle[i] = "accepted" => InPlace(i)

\* The ways a call of storage_policy ends the journal of j.
Ended(j) ==
    /\ status[j] # "none"
    /\ UNCHANGED <<full, existed, claimed, row, todo, tries, media, up, owned, adopted>>
    /\ \/ UNCHANGED <<disk, expired>>
       \/ FinishCommit(j) /\ j \in owned
       \/ FinishRollback(j) /\ Undecided(j)
    /\ oracle' \in {oracle, [oracle EXCEPT ![j] = "none"]}
    /\ oracle[j] = "accepted" /\ oracle'[j] # "accepted" => status'[j] # "pending"
    /\ resv' \in {resv, resv \ {j}}
    /\ faults' \in 0 .. MaxFaults

\* Between two steps an attempt only gets older.
Ages ==
    \A x \in Path :
        \/ /\ tries'[x] = tries[x]
           /\ pc'[x] \in Early => pc[x] \in Early
           /\ pc'[x] \in {"begin", "inventory"} => pc[x] \in {"begin", "inventory"}
        \/ tries'[x] = tries[x] + 1

Base     == TypeOK /\ Virgin /\ Stages /\ Clean
MediaInv == Base /\ Apart /\ Aside /\ Decided /\ Planned /\ Decidable

-----------------------------------------------------------------------------
\* What the end of a committed journal changes.
LEMMA CommitEffect ==
    ASSUME TypeOK, NEW i \in Id, FinishCommit(i)
    PROVE  /\ UNCHANGED <<file, full, existed, claimed>>
           /\ status' \in [Id -> {"none", "pending", "committed"}]
           /\ status'[i] \in {"none", "committed"}
           /\ moves' \in [Id -> SUBSET Id] /\ quar' \in [Id -> SUBSET Id]
           /\ \A j \in Id \ {i} : status'[j] = status[j] /\ quar'[j] = quar[j]
           /\ quar'[i] \subseteq quar[i]
           /\ expired' = expired \cup (quar[i] \ quar'[i])
           /\ faults' \in 0 .. MaxFaults
<1>1. quar[i] \in SUBSET Id
  BY DEF TypeOK
<1>2. CASE NoFault /\ quar' = [quar EXCEPT ![i] = {}] /\ expired' = expired \cup quar[i]
           /\ status' = [status EXCEPT ![i] = "none"] /\ moves' = [moves EXCEPT ![i] = {}]
  BY <1>1, <1>2 DEF FinishCommit, TypeOK, NoFault
<1>3. ASSUME NEW gone \in SUBSET quar[i], quar' = [quar EXCEPT ![i] = quar[i] \ gone],
             expired' = expired \cup gone, Fault, UNCHANGED moves,
             status' = [status EXCEPT ![i] = "committed"]
      PROVE  /\ quar' \in [Id -> SUBSET Id] /\ quar'[i] \subseteq quar[i]
             /\ \A j \in Id \ {i} : quar'[j] = quar[j]
             /\ expired' = expired \cup (quar[i] \ quar'[i])
             /\ status' \in [Id -> {"none", "pending", "committed"}] /\ status'[i] = "committed"
             /\ \A j \in Id \ {i} : status'[j] = status[j]
             /\ moves' \in [Id -> SUBSET Id] /\ faults' \in 0 .. MaxFaults
  BY <1>1, <1>3, BoundAssumption DEF TypeOK, Fault
<1> QED BY <1>2, <1>3 DEF FinishCommit

\* A name is in place when the file at its path is the one it made.
LEMMA PlaceIsFile ==
    ASSUME TypeOK
    PROVE  /\ \A i \in Id : i[1] \in Path /\ i[2] \in Try /\ i = <<i[1], i[2]>>
           /\ \A i \in Id : InPlace(i) <=> file[i[1]] = i[2]
           /\ \A p \in Path : Present(p) => FileAt(p) \in Id /\ InPlace(FileAt(p))
           /\ \A i \in Id : InPlace(i) => Present(i[1]) /\ FileAt(i[1]) = i
           /\ \A p \in Path : Now(p) \in Id /\ Target(Now(p)) = p
           /\ NoFile \notin Try
BY BoundAssumption DEF TypeOK, Id, InPlace, FileAt, Target, Present, Now, Try, NoFile

\* What a rollback changes: it takes back the file its journal owns, if it gets
\* that far, and then puts files of its quarantine at free paths.
LEMMA RollbackEffect ==
    ASSUME TypeOK, NEW i \in Id, FinishRollback(i)
    PROVE  /\ UNCHANGED <<full, existed, claimed, expired>>
           /\ file' \in [Path -> Try \cup {NoFile}]
           /\ status' \in [Id -> {"none", "pending", "committed"}]
           /\ status'[i] \in {"none", status[i]}
           /\ moves' \in [Id -> SUBSET Id] /\ quar' \in [Id -> SUBSET Id]
           /\ \A j \in Id \ {i} : status'[j] = status[j] /\ quar'[j] = quar[j]
           /\ faults' \in 0 .. MaxFaults
           /\ \/ UNCHANGED <<file, status, quar>>
              \/ \E R \in SUBSET quar[i] :
                   /\ quar'[i] = quar[i] \ R
                   /\ \A m \in Id : InPlace(m)' <=> m \in R \/ (InPlace(m) /\ ~(Mine(i) /\ m = i))
<1>1. quar[i] \in SUBSET Id /\ file \in [Path -> Try \cup {NoFile}] /\ Target(i) \in Path
      /\ i = <<Target(i), i[2]>> /\ NoFile \notin Try
  BY PlaceIsFile DEF TypeOK, Target
<1>2. CASE Fault /\ Mine(i) /\ UNCHANGED <<file, status, moves, quar>>
  <2>3. /\ UNCHANGED <<full, existed, claimed, expired>> /\ faults' \in 0 .. MaxFaults
        /\ file' \in [Path -> Try \cup {NoFile}]
        /\ status' \in [Id -> {"none", "pending", "committed"}]
        /\ moves' \in [Id -> SUBSET Id] /\ quar' \in [Id -> SUBSET Id]
    BY <1>2, BoundAssumption DEF FinishRollback, TypeOK, Fault
  <2> QED BY <1>2, <2>3
<1>3. ASSUME NEW R \in Returning(i), file' = Restored(i, R), quar' = [quar EXCEPT ![i] = quar[i] \ R]
      PROVE  /\ R \in SUBSET quar[i] /\ quar'[i] = quar[i] \ R
             /\ quar' \in [Id -> SUBSET Id] /\ file' \in [Path -> Try \cup {NoFile}]
             /\ \A m \in Id : InPlace(m)' <=> m \in R \/ (InPlace(m) /\ ~(Mine(i) /\ m = i))
  <2>1. R \in SUBSET quar[i] /\ R \in SUBSET Id
        /\ (\A m, n \in R : Target(m) = Target(n) => m = n)
        /\ \A m \in R : Cleared(i)[Target(m)] = NoFile
    BY <1>1, <1>3 DEF Returning, Homes
  <2>2. Cleared(i) \in [Path -> Try \cup {NoFile}]
        /\ \A x \in Path : Cleared(i)[x] = IF Mine(i) /\ x = Target(i) THEN NoFile ELSE file[x]
    BY <1>1 DEF Cleared
  <2>3. \A m \in R : Target(m) \in Path /\ m[2] \in Try
    BY <2>1, PlaceIsFile DEF Target
  <2>4. ASSUME NEW m \in R PROVE (CHOOSE n \in R : Target(n) = Target(m)) = m
    BY <2>1
  <2>5. file' \in [Path -> Try \cup {NoFile}]
        /\ (\A m \in R : file'[Target(m)] = m[2])
        /\ \A x \in Path : (\A m \in R : Target(m) # x) => file'[x] = Cleared(i)[x]
    <3>1. /\ file' = [x \in Path |-> file'[x]]
          /\ \A y \in Path : file'[y] = IF \E m \in R : Target(m) = y
                                     THEN (CHOOSE m \in R : Target(m) = y)[2] ELSE Cleared(i)[y]
      BY <1>3 DEF Restored
    <3>2. \A m \in R : file'[Target(m)] = m[2]
      BY <2>3, <2>4, <3>1
    <3>3. \A x \in Path : (\A m \in R : Target(m) # x) => file'[x] = Cleared(i)[x]
      BY <3>1
    <3>4. \A x \in Path : file'[x] \in Try \cup {NoFile}
      BY <2>2, <2>3, <3>2, <3>3
    <3> QED BY <3>1, <3>2, <3>3, <3>4
  <2>6. ASSUME NEW m \in Id PROVE InPlace(m)' <=> file'[m[1]] = m[2]
    BY PlaceIsFile DEF InPlace, FileAt, Target
  <2>7. ASSUME NEW m \in Id
        PROVE  InPlace(m)' <=> m \in R \/ (InPlace(m) /\ ~(Mine(i) /\ m = i))
    <3>1. m[1] \in Path /\ m[2] \in Try /\ Target(m) = m[1] /\ m = <<m[1], m[2]>>
          /\ (InPlace(m) <=> file[m[1]] = m[2])
      BY PlaceIsFile DEF Target
    <3>2. CASE \E n \in R : Target(n) = m[1]
      <4>1. PICK n \in R : Target(n) = m[1]
        BY <3>2
      <4>2. n = <<n[1], n[2]>> /\ n[1] = m[1] /\ file'[m[1]] = n[2]
        BY <2>1, <2>5, <4>1, PlaceIsFile DEF Target
      <4>3. InPlace(m)' <=> m = n
        BY <2>6, <3>1, <4>2
      <4>4. Cleared(i)[m[1]] = NoFile
        BY <2>1, <4>1
      <4>5. InPlace(m) => Mine(i) /\ m = i
        <5>1. CASE Mine(i) /\ m[1] = Target(i)
          BY <1>1, <3>1, <5>1 DEF Mine, FileAt
        <5>2. CASE ~(Mine(i) /\ m[1] = Target(i))
          BY <1>1, <2>2, <3>1, <4>4, <5>2
        <5> QED BY <5>1, <5>2
      <4>6. m \in R => m = n
        BY <2>1, <3>1, <4>1
      <4> QED BY <4>1, <4>3, <4>5, <4>6
    <3>3. CASE \A n \in R : Target(n) # m[1]
      <4>1. m \notin R /\ file'[m[1]] = Cleared(i)[m[1]]
        BY <2>5, <3>1, <3>3
      <4>2. CASE Mine(i) /\ m[1] = Target(i)
        BY <1>1, <2>2, <2>6, <3>1, <4>1, <4>2 DEF Mine, FileAt
      <4>3. CASE ~(Mine(i) /\ m[1] = Target(i))
        BY <1>1, <2>2, <2>6, <3>1, <4>1, <4>3
      <4> QED BY <4>2, <4>3
    <3> QED BY <3>2, <3>3
  <2>8. quar' \in [Id -> SUBSET Id] /\ quar'[i] = quar[i] \ R
    BY <1>1, <1>3 DEF TypeOK
  <2> QED BY <2>1, <2>5, <2>7, <2>8
<1>4. CASE ~(Fault /\ Mine(i) /\ UNCHANGED <<file, status, moves, quar>>)
  <2>1. PICK R \in Returning(i) : file' = Restored(i, R) /\ quar' = [quar EXCEPT ![i] = quar[i] \ R]
    BY <1>4 DEF FinishRollback
  <2>2. /\ UNCHANGED <<full, existed, claimed, expired>> /\ faults' \in 0 .. MaxFaults
        /\ status' \in [Id -> {"none", "pending", "committed"}]
        /\ status'[i] \in {"none", status[i]}
        /\ moves' \in [Id -> SUBSET Id]
        /\ \A j \in Id \ {i} : status'[j] = status[j] /\ quar'[j] = quar[j]
    BY <1>4, BoundAssumption DEF FinishRollback, TypeOK, Fault, NoFault
  <2> QED BY <1>3, <2>1, <2>2
<1> QED BY <1>2, <1>4

\* What a call that ends a journal changes of files and journals.
LEMMA EndEffect ==
    ASSUME TypeOK, NEW j \in Id, Ended(j)
    PROVE  /\ file' \in [Path -> Try \cup {NoFile}]
           /\ status' \in [Id -> {"none", "pending", "committed"}]
           /\ moves' \in [Id -> SUBSET Id] /\ quar' \in [Id -> SUBSET Id]
           /\ expired' \subseteq Id
           /\ \A m \in Id \ {j} : status'[m] = status[m]
           /\ status'[j] = "committed" => status[j] = "committed" \/ j \in owned
           /\ \A m, k \in Id : m \in quar'[k] => m \in quar[k]
           /\ \A m \in Id : Quarantined(m)' => Quarantined(m)
           /\ \A m \in Id : InPlace(m)' => InPlace(m) \/ Quarantined(m)
           /\ \A m \in expired' : m \in expired \/ Quarantined(m)
<1>1. CASE UNCHANGED <<disk, expired>>
  BY <1>1 DEF disk, TypeOK, Quarantined, InPlace, FileAt
<1>2. CASE FinishCommit(j) /\ j \in owned
  <2>1. \A m, k \in Id : m \in quar'[k] => m \in quar[k]
    BY <1>2, CommitEffect
  <2>2. \A m \in Id : InPlace(m)' <=> InPlace(m)
    BY <1>2, CommitEffect DEF InPlace, FileAt
  <2>3. quar[j] \subseteq Id /\ \A m \in quar[j] : Quarantined(m)
    BY DEF TypeOK, Quarantined
  <2>4. expired' \subseteq Id /\ \A m \in expired' : m \in expired \/ Quarantined(m)
    BY <1>2, <2>3, CommitEffect DEF TypeOK
  <2>5. file' \in [Path -> Try \cup {NoFile}]
    BY <1>2, CommitEffect DEF TypeOK
  <2>6. \A m \in Id : Quarantined(m)' => Quarantined(m)
    BY <2>1 DEF Quarantined
  <2> QED BY <1>2, <2>1, <2>2, <2>4, <2>5, <2>6, CommitEffect
<1>3. CASE FinishRollback(j) /\ Undecided(j)
  <2>1. \A m, k \in Id : m \in quar'[k] => m \in quar[k]
    BY <1>3, RollbackEffect
  <2>2. \A m \in Id : InPlace(m)' => InPlace(m) \/ Quarantined(m)
    <3>1. CASE UNCHANGED <<file, status, quar>>
      BY <3>1 DEF InPlace, FileAt
    <3>2. CASE ~UNCHANGED <<file, status, quar>>
      BY <1>3, <3>2, RollbackEffect DEF Quarantined
    <3> QED BY <3>1, <3>2
  <2>3. \A m \in Id : Quarantined(m)' => Quarantined(m)
    BY <2>1 DEF Quarantined
  <2>4. expired' = expired /\ expired \subseteq Id /\ status'[j] # "committed"
    BY <1>3, RollbackEffect DEF TypeOK, Undecided
  <2> QED BY <1>3, <2>1, <2>2, <2>3, <2>4, RollbackEffect
<1> QED BY <1>1, <1>2, <1>3 DEF Ended

\* Every call that ends a journal: a refused or failed write, the end of a
\* stored one, and recovery.
LEMMA Closing ==
    ASSUME Base
    PROVE  /\ \A p \in Path : Refuse(p) \/ Abort(p) \/ Finalize(p) \/ Settle(p) => Ended(Now(p))
           /\ \A i \in Id : Recover(i) => Ended(i) /\ i \notin resv /\ resv' = resv
<1> USE DEF Base
<1>1. /\ \A i \in Id : FinishCommit(i) \/ FinishRollback(i) => UNCHANGED <<full, existed, claimed>>
      /\ \A i \in Id : (Fault \/ NoFault \/ FinishCommit(i) \/ FinishRollback(i)) => faults' \in 0 .. MaxFaults
      /\ \A i \in Id : FinishCommit(i) => status'[i] # "pending"
  BY CommitEffect, RollbackEffect, BoundAssumption DEF Fault, NoFault, TypeOK
<1>2. ASSUME NEW p \in Path PROVE Now(p) \in Id /\ Now(p)[1] = p /\ Target(Now(p)) = p
  BY PlaceIsFile DEF Now, Target
<1>3. ASSUME NEW p \in Path, pc[p] \in Inside PROVE status[Now(p)] = "pending"
  BY <1>3 DEF Stages, Stage, Deeds
<1>4. ASSUME NEW p \in Path, pc[p] \in {"evict", "abort"}
      PROVE  oracle[Now(p)] # "accepted" /\ Undecided(Now(p))
  <2>1. CASE pc[p] = "evict"
    BY <1>2, <1>3, <2>1 DEF Virgin, Traceless, NotMade, Current, Early, Inside, Undecided
  <2>2. CASE pc[p] = "abort"
    BY <1>2, <1>3, <2>2 DEF Stages, Stage, Deeds, Inside, Undecided
  <2> QED BY <1>4, <2>1, <2>2
<1>5. ASSUME NEW p \in Path, CloseFailed(Now(p)), Undecided(Now(p)),
             UNCHANGED <<row, todo, tries, media, up, owned, adopted>>
      PROVE  Ended(Now(p))
  BY <1>1, <1>2, <1>5 DEF CloseFailed, Ended, Undecided
<1>6. ASSUME NEW p \in Path, OracleUnreadable, status[Now(p)] # "none",
             UNCHANGED <<row, todo, tries, media, up, owned, adopted>>
      PROVE  Ended(Now(p))
  BY <1>1, <1>2, <1>6 DEF OracleUnreadable, Ended, disk
<1>7. ASSUME NEW p \in Path, CloseAccepted(Now(p)), status[Now(p)] # "none", Now(p) \in owned,
             UNCHANGED <<row, todo, tries, media, up, owned, adopted>>
      PROVE  Ended(Now(p))
  <2>1. CASE FinishCommit(Now(p)) /\ oracle' = [oracle EXCEPT ![Now(p)] = "none"] /\ resv' = resv \ {Now(p)}
    BY <1>1, <1>2, <1>7, <2>1 DEF Ended
  <2>2. CASE UNCHANGED <<disk, oracle, expired>> /\ resv' \in {resv, resv \ {Now(p)}} /\ (Fault \/ NoFault)
    BY <1>1, <1>2, <1>7, <2>2 DEF Ended, disk
  <2> QED BY <1>7, <2>1, <2>2 DEF CloseAccepted
<1>8. ASSUME NEW p \in Path, Refuse(p) PROVE Ended(Now(p))
  <2>1. FinishRollback(Now(p)) /\ Undecided(Now(p)) /\ oracle[Now(p)] # "accepted"
    BY <1>4, <1>8 DEF Refuse
  <2> QED BY <1>1, <1>2, <1>8, <2>1 DEF Refuse, Unlock, Ended, Undecided
<1>9. ASSUME NEW p \in Path, Abort(p) PROVE Ended(Now(p))
  <2>1. Undecided(Now(p)) /\ UNCHANGED <<row, todo, tries, media, up, owned, adopted>>
    BY <1>4, <1>9 DEF Abort
  <2>2. CASE CloseFailed(Now(p))
    BY <1>5, <2>1, <2>2
  <2>3. CASE OracleUnreadable
    BY <1>6, <2>1, <2>3 DEF Undecided
  <2> QED BY <1>9, <2>2, <2>3 DEF Abort
<1>10. ASSUME NEW p \in Path, Finalize(p) PROVE Ended(Now(p))
  <2>1. status[Now(p)] = "pending" /\ Now(p) \in owned
        /\ UNCHANGED <<row, todo, tries, media, up, owned, adopted>>
    BY <1>3, <1>10 DEF Finalize, Stages, Stage, Deeds, Inside
  <2>2. CloseAccepted(Now(p)) \/ OracleUnreadable
    BY <1>10 DEF Finalize
  <2> QED BY <1>6, <1>7, <2>1, <2>2
<1>11. ASSUME NEW p \in Path, Settle(p) PROVE Ended(Now(p))
  <2>1. status[Now(p)] = "pending" /\ UNCHANGED <<row, todo, tries, media, up, owned, adopted>>
    BY <1>3, <1>11 DEF Settle, Inside
  <2>2. CASE oracle[Now(p)] = "accepted" /\ CloseAccepted(Now(p))
    BY <1>2, <1>7, <2>1, <2>2 DEF Stages, Stage, Deeds
  <2>3. CASE oracle[Now(p)] # "accepted" /\ CloseFailed(Now(p))
    BY <1>5, <2>1, <2>3 DEF Undecided
  <2>4. CASE OracleUnreadable
    BY <1>6, <2>1, <2>4
  <2> QED BY <1>11, <2>2, <2>3, <2>4 DEF Settle
<1>12. ASSUME NEW i \in Id, Recover(i) PROVE Ended(i) /\ i \notin resv /\ resv' = resv
  <2>1. i \in queue /\ i \notin resv /\ UNCHANGED <<row, todo, resv, tries, media, up, owned, adopted>>
    BY <1>12 DEF Recover, Clean
  <2>2. oracle' \in {oracle, [oracle EXCEPT ![i] = "none"]} /\ (oracle' # oracle => status'[i] = "none")
    BY <1>12 DEF Recover
  <2>3. CASE FinishCommit(i) /\ i \in owned /\ status[i] # "none"
    BY <1>1, <1>12, <2>1, <2>2, <2>3 DEF Ended
  <2>4. CASE UNCHANGED <<disk, expired>> /\ (Fault \/ NoFault) /\ status[i] # "none"
    BY <1>1, <1>12, <2>1, <2>2, <2>4 DEF Ended, disk
  <2>5. CASE FinishRollback(i) /\ Undecided(i)
    BY <1>1, <1>12, <2>1, <2>2, <2>5 DEF Ended, Undecided
  <2>6. \/ FinishCommit(i) /\ (status[i] = "committed" \/ (status[i] = "pending" /\ oracle[i] = "accepted"))
        \/ UNCHANGED <<disk, expired>> /\ (Fault \/ NoFault)
           /\ (status[i] \in {"committed", "pending"} \/ Undecided(i))
        \/ FinishRollback(i) /\ Undecided(i)
    BY <1>12 DEF Recover
  <2> QED BY <2>1, <2>3, <2>4, <2>5, <2>6 DEF Stages, Stage, Deeds, Undecided
<1> QED BY <1>8, <1>9, <1>10, <1>11, <1>12

\* Every step keeps the types.
LEMMA TypeStep == Base /\ [Next]_vars => TypeOK'
<1> SUFFICES ASSUME Base, [Next]_vars PROVE TypeOK'
  OBVIOUS
<1> USE DEF Base
<1>n. /\ \A p \in Path : Now(p) \in Id /\ Now(p) = <<p, tries[p]>>
      /\ \A p \in Path : Present(p) => FileAt(p) \in Id /\ FileAt(p) = <<p, file[p]>>
      /\ \A p \in Path, k \in Try : <<p, k>> \in Id
  BY PlaceIsFile DEF Id, Now, FileAt
<1>c. ASSUME NEW j \in Id, Ended(j)
      PROVE  /\ <<file, status, moves, quar>>' \in [Path -> Try \cup {NoFile}]
                  \X [Id -> {"none", "pending", "committed"}] \X [Id -> SUBSET Id] \X [Id -> SUBSET Id]
             /\ expired' \subseteq Id /\ resv' \subseteq Id
             /\ oracle' \in [Id -> {"none", "pending", "accepted"}]
             /\ UNCHANGED <<full, existed, claimed, row, todo, tries, media, up, owned, adopted>>
             /\ faults' \in 0 .. MaxFaults
  <2>1. oracle' \in [Id -> {"none", "pending", "accepted"}] /\ resv' \subseteq Id
    BY <1>c DEF Ended, TypeOK
  <2> QED BY <1>c, <2>1, EndEffect DEF Ended
<1>q. ASSUME UNCHANGED <<disk, base, proc, past, faults, crashes>> PROVE TypeOK'
  BY <1>q DEF TypeOK, disk, base, proc, past
<1>1. ASSUME NEW p \in Path, Step(p) PROVE TypeOK'
  <2>1. CASE Adopt(p)
    <3>1. FileAt(p) \in Id /\ file[p] \in Try \cup {NoFile}
      BY <2>1, <1>n DEF Adopt, Full, TypeOK
    <3>2. media' \in [Path -> Try \cup {NoFile}] /\ adopted' \subseteq Id /\ pc' \in [Path -> Steps]
      BY <2>1, <3>1 DEF Adopt, TypeOK, Goto, Steps
    <3> QED BY <2>1, <3>2 DEF Adopt, TypeOK, disk, base
  <2>2. CASE Prepare(p)
    <3>1. media' \in [Path -> Try \cup {NoFile}]
      BY <2>2 DEF Prepare, TypeOK
    <3>2. pc' \in [Path -> Steps] /\ faults' \in 0 .. MaxFaults
      BY <2>2, BoundAssumption DEF Prepare, TypeOK, Goto, Steps, Fault, NoFault
    <3>3. tries[p] \in Try /\ tries[p] + 1 \in Try
      BY <2>2, BoundAssumption DEF Prepare, TypeOK, Try
    <3>4. tries' \in [Path -> Try]
      BY <2>2, <3>3 DEF Prepare, TypeOK
    <3>5. oracle' = [oracle EXCEPT ![<<p, tries[p] + 1>>] = "pending"] \/ oracle' = oracle
      BY <2>2 DEF Prepare
    <3>6. oracle' \in [Id -> {"none", "pending", "accepted"}]
      BY <3>5 DEF TypeOK
    <3> QED BY <2>2, <3>1, <3>2, <3>4, <3>6 DEF Prepare, TypeOK, disk, past
  <2>3. CASE Acquire(p)
    BY <2>3, <1>n, BoundAssumption DEF Acquire, TypeOK, NoFault, Fault, Goto, Unlock,
       Steps, Own, disk, base, proc, past, Stale
  <2>4. CASE Register(p)
    <3>1. pc' \in [Path -> Steps] /\ faults' \in 0 .. MaxFaults
      BY <2>4, BoundAssumption DEF Register, TypeOK, Goto, Steps, Fault, NoFault
    <3>2. oracle' \in [Id -> {"none", "pending", "accepted"}]
          /\ status' \in [Id -> {"none", "pending", "committed"}]
      BY <2>4 DEF Register, TypeOK
    <3>4. resv' \subseteq Id /\ existed' \subseteq Id
      BY <2>4, <1>n DEF Register, TypeOK
    <3>3. lock' \in Path \cup {NoOne, Janitor} /\ queue' \subseteq Id /\ whole' \in BOOLEAN /\ up' \in BOOLEAN
      BY <2>4 DEF Register, Unlock, TypeOK
    <3> QED BY <2>4, <3>1, <3>2, <3>3, <3>4 DEF Register, TypeOK, past
  <2>5. CASE \E q \in Path : Plan(p, q)
    <3>1. PICK q \in Path : Plan(p, q)
      BY <2>5
    <3>2. FileAt(q) \in Id
      BY <3>1, PlaceIsFile DEF Plan, Evictable
    <3>3. moves' \in [Id -> SUBSET Id]
      BY <3>1, <3>2, <1>n DEF Plan, TypeOK
    <3> QED BY <3>1, <3>3 DEF Plan, TypeOK, base, proc, past
  <2>18. CASE \E m \in Id : Evict(p, m)
    <3>1. PICK m \in Id : Evict(p, m)
      BY <2>18
    <3>2. file' \in [Path -> Try \cup {NoFile}] /\ faults' \in 0 .. MaxFaults
      BY <3>1, BoundAssumption DEF Evict, TypeOK, Fault, NoFault
    <3>3. /\ moves' = moves \/ moves' = [moves EXCEPT ![Now(p)] = moves[Now(p)] \ {m}]
          /\ quar' = quar \/ quar' = [quar EXCEPT ![Now(p)] = quar[Now(p)] \cup {m}]
      BY <3>1 DEF Evict
    <3>4. moves' \in [Id -> SUBSET Id] /\ quar' \in [Id -> SUBSET Id]
      <4>1. moves[Now(p)] \ {m} \in SUBSET Id /\ quar[Now(p)] \cup {m} \in SUBSET Id
        BY <1>n DEF TypeOK
      <4>2. moves' \in [Id -> SUBSET Id]
        BY <3>3, <4>1 DEF TypeOK
      <4>3. quar' \in [Id -> SUBSET Id]
        BY <3>3, <4>1 DEF TypeOK
      <4> QED BY <4>2, <4>3
    <3> QED BY <3>1, <3>2, <3>4 DEF Evict, TypeOK, base, proc, past
  <2>6. CASE Grant(p)
    BY <2>6, <1>n, BoundAssumption DEF Grant, TypeOK, NoFault, Fault, Goto, Unlock,
       Steps, Own, disk, base, proc, past
  <2>7. CASE Refuse(p)
    BY <2>7, <1>c, <1>n, Closing DEF Refuse, TypeOK, disk, base, proc, past, Goto, Unlock, Steps
  <2>8. CASE Create(p)
    <3>1. pc' \in [Path -> Steps] /\ faults' \in 0 .. MaxFaults
      BY <2>8, BoundAssumption DEF Create, TypeOK, Goto, Steps, Fault, NoFault
    <3>2. file' \in [Path -> Try \cup {NoFile}]
      BY <2>8 DEF Create, TypeOK
    <3> QED BY <2>8, <3>1, <3>2 DEF Create, TypeOK, base, past
  <2>9. CASE Claim(p)
    BY <2>9, <1>n, BoundAssumption DEF Claim, TypeOK, NoFault, Fault, Goto, Unlock,
       Steps, Own, disk, base, proc, past
  <2>10. CASE Write(p)
    <3>1. pc' \in [Path -> Steps] /\ faults' \in 0 .. MaxFaults
      BY <2>10, BoundAssumption DEF Write, TypeOK, Goto, Steps, Fault, NoFault
    <3>2. full' \subseteq Id /\ media' \in [Path -> Try \cup {NoFile}]
      BY <2>10, <1>n DEF Write, TypeOK
    <3> QED BY <2>10, <3>1, <3>2 DEF Write, TypeOK, base, past
  <2>11. CASE Abort(p)
    BY <2>11, <1>c, <1>n, Closing DEF Abort, TypeOK, disk, base, proc, past, Goto, Unlock, Steps
  <2>12. CASE Unlink(p)
    BY <2>12, <1>n, BoundAssumption DEF Unlink, TypeOK, NoFault, Fault, Goto, Unlock,
       Steps, Own, disk, base, proc, past
  <2>13. CASE StoreRow(p)
    BY <2>13, <1>n, BoundAssumption, SMTT(30) DEF StoreRow, TypeOK, NoFault, Fault, Goto, Unlock,
       Steps, Own, disk, base, proc, past
  <2>14. CASE StoreAccepted(p)
    <3>1. pc' \in [Path -> Steps] /\ faults' \in 0 .. MaxFaults
      BY <2>14, BoundAssumption DEF StoreAccepted, TypeOK, Goto, Steps, Fault, NoFault
    <3>2. oracle' \in [Id -> {"none", "pending", "accepted"}]
      BY <2>14, <1>n DEF StoreAccepted, TypeOK
    <3>3. row' \in [Path -> Try \cup {NoFile}] /\ owned' \subseteq Id
      BY <2>14, <1>n DEF StoreAccepted, Own, TypeOK
    <3> QED BY <2>14, <3>1, <3>2, <3>3 DEF StoreAccepted, TypeOK, disk
  <2>15. CASE Finalize(p)
    BY <2>15, <1>c, <1>n, Closing DEF Finalize, TypeOK, disk, base, proc, past, Goto, Unlock, Steps
  <2>16. CASE Settle(p)
    BY <2>16, <1>c, <1>n, Closing DEF Settle, TypeOK, disk, base, proc, past, Goto, Unlock, Steps
  <2>17. CASE Ack(p)
    BY <2>17, <1>n, BoundAssumption DEF Ack, TypeOK, NoFault, Fault, Goto, Unlock,
       Steps, Own, disk, base, proc, past
  <2> QED BY <1>1, <2>1, <2>2, <2>3, <2>4, <2>5, <2>6, <2>7, <2>8, <2>9, <2>10, <2>11, <2>12,
     <2>13, <2>14, <2>15, <2>16, <2>17, <2>18 DEF Step
<1>2. ASSUME NEW i \in Id, Recover(i) PROVE TypeOK'
  BY <1>2, <1>c, Closing DEF Recover, TypeOK
<1>3. ASSUME NEW q \in Path, Expire(q) PROVE TypeOK'
  BY <1>3, <1>n, BoundAssumption DEF Expire, TypeOK, NoFault, Fault, Goto, Unlock,
     Steps, Own, disk, base, proc, past, Evictable
<1>4. CASE Inspect
  BY <1>4, <1>n, BoundAssumption DEF Inspect, TypeOK, NoFault, Fault, Goto, Unlock,
     Steps, Own, disk, base, proc, past, Stale
<1>5. CASE EndInspect
  BY <1>5, <1>n, BoundAssumption DEF EndInspect, TypeOK, NoFault, Fault, Goto, Unlock,
     Steps, Own, disk, base, proc, past
<1>6. CASE Crash
  <2>1. pc' \in [Path -> Steps] /\ media' \in [Path -> Try \cup {NoFile}] /\ crashes' \in 0 .. MaxCrashes
    BY <1>6, BoundAssumption DEF Crash, TypeOK, Steps
  <2> QED BY <1>6, <2>1 DEF Crash, TypeOK, disk, base, past
<1>7. CASE UNCHANGED vars
  BY <1>7, <1>q DEF vars, disk, base, proc, past
<1> QED BY <1>1, <1>2, <1>3, <1>4, <1>5, <1>6, <1>7 DEF Next

\* No step takes an attempt back to an earlier stage.
LEMMA AgeStep == Base /\ [Next]_vars => Ages
<1> SUFFICES ASSUME Base, [Next]_vars PROVE Ages
  OBVIOUS
<1> USE DEF Base, TypeOK
<1>q. ASSUME UNCHANGED <<pc, tries>> PROVE Ages
  BY <1>q DEF Ages, Early
<1>1. ASSUME NEW p \in Path, Step(p) PROVE Ages
  <2>1. CASE Adopt(p)
    BY <2>1 DEF Ages, Adopt, Goto, Early, Try, proc
  <2>2. CASE Prepare(p)
    BY <2>2 DEF Ages, Prepare, Goto, Early, Try, proc
  <2>3. CASE Acquire(p)
    BY <2>3 DEF Ages, Acquire, Goto, Early, Try, proc
  <2>4. CASE Register(p)
    BY <2>4 DEF Ages, Register, Goto, Early, Try, proc
  <2>5. CASE Grant(p)
    BY <2>5 DEF Ages, Grant, Goto, Early, Try, proc
  <2>6. CASE Refuse(p)
    BY <2>6 DEF Ages, Refuse, Goto, Early, Try, proc
  <2>7. CASE Create(p)
    BY <2>7 DEF Ages, Create, Goto, Early, Try, proc
  <2>8. CASE Claim(p)
    BY <2>8 DEF Ages, Claim, Goto, Early, Try, proc
  <2>9. CASE Write(p)
    BY <2>9 DEF Ages, Write, Goto, Early, Try, proc
  <2>10. CASE Abort(p)
    BY <2>10 DEF Ages, Abort, Goto, Early, Try, proc
  <2>11. CASE Unlink(p)
    BY <2>11 DEF Ages, Unlink, Goto, Early, Try, proc
  <2>12. CASE StoreRow(p)
    BY <2>12 DEF Ages, StoreRow, Goto, Early, Try, proc
  <2>13. CASE StoreAccepted(p)
    BY <2>13 DEF Ages, StoreAccepted, Goto, Early, Try, proc
  <2>14. CASE Finalize(p)
    BY <2>14 DEF Ages, Finalize, Goto, Early, Try, proc
  <2>15. CASE Settle(p)
    BY <2>15 DEF Ages, Settle, Goto, Early, Try, proc
  <2> QED BY <1>1, <2>1, <2>2, <2>3, <2>4, <2>5, <2>6, <2>7, <2>8, <2>9, <2>10, <2>11, <2>12,
     <2>13, <2>14, <2>15, <1>q DEF Step, Plan, Evict, Ack, disk, base, proc, past
<1>2. ASSUME NEW i \in Id, Recover(i) PROVE Ages
  BY <1>2, <1>q DEF Recover, disk, base, proc, past
<1>3. ASSUME NEW q \in Path, Expire(q) PROVE Ages
  BY <1>3, <1>q DEF Expire, disk, base, proc, past
<1>4. CASE Crash
  BY <1>4 DEF Ages, Crash, Early
<1>5. CASE Inspect \/ EndInspect \/ UNCHANGED vars
  BY <1>5, <1>q DEF Inspect, EndInspect, vars, disk, base, proc, past
<1> QED BY <1>1, <1>2, <1>3, <1>4, <1>5 DEF Next

\* What has not been made is not made yet after a step, or was not made before.
LEMMA NotMadeShrinks ==
    ASSUME Base, [Next]_vars
    PROVE  \A i \in Id : (NotMade(i)' => NotMade(i)) /\ (Unused(i)' => Unused(i))
<1> SUFFICES ASSUME NEW i \in Id PROVE (NotMade(i)' => NotMade(i)) /\ (Unused(i)' => Unused(i))
  OBVIOUS
<1>1. i[1] \in Path /\ i[2] \in Int /\ i = <<i[1], i[2]>> /\ tries[i[1]] \in Int
  BY PlaceIsFile DEF Base, TypeOK, Try
<1>2. (Current(i) <=> i[2] = tries[i[1]]) /\ (Current(i)' <=> i[2] = tries'[i[1]])
  BY <1>1 DEF Current, Now
<1>3. \/ /\ tries'[i[1]] = tries[i[1]]
         /\ pc'[i[1]] \in Early => pc[i[1]] \in Early
         /\ pc'[i[1]] \in {"begin", "inventory"} => pc[i[1]] \in {"begin", "inventory"}
      \/ tries'[i[1]] = tries[i[1]] + 1
  BY <1>1, AgeStep DEF Ages
<1> QED BY <1>1, <1>2, <1>3 DEF NotMade, Unused, Later

\* Every step keeps Virgin.
LEMMA VirginStep == Base /\ [Next]_vars => Virgin'
<1> SUFFICES ASSUME Base, [Next]_vars, NEW i \in Id PROVE Traceless(i)'
  BY DEF Virgin
<1> USE DEF Base
<1>i. /\ i[1] \in Path /\ i[2] \in Try /\ i = <<i[1], i[2]>> /\ Traceless(i)
      /\ (NotMade(i)' => NotMade(i)) /\ (Unused(i)' => Unused(i)) /\ (Unused(i) => NotMade(i))
  BY PlaceIsFile, NotMadeShrinks DEF Virgin, NotMade, Unused, Early
<1>p. \A p \in Path : /\ Now(p) \in Id /\ Now(p) = <<p, tries[p]>> /\ Now(p)[1] = p
                      /\ NotMade(Now(p)) <=> pc[p] \in Early
                      /\ Unused(Now(p)) <=> pc[p] \in {"begin", "inventory"}
  BY PlaceIsFile DEF Now, NotMade, Unused, Later, Current, TypeOK, Try
<1>d. ASSUME NEW p \in Path, i = Now(p), tries' = tries
      PROVE  (NotMade(i)' => pc'[p] \in Early) /\ (Unused(i)' => pc'[p] \in {"begin", "inventory"})
  BY <1>d, <1>p DEF NotMade, Unused, Later, Current, TypeOK, Try
<1>e. ASSUME NEW j \in Id, Ended(j) PROVE Traceless(i)'
  <2>1. oracle'[i] = "accepted" => oracle[i] = "accepted"
    BY <1>e DEF Ended, TypeOK
  <2>2. Unused(i) => i # j /\ status'[i] = status[i]
    BY <1>e, <1>i, EndEffect DEF Ended, Traceless
  <2>3. (Quarantined(i)' => Quarantined(i)) /\ (InPlace(i)' => InPlace(i) \/ Quarantined(i))
        /\ (i \in expired' => i \in expired \/ Quarantined(i))
    BY <1>e, EndEffect
  <2> QED BY <1>e, <1>i, <2>1, <2>2, <2>3 DEF Ended, Traceless
<1>q. ASSUME UNCHANGED <<disk, oracle, resv, past>> PROVE Traceless(i)'
  BY <1>q, <1>i DEF Traceless, Quarantined, InPlace, FileAt, disk, past
<1>1. ASSUME NEW p \in Path, Step(p) PROVE Traceless(i)'
  <2>1. CASE Adopt(p)
    BY <2>1, <1>i, <1>p DEF Adopt, Full, Traceless, Quarantined, InPlace, FileAt, disk,
       base, past
  <2>2. CASE Prepare(p)
    <3>1. oracle'[i] = "accepted" => oracle[i] = "accepted"
      BY <2>2 DEF Prepare, TypeOK
    <3> QED BY <2>2, <3>1, <1>i DEF Prepare, Traceless, Quarantined, InPlace, FileAt, disk, past
  <2>3. CASE Acquire(p)
    BY <2>3, <1>i, <1>p DEF Acquire, TypeOK, Traceless, Quarantined, InPlace, FileAt,
       disk, base, past
  <2>4. CASE Register(p)
    <3>1. Unused(Now(p)) /\ (i = Now(p) /\ Unused(i)' => pc'[p] \in {"begin", "inventory"})
      BY <2>4, <1>d, <1>p DEF Register
    <3> QED BY <2>4, <3>1, <1>i, <1>p DEF Register, Goto, Traceless, Quarantined, InPlace, FileAt, TypeOK, base, past
  <2>5. ASSUME NEW m \in Id, Evict(p, m) PROVE Traceless(i)'
    <3>1. Quarantined(i)' => Quarantined(i) \/ (i = m /\ InPlace(m))
      BY <2>5, <1>p DEF Evict, Quarantined, InPlace, TypeOK
    <3>2. InPlace(i)' => InPlace(i)
      BY <2>5, <1>i, PlaceIsFile DEF Evict, InPlace, FileAt, Target, TypeOK, NoFile, Try
    <3> QED BY <2>5, <3>1, <3>2, <1>i DEF Evict, Traceless, base, proc, past
  <2>16. ASSUME NEW q \in Path, Plan(p, q) PROVE Traceless(i)'
    BY <2>16, <1>i DEF Plan, Traceless, Quarantined, InPlace, FileAt, base, proc, past
  <2>6. CASE Refuse(p)
    BY <2>6, <1>e, <1>p, Closing
  <2>7. CASE Create(p)
    <3>1. i = Now(p) /\ file' # file => ~NotMade(i)' /\ ~Unused(i)'
      BY <2>7, <1>i, <1>p, <1>d DEF Create, Goto, Early, TypeOK
    <3>2. file' # file => file' = [file EXCEPT ![p] = tries[p]]
      BY <2>7 DEF Create
    <3>3. InPlace(i)' => InPlace(i) \/ (file' # file /\ i = Now(p))
      BY <2>7, <3>2, <1>i, PlaceIsFile DEF InPlace, FileAt, Target, Now, TypeOK
    <3> QED BY <2>7, <3>1, <3>3, <1>i DEF Create, Traceless, Quarantined, base, past
  <2>8. CASE Claim(p)
    BY <2>8, <1>i, <1>p DEF Claim, Early, Traceless, Quarantined, InPlace, FileAt, disk,
       base, past
  <2>9. CASE Write(p)
    BY <2>9, <1>i, <1>p DEF Write, Early, Traceless, Quarantined, InPlace, FileAt, disk,
       base, past
  <2>10. CASE Abort(p)
    BY <2>10, <1>e, <1>p, Closing
  <2>11. CASE Unlink(p)
    <3>1. InPlace(i)' => InPlace(i)
      BY <2>11, <1>i, PlaceIsFile DEF Unlink, InPlace, FileAt, Target, TypeOK, NoFile, Try
    <3> QED BY <2>11, <3>1, <1>i DEF Unlink, Traceless, Quarantined, base, past
  <2>12. CASE StoreRow(p)
    <3>1. ~NotMade(i) \/ i # Here(p) \/ media[p] = NoFile
      <4>1. pc[p] = "owner" /\ (media[p] # NoFile => media[p] <= tries[p])
        BY <2>12 DEF StoreRow, Stages, Stage, Deeds
      <4>2. media[p] # NoFile /\ i = Here(p) => i[1] = p /\ i[2] <= tries[i[1]] /\ i[2] \in Int /\ tries[i[1]] \in Int
        BY <4>1, <1>i DEF Here, TypeOK, Try
      <4>3. i = Here(p) => pc[i[1]] \notin Early
        BY <4>1 DEF Here, Early
      <4> QED BY <4>2, <4>3 DEF NotMade, Later
    <3>2. i \in owned' => i \in owned \/ (i = Here(p) /\ media[p] # NoFile)
      BY <2>12 DEF StoreRow, Own, Here
    <3> QED BY <2>12, <3>1, <3>2, <1>i DEF StoreRow, Traceless, Quarantined, InPlace, FileAt, disk
  <2>13. CASE StoreAccepted(p)
    <3>1. media[p] = tries[p] /\ ~NotMade(Now(p))
      BY <2>13, <1>p DEF StoreAccepted, Stages, Stage, Deeds, Early
    <3>2. (i \in owned' => i \in owned \/ i = Now(p)) /\ (oracle'[i] = "accepted" => oracle[i] = "accepted" \/ i = Now(p))
      BY <2>13, <3>1, <1>p DEF StoreAccepted, Own, TypeOK
    <3> QED BY <2>13, <3>1, <3>2, <1>i DEF StoreAccepted, Traceless, Quarantined, InPlace, FileAt, disk
  <2>14. CASE Finalize(p)
    BY <2>14, <1>e, <1>p, Closing
  <2>15. CASE Settle(p)
    BY <2>15, <1>e, <1>p, Closing
  <2> QED BY <1>1, <2>1, <2>2, <2>3, <2>4, <2>5, <2>6, <2>7, <2>8, <2>9, <2>10, <2>11, <2>12,
     <2>13, <2>14, <2>15, <2>16, <1>q DEF Step, Grant, Ack, disk, base, proc, past
<1>2. ASSUME NEW j \in Id, Recover(j) PROVE Traceless(i)'
  BY <1>2, <1>e, Closing
<1>3. ASSUME NEW q \in Path, Expire(q) PROVE Traceless(i)'
  <2>1. FileAt(q) \in Id /\ InPlace(FileAt(q))
    BY <1>3, PlaceIsFile DEF Expire, Evictable
  <2>2. InPlace(i)' => InPlace(i)
    BY <1>3, <1>i, PlaceIsFile DEF Expire, InPlace, FileAt, Target, TypeOK, NoFile, Try
  <2> QED BY <1>3, <2>1, <2>2, <1>i DEF Expire, Traceless, Quarantined, base, proc
<1>4. CASE Crash
  BY <1>4, <1>i, <1>p DEF Crash, Traceless, Quarantined, InPlace, FileAt, disk, base,
     past
<1>5. CASE Inspect \/ EndInspect \/ UNCHANGED vars
  BY <1>5, <1>q DEF Inspect, EndInspect, vars, disk, base, proc, past
<1> QED BY <1>1, <1>2, <1>3, <1>4, <1>5 DEF Next

\* Every step keeps what is known of an attempt.
LEMMA StageStep == Base /\ [Next]_vars => \A x \in Path : Stage(x)'
<1> SUFFICES ASSUME Base, [Next]_vars, NEW x \in Path PROVE Stage(x)'
  OBVIOUS
<1> USE DEF Base, Stages
<1>p. \A p \in Path : /\ Now(p) \in Id /\ Now(p) = <<p, tries[p]>> /\ (x # p => Now(p) # Now(x))
                      /\ Stage(p)
  BY PlaceIsFile DEF Now
<1>f. ASSUME pc'[x] = pc[x], tries'[x] = tries[x], media'[x] = media[x],
             pc[x] \in Inside /\ Now(x) \in resv => Now(x) \in resv' /\ status'[Now(x)] = status[Now(x)],
             claimed \subseteq claimed', owned \subseteq owned', Now(x) \in owned' => Now(x) \in owned,
             oracle'[Now(x)] = "accepted" => oracle[Now(x)] = "accepted"
      PROVE  Stage(x)'
  <2>1. Now(x)' = Now(x) /\ Stage(x)
    BY <1>f, <1>p DEF Now
  <2> QED BY <1>f, <2>1 DEF Stage
<1>e. ASSUME NEW j \in Id, Ended(j), pc[x] \in Inside => j # Now(x), pc'[x] = pc[x] PROVE Stage(x)'
  <2>1. oracle'[Now(x)] = "accepted" => oracle[Now(x)] = "accepted"
    BY <1>e, <1>p DEF Ended, TypeOK
  <2>2. pc[x] \in Inside /\ Now(x) \in resv => Now(x) \in resv' /\ status'[Now(x)] = status[Now(x)]
    BY <1>e, <1>p, EndEffect DEF Ended
  <2> QED BY <1>e, <1>f, <2>1, <2>2 DEF Ended
<1>q. ASSUME UNCHANGED <<status, claimed, oracle, resv, tries, pc, media, owned>> PROVE
   Stage(x)'
  BY <1>q, <1>f
<1>1. ASSUME NEW p \in Path, Step(p) PROVE Stage(x)'
  <2>1. CASE Adopt(p)
    <3>1. CASE x # p
      BY <2>1, <1>f, <1>p, <3>1 DEF Adopt, Goto, TypeOK, disk, base, past
    <3>2. CASE x = p
      <4>1. FileAt(p) \in Id /\ ~NotMade(FileAt(p))
        BY <2>1, PlaceIsFile DEF Adopt, Full, Virgin, Traceless
      <4>2. media'[p] <= tries[p]
        BY <2>1, <4>1 DEF Adopt, NotMade, Later, FileAt, TypeOK, Try, NoFile
      <4> QED BY <2>1, <3>2, <4>2 DEF Adopt, Stage, Goto, Early, Inside, TypeOK
    <3> QED BY <3>1, <3>2
  <2>2. CASE Prepare(p)
    <3>1. CASE x # p
      BY <2>2, <1>f, <1>p, <3>1 DEF Prepare, Goto, TypeOK, disk, base, past
    <3>2. CASE x = p
      BY <2>2, <1>p, <3>2 DEF Prepare, Stage, Now, Goto, Early, Inside, TypeOK
    <3> QED BY <3>1, <3>2
  <2>3. CASE Acquire(p)
    <3>1. CASE x # p
      BY <2>3, <1>f, <1>p, <3>1 DEF Acquire, Goto, TypeOK, disk, base, past
    <3>2. CASE x = p
      BY <2>3, <1>p, <3>2 DEF Acquire, Stage, Now, Goto, Early, Inside, TypeOK
    <3> QED BY <3>1, <3>2
  <2>4. CASE Register(p)
    <3>1. CASE x # p
      BY <2>4, <1>f, <1>p, <3>1 DEF Register, Goto, TypeOK, disk, base, past
    <3>2. CASE x = p
      <4>1. pc' = [pc EXCEPT ![p] = "evict"] \/ pc' = [pc EXCEPT ![p] = "owner"]
        BY <2>4 DEF Register, Goto
      <4>2. pc'[p] = "evict" => Now(p) \in resv' /\ status'[Now(p)] = "pending"
        BY <2>4, <1>p DEF Register, Goto, TypeOK
      <4>3. media[p] = NoFile /\ media' = media /\ Now(p)' = Now(p)
        BY <2>4 DEF Register, Stage, Early, Now
      <4> QED BY <3>2, <4>1, <4>2, <4>3 DEF Stage, Early, Inside, TypeOK
    <3> QED BY <3>1, <3>2
  <2>5. CASE (\E q \in Path : Plan(p, q)) \/ \E m \in Id : Evict(p, m)
    BY <2>5, <1>f DEF Plan, Evict, base, proc, past
  <2>6. CASE Grant(p)
    <3>1. CASE x # p
      BY <2>6, <1>f, <1>p, <3>1 DEF Grant, Goto, TypeOK, disk, base, past
    <3>2. CASE x = p
      BY <2>6, <1>p, <3>2 DEF Grant, Stage, Now, Goto, Early, Inside, TypeOK, disk, base, past
    <3> QED BY <3>1, <3>2
  <2>7. CASE Refuse(p)
    <3>1. CASE x # p
      BY <2>7, <1>e, <1>p, <3>1, Closing DEF Refuse, Goto, TypeOK
    <3>2. CASE x = p
      BY <2>7, <1>p, <3>2 DEF Refuse, Stage, Now, Goto, Early, Inside, TypeOK
    <3> QED BY <3>1, <3>2
  <2>8. CASE Create(p)
    <3>1. CASE x # p
      BY <2>8, <1>f, <1>p, <3>1 DEF Create, Goto, TypeOK, disk, base, past
    <3>2. CASE x = p
      <4>1. oracle[Now(p)] # "accepted" /\ Now(p) \notin owned
        BY <2>8, <1>p DEF Create, Virgin, Traceless, NotMade, Current, Early
      <4> QED BY <2>8, <3>2, <4>1 DEF Create, Stage, Now, Goto, Early, Inside, TypeOK, base, past
    <3> QED BY <3>1, <3>2
  <2>9. CASE Claim(p)
    <3>1. CASE x # p
      BY <2>9, <1>f, <1>p, <3>1 DEF Claim, Goto, TypeOK, disk, base, past
    <3>2. CASE x = p
      BY <2>9, <1>p, <3>2 DEF Claim, Stage, Now, Goto, Early, Inside, TypeOK, base, past
    <3> QED BY <3>1, <3>2
  <2>10. CASE Write(p)
    <3>1. CASE x # p
      BY <2>10, <1>f, <1>p, <3>1 DEF Write, Goto, TypeOK, disk, base, past
    <3>2. CASE x = p
      BY <2>10, <1>p, <3>2 DEF Write, Stage, Now, Goto, Early, Inside, TypeOK, base, past
    <3> QED BY <3>1, <3>2
  <2>11. CASE Abort(p)
    <3>1. CASE x # p
      BY <2>11, <1>e, <1>p, <3>1, Closing DEF Abort, Goto, TypeOK
    <3>2. CASE x = p
      <4>1. oracle'[Now(p)] # "accepted" /\ owned' = owned /\ Now(p)' = Now(p)
        BY <2>11, <1>p, Closing DEF Abort, Stage, Ended, TypeOK, Now
      <4> QED BY <2>11, <3>2, <4>1 DEF Abort, Stage, Goto, Early, Inside, TypeOK
    <3> QED BY <3>1, <3>2
  <2>12. CASE Unlink(p)
    <3>1. CASE x # p
      BY <2>12, <1>f, <1>p, <3>1 DEF Unlink, Goto, TypeOK, disk, base, past
    <3>2. CASE x = p
      BY <2>12, <1>p, <3>2 DEF Unlink, Stage, Now, Goto, Early, Inside, TypeOK, base, past
    <3> QED BY <3>1, <3>2
  <2>13. CASE StoreRow(p)
    <3>1. CASE x # p
      BY <2>13, <1>f, <1>p, <3>1 DEF StoreRow, Goto, TypeOK, disk, base, past, Own
    <3>2. CASE x = p
      BY <2>13, <1>p, <3>2 DEF StoreRow, Stage, Now, Goto, Early, Inside, TypeOK
    <3> QED BY <3>1, <3>2
  <2>14. CASE StoreAccepted(p)
    <3>1. CASE x # p
      BY <2>14, <1>f, <1>p, <3>1 DEF StoreAccepted, Goto, TypeOK, disk, base, past, Own
    <3>2. CASE x = p
      <4>1. pc' = [pc EXCEPT ![p] = "finalize"] \/ pc' = [pc EXCEPT ![p] = "settle"]
        BY <2>14 DEF StoreAccepted, Goto
      <4>2. Now(p)' = Now(p) /\ media' = media /\ tries' = tries /\ media[p] = tries[p] /\ media[p] # NoFile
        BY <2>14, BoundAssumption DEF StoreAccepted, Stage, Now, TypeOK, Try, NoFile
      <4>3. pc'[p] = "finalize" => Now(p) \in owned'
        BY <2>14, <4>2, <1>p DEF StoreAccepted, Own, Goto, TypeOK
      <4>4. Now(p) \in resv' /\ status'[Now(p)] = "pending" /\ Now(p) \in claimed'
        BY <2>14 DEF StoreAccepted, Stage, Inside, disk
      <4> QED BY <3>2, <4>1, <4>2, <4>3, <4>4 DEF Stage, Early, TypeOK
    <3> QED BY <3>1, <3>2
  <2>15. CASE Finalize(p)
    <3>1. CASE x # p
      BY <2>15, <1>e, <1>p, <3>1, Closing DEF Finalize, Goto, TypeOK
    <3>2. CASE x = p
      <4>1. pc'[p] \in {"idle", "done"}
        BY <2>15 DEF Finalize, Goto, TypeOK
      <4> QED BY <3>2, <4>1 DEF Stage, Early, Inside
    <3> QED BY <3>1, <3>2
  <2>16. CASE Settle(p)
    <3>1. CASE x # p
      BY <2>16, <1>e, <1>p, <3>1, Closing DEF Settle, Goto, TypeOK
    <3>2. CASE x = p
      BY <2>16, <1>p, <3>2 DEF Settle, Stage, Now, Goto, Early, Inside, TypeOK
    <3> QED BY <3>1, <3>2
  <2> QED BY <1>1, <2>1, <2>2, <2>3, <2>4, <2>5, <2>6, <2>7, <2>8, <2>9, <2>10, <2>11, <2>12,
     <2>13, <2>14, <2>15, <2>16, <1>q DEF Step, Ack, disk, base, proc, past
<1>2. ASSUME NEW i \in Id, Recover(i) PROVE Stage(x)'
  <2>1. pc[x] \in Inside => i # Now(x)
    BY <1>2, Closing DEF Stage
  <2> QED BY <1>2, <1>e, <2>1, Closing DEF Recover
<1>3. ASSUME NEW q \in Path, Expire(q) PROVE Stage(x)'
  BY <1>3, <1>q DEF Expire, disk, base, proc, past
<1>4. CASE Crash
  BY <1>4 DEF Crash, Stage, Early, Inside
<1>5. CASE Inspect \/ EndInspect \/ UNCHANGED vars
  BY <1>5, <1>q DEF Inspect, EndInspect, vars, disk, base, proc, past
<1> QED BY <1>1, <1>2, <1>3, <1>4, <1>5 DEF Next

\* Every step keeps what is known of every attempt.
LEMMA DeedsStep == Base /\ [Next]_vars => Deeds'
<1> SUFFICES ASSUME Base, [Next]_vars PROVE Deeds'
  OBVIOUS
<1> USE DEF Base
<1>p. /\ Deeds /\ claimed \subseteq Id /\ full \subseteq Id
      /\ \A p \in Path : Now(p) \in Id /\ Now(p)[1] = p /\ Now(p) = <<p, tries[p]>>
  BY PlaceIsFile DEF Stages, TypeOK, Now
<1>e. ASSUME NEW j \in Id, Ended(j) PROVE Deeds'
  <2>1. \A i \in Id : oracle'[i] = "accepted" => oracle[i] = "accepted"
    BY <1>e DEF Ended, TypeOK
  <2>2. \A i \in Id : status'[i] = "committed" => status[i] = "committed" \/ i \in owned
    BY <1>e, EndEffect
  <2> QED BY <1>e, <1>p, <2>1, <2>2 DEF Ended, Deeds
<1>q. ASSUME UNCHANGED <<full, existed, claimed, status, oracle, owned>> PROVE Deeds'
  BY <1>q, <1>p DEF Deeds
<1>1. ASSUME NEW p \in Path, Step(p) PROVE Deeds'
  <2>1. CASE Prepare(p)
    <3>1. \A i \in Id : oracle'[i] = "accepted" => oracle[i] = "accepted"
      BY <2>1 DEF Prepare, TypeOK
    <3> QED BY <2>1, <1>p, <3>1 DEF Prepare, Deeds, disk, past
  <2>2. CASE Acquire(p)
    <3>1. \A i \in Id : oracle'[i] = "accepted" => oracle[i] = "accepted"
      BY <2>2 DEF Acquire, TypeOK
    <3> QED BY <2>2, <1>p, <3>1 DEF Acquire, Deeds, disk, past
  <2>3. CASE Register(p)
    <3>1. \A i \in Id : (oracle'[i] = "accepted" => oracle[i] = "accepted")
                      /\ (status'[i] = "committed" => status[i] = "committed")
      BY <2>3 DEF Register, TypeOK
    <3>2. Now(p) \notin claimed
      BY <2>3, <1>p DEF Register, Virgin, Traceless, NotMade, Current, Early
    <3> QED BY <2>3, <1>p, <3>1, <3>2 DEF Register, Deeds, past
  <2>4. CASE Refuse(p)
    BY <2>4, <1>e, <1>p, Closing
  <2>5. CASE Claim(p)
    BY <2>5, <1>p DEF Claim, Deeds, base, past
  <2>6. CASE Write(p)
    BY <2>6, <1>p DEF Write, Deeds, Stages, Stage, base, past
  <2>7. CASE Abort(p)
    BY <2>7, <1>e, <1>p, Closing
  <2>8. CASE StoreRow(p)
    BY <2>8, <1>p DEF StoreRow, Deeds, Own, disk
  <2>9. CASE StoreAccepted(p)
    <3>1. <<p, media[p]>> = Now(p) /\ media[p] # NoFile
      BY <2>9, <1>p, PlaceIsFile DEF StoreAccepted, Stages, Stage, TypeOK
    <3>2. Now(p) \in owned' \/ UNCHANGED <<oracle, owned>>
      BY <2>9, <3>1 DEF StoreAccepted, Own
    <3>3. \A i \in Id : oracle'[i] = "accepted" => oracle[i] = "accepted" \/ i = Now(p)
      BY <2>9 DEF StoreAccepted, TypeOK
    <3>4. owned \subseteq owned'
      BY <2>9 DEF StoreAccepted, Own
    <3> QED BY <2>9, <1>p, <3>2, <3>3, <3>4 DEF StoreAccepted, Deeds, disk
  <2>10. CASE Finalize(p)
    BY <2>10, <1>e, <1>p, Closing
  <2>11. CASE Settle(p)
    BY <2>11, <1>e, <1>p, Closing
  <2> QED BY <1>1, <2>1, <2>2, <2>3, <2>4, <2>5, <2>6, <2>7, <2>8, <2>9, <2>10, <2>11, <1>q DEF
     Step, Adopt, Plan, Evict, Grant, Create, Unlink, Ack, disk, base, proc, past
<1>2. ASSUME NEW i \in Id, Recover(i) PROVE Deeds'
  BY <1>2, <1>e, Closing
<1>3. ASSUME NEW q \in Path, Expire(q) PROVE Deeds'
  BY <1>3, <1>q DEF Expire, disk, base, proc, past
<1>4. CASE Inspect \/ EndInspect \/ Crash \/ UNCHANGED vars
  BY <1>4, <1>q DEF Inspect, EndInspect, Crash, vars, disk, base, proc, past
<1> QED BY <1>1, <1>2, <1>3, <1>4 DEF Next

\* Every step keeps the discipline of the lock and of inventories.
LEMMA CleanStep == Base /\ [Next]_vars => Clean'
<1> SUFFICES ASSUME Base, [Next]_vars PROVE Clean'
  OBVIOUS
<1> USE DEF Base
<1>p. \A p \in Path : Now(p) \in Id /\ p # NoOne /\ p # Janitor
  BY PlaceIsFile, PathAssumption
<1>z. Clean /\ pc \in [Path -> Steps] /\ queue \subseteq Id
  BY DEF TypeOK
<1>f. ASSUME UNCHANGED <<lock, queue, whole, status, resv>>,
             \A x \in Path : /\ pc'[x] \in {"inventory", "evict"} <=> pc[x] \in {"inventory", "evict"}
                             /\ pc'[x] = "evict" <=> pc[x] = "evict"
      PROVE  Clean'
  BY <1>f, <1>z DEF Clean, Stale
<1>q. ASSUME UNCHANGED <<pc, lock, queue, whole, status, resv>> PROVE Clean'
  BY <1>q, <1>f
<1>1. ASSUME NEW p \in Path, Step(p) PROVE Clean'
  <2>1. CASE Adopt(p)
    BY <2>1, <1>f DEF Adopt, Goto, TypeOK, disk, base, past
  <2>2. CASE Prepare(p)
    BY <2>2, <1>f DEF Prepare, Goto, TypeOK, disk, base, past
  <2>3. CASE Acquire(p)
    <3>1. CASE p \in Protected
      BY <2>3, <1>f, <3>1 DEF Acquire, Goto, TypeOK, disk, past
    <3>2. CASE p \notin Protected
      <4>1. pc' = [pc EXCEPT ![p] = "inventory"] /\ lock' = p /\ lock = NoOne /\ queue' = Stale
            /\ UNCHANGED <<status, resv>>
        BY <2>3, <3>2 DEF Acquire, Goto, disk
      <4> QED BY <4>1, <1>z, PathAssumption DEF Clean, Stale
    <3> QED BY <3>1, <3>2
  <2>4. CASE Register(p)
    <3>1. CASE Goto(p, "evict") /\ resv' = resv \cup {Now(p)} /\ status' = [status EXCEPT ![Now(p)] = "pending"]
               /\ UNCHANGED <<lock, queue, whole>>
      <4>1. Stale' \subseteq Stale
        BY <3>1, <1>p DEF Stale, TypeOK
      <4> QED BY <2>4, <3>1, <4>1, <1>z DEF Register, Goto, Clean
    <3>2. CASE Goto(p, "owner") /\ lock' = NoOne /\ UNCHANGED <<resv, status, queue, whole>>
      BY <2>4, <3>2, <1>z, PathAssumption DEF Register, Goto, Clean
    <3> QED BY <2>4, <3>1, <3>2 DEF Register, Unlock
  <2>5. CASE (\E q \in Path : Plan(p, q)) \/ \E m \in Id : Evict(p, m)
    BY <2>5, <1>f DEF Plan, Evict, base, proc, past
  <2>6. CASE Grant(p)
    BY <1>z, <1>p, PathAssumption, <2>6 DEF Grant, Goto, Unlock, Clean, TypeOK, disk
  <2>7. CASE Refuse(p)
    <3>1. lock' = NoOne /\ queue' = queue /\ pc' = [pc EXCEPT ![p] = pc'[p]] /\ pc'[p] \notin {"inventory", "evict"}
      BY <2>7, <1>p DEF Refuse, Goto, TypeOK, Unlock
    <3>2. Ended(Now(p)) /\ Now(p) \in Id /\ (lock = NoOne \/ lock = p)
      BY <2>7, <1>p, Closing DEF Refuse
    <3> QED BY <3>1, <3>2, <1>p, <1>z, PathAssumption DEF Ended, Clean
  <2>8. CASE Create(p)
    BY <2>8, <1>f DEF Create, Goto, TypeOK, disk, base, past
  <2>9. CASE Claim(p)
    BY <2>9, <1>f DEF Claim, Goto, TypeOK, disk, base, past
  <2>10. CASE Write(p)
    BY <2>10, <1>f DEF Write, Goto, TypeOK, disk, base, past
  <2>11. CASE Abort(p)
    <3>1. lock' = NoOne /\ queue' = queue /\ pc' = [pc EXCEPT ![p] = pc'[p]] /\ pc'[p] \notin {"inventory", "evict"}
      BY <2>11, <1>p DEF Abort, Goto, TypeOK, Unlock
    <3>2. Ended(Now(p)) /\ Now(p) \in Id /\ (lock = NoOne \/ lock = p)
      BY <2>11, <1>p, Closing DEF Abort
    <3> QED BY <3>1, <3>2, <1>p, <1>z, PathAssumption DEF Ended, Clean
  <2>12. CASE Unlink(p)
    BY <2>12, <1>f DEF Unlink, Goto, TypeOK, disk, base, past
  <2>13. CASE StoreRow(p)
    BY <2>13, <1>f DEF StoreRow, Goto, TypeOK, disk, base, past
  <2>14. CASE StoreAccepted(p)
    BY <2>14, <1>f DEF StoreAccepted, Goto, TypeOK, disk, base, past
  <2>15. CASE Finalize(p)
    <3>1. lock' = NoOne /\ queue' = queue /\ pc' = [pc EXCEPT ![p] = pc'[p]] /\ pc'[p] \notin {"inventory", "evict"}
      BY <2>15, <1>p DEF Finalize, Goto, TypeOK, Unlock
    <3>2. Ended(Now(p)) /\ Now(p) \in Id /\ (lock = NoOne \/ lock = p)
      BY <2>15, <1>p, Closing DEF Finalize
    <3> QED BY <3>1, <3>2, <1>p, <1>z, PathAssumption DEF Ended, Clean
  <2>16. CASE Settle(p)
    <3>1. lock' = NoOne /\ queue' = queue /\ pc' = [pc EXCEPT ![p] = pc'[p]] /\ pc'[p] \notin {"inventory", "evict"}
      BY <2>16, <1>p DEF Settle, Goto, TypeOK, Unlock
    <3>2. Ended(Now(p)) /\ Now(p) \in Id /\ (lock = NoOne \/ lock = p)
      BY <2>16, <1>p, Closing DEF Settle
    <3> QED BY <3>1, <3>2, <1>p, <1>z, PathAssumption DEF Ended, Clean
  <2> QED BY <1>1, <2>1, <2>2, <2>3, <2>4, <2>5, <2>6, <2>7, <2>8, <2>9, <2>10, <2>11, <2>12,
     <2>13, <2>14, <2>15, <2>16, <1>q DEF Step, Ack, disk, base, proc, past
<1>2. ASSUME NEW i \in Id, Recover(i) PROVE Clean'
  <2>1. UNCHANGED <<pc, lock, resv>> /\ queue' = queue \ {i} /\ (whole' => whole /\ status'[i] = "none")
        /\ lock # NoOne /\ i \in queue
    BY <1>2 DEF Recover
  <2>2. \A m \in Id \ {i} : status'[m] = status[m]
    BY <1>2, Closing, EndEffect
  <2> QED BY <2>1, <2>2 DEF Clean, Stale
<1>3. ASSUME NEW q \in Path, Expire(q) PROVE Clean'
  BY <1>3, <1>f DEF Expire, base, proc, past
<1>4. CASE Inspect
  BY <1>z, <1>p, PathAssumption, <1>4 DEF Inspect, Clean, Stale, disk
<1>5. CASE EndInspect
  BY <1>z, <1>p, PathAssumption, <1>5 DEF EndInspect, Clean, disk
<1>6. CASE Crash
  BY <1>z, <1>p, PathAssumption, <1>6 DEF Crash, Clean, Stale, disk
<1>7. CASE UNCHANGED vars
  BY <1>7, <1>q DEF vars, disk, base, proc, past
<1> QED BY <1>1, <1>2, <1>3, <1>4, <1>5, <1>6, <1>7 DEF Next

\* One path changes hands.
LEMMA OnePlace ==
    ASSUME TypeOK, NEW p \in Path, NEW k \in Try \cup {NoFile}, file' = [file EXCEPT ![p] = k]
    PROVE  \A m \in Id : InPlace(m)' <=> IF m[1] = p THEN m[2] = k ELSE InPlace(m)
<1> SUFFICES ASSUME NEW m \in Id PROVE InPlace(m)' <=> IF m[1] = p THEN m[2] = k ELSE InPlace(m)
  OBVIOUS
<1>1. m[1] \in Path /\ m = <<m[1], m[2]>> /\ (InPlace(m)' <=> file'[m[1]] = m[2])
      /\ (InPlace(m) <=> file[m[1]] = m[2])
  BY PlaceIsFile DEF InPlace, FileAt, Target
<1> QED BY <1>1 DEF TypeOK

\* The paths that actions other than the end of a journal change.
LEMMA PlaceEffect ==
    ASSUME TypeOK
    PROVE  /\ \A p \in Path : \A m \in Id : Evict(p, m) =>
                \/ UNCHANGED <<file, quar>> /\ moves' = [moves EXCEPT ![Now(p)] = moves[Now(p)] \ {m}]
                \/ /\ InPlace(m) /\ UNCHANGED moves
                   /\ \A k, j \in Id : k \in quar'[j] <=> k \in quar[j] \/ (j = Now(p) /\ k = m)
                   /\ \A k \in Id : InPlace(k)' <=> InPlace(k) /\ k # m
           /\ \A q \in Path : Expire(q) =>
                /\ FileAt(q) \in Id /\ InPlace(FileAt(q))
                /\ \A m \in Id : InPlace(m)' <=> InPlace(m) /\ m # FileAt(q)
           /\ \A p \in Path : Create(p) =>
                \A m \in Id : (InPlace(m)' => InPlace(m) \/ m = Now(p)) /\ (InPlace(m) => InPlace(m)')
           /\ \A p \in Path : Unlink(p) =>
                \A m \in Id : (InPlace(m)' => InPlace(m)) /\ (InPlace(m) /\ m # Now(p) => InPlace(m)')
<1>4. ASSUME NEW p \in Path, NEW m \in Id, Evict(p, m)
      PROVE  \/ UNCHANGED <<file, quar>> /\ moves' = [moves EXCEPT ![Now(p)] = moves[Now(p)] \ {m}]
             \/ /\ InPlace(m) /\ UNCHANGED moves
                /\ \A k, j \in Id : k \in quar'[j] <=> k \in quar[j] \/ (j = Now(p) /\ k = m)
                /\ \A k \in Id : InPlace(k)' <=> InPlace(k) /\ k # m
  <2>1. CASE /\ FileAt(Target(m)) = m /\ UNCHANGED moves
             /\ quar' = [quar EXCEPT ![Now(p)] = quar[Now(p)] \cup {m}]
             /\ file' = [file EXCEPT ![Target(m)] = NoFile]
    <3>1. \A k, j \in Id : k \in quar'[j] <=> k \in quar[j] \/ (j = Now(p) /\ k = m)
      BY <2>1 DEF TypeOK
    <3>2. Target(m) \in Path /\ Target(m) = m[1]
      BY PlaceIsFile DEF Target
    <3>3. ASSUME NEW k \in Id PROVE InPlace(k)' <=> InPlace(k) /\ k # m
      <4>1. InPlace(k)' <=> IF k[1] = m[1] THEN k[2] = NoFile ELSE InPlace(k)
        BY <2>1, <3>2, OnePlace
      <4>2. k[2] # NoFile /\ (k[1] = m[1] /\ InPlace(k) => k = m)
        BY <2>1, <3>2, PlaceIsFile DEF InPlace, Target
      <4> QED BY <4>1, <4>2
    <3> QED BY <2>1, <3>1, <3>3 DEF InPlace
  <2> QED BY <1>4, <2>1 DEF Evict
<1>1. ASSUME NEW q \in Path, Expire(q)
      PROVE  /\ FileAt(q) \in Id /\ InPlace(FileAt(q))
             /\ \A m \in Id : InPlace(m)' <=> InPlace(m) /\ m # FileAt(q)
  <2>1. FileAt(q) \in Id /\ InPlace(FileAt(q)) /\ FileAt(q)[1] = q /\ file' = [file EXCEPT ![q] = NoFile]
    BY <1>1, PlaceIsFile DEF Expire, Evictable, FileAt
  <2>2. ASSUME NEW m \in Id PROVE InPlace(m)' <=> InPlace(m) /\ m # FileAt(q)
    <3>1. InPlace(m)' <=> IF m[1] = q THEN m[2] = NoFile ELSE InPlace(m)
      BY <2>1, OnePlace
    <3>2. m[2] # NoFile /\ (m[1] = q /\ InPlace(m) => m = FileAt(q))
      BY PlaceIsFile
    <3> QED BY <2>1, <3>1, <3>2
  <2> QED BY <2>1, <2>2
<1>2. ASSUME NEW p \in Path, Create(p), NEW m \in Id
      PROVE  (InPlace(m)' => InPlace(m) \/ m = Now(p)) /\ (InPlace(m) => InPlace(m)')
  <2>1. CASE file' = file
    BY <2>1 DEF InPlace, FileAt
  <2>2. CASE file' = [file EXCEPT ![p] = tries[p]] /\ ~Present(p)
    <3>1. InPlace(m)' <=> IF m[1] = p THEN m[2] = tries[p] ELSE InPlace(m)
      BY <2>2, OnePlace DEF TypeOK
    <3>2. m = <<m[1], m[2]>> /\ (m[1] = p => ~InPlace(m))
      BY <2>2, PlaceIsFile
    <3>3. m[1] = p /\ m[2] = tries[p] => m = Now(p)
      BY <3>2 DEF Now
    <3> QED BY <3>1, <3>2, <3>3
  <2> QED BY <1>2, <2>1, <2>2 DEF Create
<1>3. ASSUME NEW p \in Path, Unlink(p), NEW m \in Id
      PROVE  (InPlace(m)' => InPlace(m)) /\ (InPlace(m) /\ m # Now(p) => InPlace(m)')
  <2>1. CASE file' = file
    BY <2>1 DEF InPlace, FileAt
  <2>2. CASE file' = [file EXCEPT ![p] = NoFile] /\ FileAt(p) = Now(p)
    <3>1. InPlace(m)' <=> IF m[1] = p THEN m[2] = NoFile ELSE InPlace(m)
      BY <2>2, OnePlace
    <3>2. m[2] # NoFile /\ (m[1] = p /\ InPlace(m) => m = FileAt(p))
      BY PlaceIsFile
    <3> QED BY <2>2, <3>1, <3>2
  <2> QED BY <1>3, <2>1, <2>2 DEF Unlink
<1> QED BY <1>1, <1>2, <1>3, <1>4

\* Every step leaves every file in one place.
LEMMA ApartStep == Base /\ Apart /\ [Next]_vars => Apart'
<1> SUFFICES ASSUME Base, Apart, [Next]_vars PROVE Apart'
  OBVIOUS
<1> USE DEF Base
<1>p. Apart /\ \A p \in Path : Now(p) \in Id /\ Now(p)[1] = p /\ Now(p) = <<p, tries[p]>>
  BY PlaceIsFile DEF Now
<1>e. ASSUME NEW j \in Id, Ended(j) PROVE Apart'
  <2>1. \A m, k \in Id : m \in quar'[k] => m \in quar[k]
    BY <1>e, EndEffect
  <2>2. CASE file' = file
    BY <1>p, <2>1, <2>2 DEF Apart, InPlace, FileAt
  <2>3. CASE FinishRollback(j) /\ file' # file
    <3>1. PICK R \in SUBSET quar[j] :
             /\ quar'[j] = quar[j] \ R
             /\ \A m \in Id : InPlace(m)' <=> m \in R \/ (InPlace(m) /\ ~(Mine(j) /\ m = j))
      BY <2>3, RollbackEffect
    <3>2. ASSUME NEW m \in Id, NEW k \in Id, m \in quar'[k] PROVE ~InPlace(m)'
      BY <1>p, <2>1, <3>1, <3>2 DEF Apart
    <3> QED BY <1>p, <2>1, <3>2 DEF Apart
  <2> QED BY <1>e, <2>2, <2>3, CommitEffect DEF Ended, disk
<1>q. ASSUME UNCHANGED <<file, quar>> PROVE Apart'
  BY <1>q, <1>p DEF Apart, InPlace, FileAt
<1>1. ASSUME NEW p \in Path, Step(p) PROVE Apart'
  <2>1. ASSUME NEW m \in Id, Evict(p, m) PROVE Apart'
    <3>1. CASE UNCHANGED <<file, quar>>
      BY <3>1, <1>q
    <3>2. CASE /\ InPlace(m)
               /\ \A k, j \in Id : k \in quar'[j] <=> k \in quar[j] \/ (j = Now(p) /\ k = m)
               /\ \A k \in Id : InPlace(k)' <=> InPlace(k) /\ k # m
      BY <3>2, <1>p DEF Apart
    <3> QED BY <2>1, <3>1, <3>2, PlaceEffect
  <2>2. CASE Refuse(p)
    BY <2>2, <1>e, <1>p, Closing
  <2>3. CASE Create(p)
    <3>1. \A m \in Id : InPlace(m)' => InPlace(m) \/ m = Now(p)
      BY <2>3, PlaceEffect
    <3>2. ~Quarantined(Now(p))
      BY <2>3, <1>p DEF Create, Virgin, Traceless, NotMade, Current, Early
    <3> QED BY <2>3, <3>1, <3>2, <1>p DEF Create, Apart, Quarantined
  <2>4. CASE Abort(p)
    BY <2>4, <1>e, <1>p, Closing
  <2>5. CASE Unlink(p)
    <3>1. \A m \in Id : InPlace(m)' => InPlace(m)
      BY <2>5, PlaceEffect
    <3> QED BY <2>5, <3>1, <1>p DEF Unlink, Apart
  <2>6. CASE Finalize(p)
    BY <2>6, <1>e, <1>p, Closing
  <2>7. CASE Settle(p)
    BY <2>7, <1>e, <1>p, Closing
  <2> QED BY <1>1, <2>1, <2>2, <2>3, <2>4, <2>5, <2>6, <2>7, <1>q DEF Step, Adopt, Prepare,
     Acquire, Register, Plan, Grant, Claim, Write, StoreRow, StoreAccepted, Ack, disk, base,
     proc, past
<1>2. ASSUME NEW i \in Id, Recover(i) PROVE Apart'
  BY <1>2, <1>e, Closing
<1>3. ASSUME NEW q \in Path, Expire(q) PROVE Apart'
  <2>1. \A m \in Id : InPlace(m)' => InPlace(m)
    BY <1>3, PlaceEffect
  <2> QED BY <1>3, <2>1, <1>p DEF Expire, Apart
<1>4. CASE Inspect \/ EndInspect \/ Crash \/ UNCHANGED vars
  BY <1>4, <1>q DEF Inspect, EndInspect, Crash, vars, disk, base, proc, past
<1> QED BY <1>1, <1>2, <1>3, <1>4 DEF Next

\* Every step leaves a journal with whole files that no row names.
LEMMA AsideStep == Base /\ Planned /\ Aside /\ [Next]_vars => Aside'
<1> SUFFICES ASSUME Base, Planned, Aside, [Next]_vars PROVE Aside'
  OBVIOUS
<1> USE DEF Base
<1>p. Aside /\ \A p \in Path : Now(p) \in Id /\ Now(p)[1] = p /\ Now(p) = <<p, tries[p]>>
  BY PlaceIsFile DEF Now
<1>e. ASSUME NEW j \in Id, Ended(j) PROVE Aside'
  <2>1. /\ \A m \in Id \ {j} : status'[m] = status[m]
        /\ \A m \in Id : Quarantined(m)' => Quarantined(m)
        /\ ~Quarantined(j) /\ UNCHANGED <<full, owned>>
    BY <1>e, <1>p, EndEffect DEF Ended, Aside
  <2>2. \A i \in Id : Quarantined(i)' => status'[i] = "none" /\ (i \in full' => i \in owned')
    BY <1>p, <2>1 DEF Aside
  <2>3. ASSUME NEW i \in Id, InPlace(i)', i \in full' \ owned' PROVE status'[i] # "none"
    <3>1. InPlace(i)
      BY <1>e, <1>p, <2>1, <2>3, EndEffect DEF Aside
    <3>2. status[i] # "none"
      BY <1>p, <2>1, <2>3, <3>1 DEF Aside
    <3>3. CASE i = j
      <4>1. Mine(j)
        BY <2>1, <2>3, <3>1, <3>3 DEF Mine, Stages, Deeds, InPlace
      <4>2. CASE FinishRollback(j)
        BY <1>e, <2>1, <2>3, <3>2, <3>3, <4>1, <4>2, RollbackEffect DEF Quarantined
      <4> QED BY <1>e, <2>1, <2>3, <3>2, <3>3, <4>2 DEF Ended, disk
    <3> QED BY <2>1, <3>2, <3>3
  <2> QED BY <2>2, <2>3 DEF Aside
<1>q. ASSUME UNCHANGED <<file, full, status, quar, owned>> PROVE Aside'
  BY <1>q, <1>p DEF Aside, Quarantined, InPlace, FileAt
<1>1. ASSUME NEW p \in Path, Step(p) PROVE Aside'
  <2>1. CASE Register(p)
    <3>1. ~Quarantined(Now(p)) /\ Now(p) \notin full
      BY <2>1, <1>p DEF Register, Virgin, Traceless, NotMade, Current, Early
    <3>2. \A i \in Id : status'[i] # status[i] => i = Now(p) /\ status'[i] = "pending"
      BY <2>1 DEF Register, TypeOK
    <3>3. \A i \in Id : (InPlace(i)' <=> InPlace(i)) /\ (Quarantined(i)' <=> Quarantined(i))
      BY <2>1 DEF Register, InPlace, FileAt, Quarantined
    <3> QED BY <2>1, <3>1, <3>2, <3>3, <1>p DEF Register, Aside, past
  <2>2. ASSUME NEW m \in Id, Evict(p, m) PROVE Aside'
    <3>1. CASE UNCHANGED <<file, quar>>
      BY <2>2, <3>1, <1>q DEF Evict, past
    <3>2. CASE /\ InPlace(m)
               /\ \A k, j \in Id : k \in quar'[j] <=> k \in quar[j] \/ (j = Now(p) /\ k = m)
               /\ \A k \in Id : InPlace(k)' <=> InPlace(k) /\ k # m
      <4>1. status[m] = "none"
        BY <2>2, <1>p DEF Evict, InPlan, Planned
      <4>2. \A k \in Id : Quarantined(k)' => Quarantined(k) \/ k = m
        BY <3>2 DEF Quarantined
      <4> QED BY <2>2, <3>2, <4>1, <4>2, <1>p DEF Evict, Aside, past
    <3> QED BY <2>2, <3>1, <3>2, PlaceEffect
  <2>3. CASE Refuse(p)
    BY <2>3, <1>e, <1>p, Closing
  <2>4. CASE Create(p)
    <3>1. \A m \in Id : InPlace(m)' => InPlace(m) \/ m = Now(p)
      BY <2>4, PlaceEffect
    <3>2. Now(p) \notin full
      BY <2>4, <1>p DEF Create, Virgin, Traceless, NotMade, Current, Early
    <3> QED BY <2>4, <3>1, <3>2, <1>p DEF Create, Aside, Quarantined, past
  <2>5. CASE Write(p)
    <3>1. status[Now(p)] = "pending"
      BY <2>5, <1>p DEF Write, Stages, Stage, Inside
    <3>2. full' \subseteq full \cup {Now(p)}
      BY <2>5 DEF Write
    <3>3. \A i \in Id : (InPlace(i)' <=> InPlace(i)) /\ (Quarantined(i)' <=> Quarantined(i))
      BY <2>5 DEF Write, InPlace, FileAt, Quarantined
    <3> QED BY <2>5, <3>1, <3>2, <3>3, <1>p DEF Write, Aside, past
  <2>6. CASE Abort(p)
    BY <2>6, <1>e, <1>p, Closing
  <2>7. CASE Unlink(p)
    <3>1. \A m \in Id : InPlace(m)' => InPlace(m)
      BY <2>7, PlaceEffect
    <3> QED BY <2>7, <3>1, <1>p DEF Unlink, Aside, Quarantined, past
  <2>8. CASE StoreRow(p)
    BY <2>8, <1>p DEF StoreRow, Own, Aside, disk, Quarantined, InPlace, FileAt
  <2>9. CASE StoreAccepted(p)
    BY <2>9, <1>p DEF StoreAccepted, Own, Aside, disk, Quarantined, InPlace, FileAt
  <2>10. CASE Finalize(p)
    BY <2>10, <1>e, <1>p, Closing
  <2>11. CASE Settle(p)
    BY <2>11, <1>e, <1>p, Closing
  <2> QED BY <1>1, <2>1, <2>2, <2>3, <2>4, <2>5, <2>6, <2>7, <2>8, <2>9, <2>10, <2>11, <1>q DEF
     Step, Adopt, Prepare, Acquire, Plan, Grant, Claim, Ack, disk, base, proc, past
<1>2. ASSUME NEW i \in Id, Recover(i) PROVE Aside'
  BY <1>2, <1>e, Closing
<1>3. ASSUME NEW q \in Path, Expire(q) PROVE Aside'
  <2>1. \A m \in Id : InPlace(m)' => InPlace(m)
    BY <1>3, PlaceEffect
  <2> QED BY <1>3, <2>1, <1>p DEF Expire, Aside, Quarantined
<1>4. CASE Inspect \/ EndInspect \/ Crash \/ UNCHANGED vars
  BY <1>4, <1>q DEF Inspect, EndInspect, Crash, vars, disk, base, proc, past
<1> QED BY <1>1, <1>2, <1>3, <1>4 DEF Next

\* Every step keeps the files rows name, and their journals decided.
LEMMA DecidedStep == Base /\ Decided /\ [Next]_vars => Decided'
<1> SUFFICES ASSUME Base, Decided, [Next]_vars PROVE Decided'
  OBVIOUS
<1> USE DEF Base
<1>p. /\ Decided /\ Named \subseteq Id
      /\ \A p \in Path : Now(p) \in Id /\ Now(p)[1] = p /\ Now(p) = <<p, tries[p]>> /\ Target(Now(p)) = p
  <2>1. ASSUME NEW p \in Path, media[p] # NoFile PROVE Here(p) \in Id
    BY <2>1 DEF Here, Id, TypeOK
  <2> QED BY <2>1, PlaceIsFile DEF Named, Now, TypeOK
<1>h. ASSUME owned' = owned, adopted' = adopted,
             \A x \in Path : pc'[x] = "owner" /\ media'[x] # NoFile => pc[x] = "owner" /\ media'[x] = media[x]
      PROVE  Named' \subseteq Named
  BY <1>h DEF Named, Here
<1>g. ASSUME Named' \subseteq Named, \A i \in Named : Kept(i) => Kept(i)', \A i \in Named : Undecided(i)' => Undecided(i)
      PROVE  Decided'
  BY <1>g, <1>p DEF Decided
<1>k. ASSUME Named' \subseteq Named, UNCHANGED <<file, quar, expired>>, \A i \in Named : Undecided(i)' => Undecided(i)
      PROVE  Decided'
  BY <1>g, <1>k DEF Kept, Quarantined, FileAt
<1>e. ASSUME NEW j \in Id, Ended(j), Named' \subseteq Named PROVE Decided'
  <2>1. \A i \in Named : Undecided(i)' => Undecided(i)
    <3>1. \A i \in Id : oracle'[i] = oracle[i] \/ (i = j /\ oracle'[i] = "none")
      BY <1>e DEF Ended, TypeOK
    <3>2. \A i \in Id \ {j} : status'[i] = status[i]
      BY <1>e, EndEffect
    <3>3. Undecided(j)' => Undecided(j)
      <4>1. CASE UNCHANGED <<disk, expired>>
        BY <1>e, <4>1 DEF Ended, Undecided, disk
      <4>2. CASE FinishCommit(j)
        BY <4>2, CommitEffect DEF Undecided
      <4> QED BY <1>e, <4>1, <4>2 DEF Ended
    <3> QED BY <1>p, <3>1, <3>2, <3>3 DEF Undecided
  <2>2. ASSUME NEW i \in Named, Kept(i) PROVE Kept(i)'
    <3>1. CASE UNCHANGED <<disk, expired>>
      BY <2>2, <3>1 DEF Kept, Quarantined, FileAt, disk
    <3>2. CASE FinishCommit(j)
      BY <1>p, <2>2, <3>2, CommitEffect DEF Kept, Quarantined, FileAt
    <3>3. CASE FinishRollback(j) /\ Undecided(j)
      <4>1. i # j /\ i \in Id
        BY <1>p, <3>3 DEF Decided
      <4>2. CASE UNCHANGED <<file, status, quar>>
        BY <2>2, <3>3, <4>2, RollbackEffect DEF Kept, Quarantined, FileAt
      <4>3. CASE ~UNCHANGED <<file, status, quar>>
        <5>1. PICK R \in SUBSET quar[j] :
                 /\ quar'[j] = quar[j] \ R
                 /\ \A m \in Id : InPlace(m)' <=> m \in R \/ (InPlace(m) /\ ~(Mine(j) /\ m = j))
          BY <3>3, <4>3, RollbackEffect
        <5>2. \A k \in Id : i \in quar[k] => i \in quar'[k] \/ i \in R
          BY <3>3, <5>1, RollbackEffect
        <5>3. expired' = expired
          BY <3>3, RollbackEffect
        <5> QED BY <2>2, <4>1, <5>1, <5>2, <5>3 DEF Kept, Quarantined, InPlace
      <4> QED BY <4>2, <4>3
    <3> QED BY <1>e, <3>1, <3>2, <3>3 DEF Ended
  <2> QED BY <1>e, <1>g, <2>1, <2>2
<1>q. ASSUME UNCHANGED <<file, status, quar, expired, oracle, owned, adopted, pc,
   media>> PROVE Decided'
  BY <1>q, <1>k, <1>h DEF Undecided
<1>1. ASSUME NEW p \in Path, Step(p) PROVE Decided'
  <2>1. CASE Adopt(p)
    <3>1. Named' \subseteq Named \cup ({FileAt(p)} \ adopted')
      BY <2>1, <1>p DEF Adopt, Named, Here, FileAt, Goto, TypeOK
    <3>2. FileAt(p) \in Id /\ InPlace(FileAt(p))
      BY <2>1, PlaceIsFile DEF Adopt, Full
    <3>3. \A i \in Id : (Kept(i)' <=> Kept(i)) /\ (Undecided(i)' <=> Undecided(i))
      BY <2>1 DEF Adopt, disk, base, Kept, Quarantined, Undecided, Target, FileAt
    <3>4. Kept(FileAt(p)) /\ (FileAt(p) \notin adopted' => ~Undecided(FileAt(p)))
      BY <2>1, <3>2 DEF Adopt, Kept, InPlace
    <3> QED BY <1>p, <3>1, <3>2, <3>3, <3>4 DEF Decided
  <2>2. CASE Prepare(p)
    <3>1. Named' \subseteq Named
      BY <2>2, <1>h DEF Prepare, Goto, TypeOK, past
    <3>2. \A i \in Id : Undecided(i)' => Undecided(i) \/ (i = <<p, tries[p] + 1>> /\ tries[p] + 1 \in Try)
      BY <2>2, BoundAssumption DEF Prepare, Undecided, TypeOK, disk, Try
    <3>3. <<p, tries[p] + 1>> \in Id => status[<<p, tries[p] + 1>>] = "none"
      BY <2>2 DEF Virgin, Traceless, Unused, Later, TypeOK, Try
    <3>4. \A i \in Id : Undecided(i)' => Undecided(i)
      BY <2>2, <3>2, <3>3 DEF Prepare, Undecided, disk
    <3> QED BY <2>2, <1>k, <1>p, <3>1, <3>4 DEF Prepare, disk, past
  <2>3. CASE Acquire(p)
    <3>1. Named' \subseteq Named
      BY <2>3, <1>h, <1>p DEF Acquire, Goto, TypeOK, past, Stages, Stage, Early
    <3>2. \A i \in Id : Undecided(i)' => Undecided(i) \/ i = Now(p)
      BY <2>3 DEF Acquire, Undecided, TypeOK, disk
    <3>3. status[Now(p)] = "none"
      BY <2>3, <1>p DEF Acquire, Virgin, Traceless, Unused, Current
    <3>4. \A i \in Id : Undecided(i)' => Undecided(i)
      BY <2>3, <3>2, <3>3 DEF Acquire, Undecided, disk
    <3> QED BY <2>3, <1>k, <1>p, <3>1, <3>4 DEF Acquire, disk, past
  <2>4. CASE Register(p)
    <3>1. Named' \subseteq Named
      BY <2>4, <1>h, <1>p DEF Register, Goto, TypeOK, past, Stages, Stage, Early
    <3>2. \A i \in Id : Undecided(i)' => Undecided(i) \/ (i = Now(p) /\ status'[i] = "pending")
      BY <2>4 DEF Register, Undecided, TypeOK
    <3>3. status[Now(p)] = "none" /\ Now(p) \notin owned
      BY <2>4, <1>p DEF Register, Virgin, Traceless, Unused, NotMade, Early, Current
    <3>4. Now(p) \notin Named
      BY <2>4, <1>p, <3>3 DEF Register, Named, Here, Now
    <3> QED BY <2>4, <1>k, <1>p, <3>1, <3>2, <3>4 DEF Register, past
  <2>5. ASSUME NEW m \in Id, Evict(p, m) PROVE Decided'
    <3>1. Named' \subseteq Named
      BY <2>5, <1>h DEF Evict, proc, past
    <3>2. ASSUME NEW i \in Id, Kept(i) PROVE Kept(i)'
      <4>1. CASE UNCHANGED <<file, quar>>
        BY <2>5, <3>2, <4>1 DEF Evict, Kept, Quarantined, past, FileAt, Target
      <4>2. CASE /\ \A k, j \in Id : k \in quar'[j] <=> k \in quar[j] \/ (j = Now(p) /\ k = m)
                 /\ \A k \in Id : InPlace(k)' <=> InPlace(k) /\ k # m
        <5>1. InPlace(i) => InPlace(i)' \/ Quarantined(i)'
          BY <4>2, <1>p DEF Quarantined
        <5>2. Quarantined(i) => Quarantined(i)'
          BY <4>2 DEF Quarantined
        <5> QED BY <2>5, <3>2, <5>1, <5>2 DEF Evict, Kept, InPlace, past
      <4> QED BY <2>5, <4>1, <4>2, PlaceEffect
    <3>3. \A i \in Id : Undecided(i)' => Undecided(i)
      BY <2>5 DEF Evict, Undecided, base
    <3> QED BY <1>g, <1>p, <3>1, <3>2, <3>3
  <2>18. ASSUME NEW q \in Path, Plan(p, q) PROVE Decided'
    <3>1. Named' \subseteq Named
      BY <2>18, <1>h DEF Plan, proc, past
    <3>2. \A i \in Id : (Kept(i) => Kept(i)') /\ (Undecided(i)' => Undecided(i))
      BY <2>18 DEF Plan, Kept, Quarantined, Undecided, base, past, FileAt, Target
    <3> QED BY <1>g, <1>p, <3>1, <3>2
  <2>6. CASE Grant(p)
    <3>1. Named' \subseteq Named
      BY <2>6, <1>h DEF Grant, Goto, TypeOK, past
    <3> QED BY <2>6, <1>k, <3>1 DEF Grant, Undecided, disk, base, past
  <2>7. CASE Refuse(p)
    <3>1. Named' \subseteq Named
      BY <2>7, <1>h, <1>p, Closing DEF Refuse, Ended, Goto, TypeOK, Stages, Stage, Early
    <3> QED BY <2>7, <1>e, <3>1, <1>p, Closing DEF Refuse, Ended
  <2>8. CASE Create(p)
    <3>1. Named' \subseteq Named
      BY <2>8, <1>h DEF Create, Goto, TypeOK, past
    <3>2. \A i \in Id : Kept(i) => Kept(i)'
      BY <2>8, PlaceEffect DEF Create, Kept, Quarantined, InPlace, past
    <3>3. \A i \in Id : Undecided(i)' => Undecided(i)
      BY <2>8 DEF Create, Undecided, base
    <3> QED BY <1>g, <1>p, <3>1, <3>2, <3>3
  <2>9. CASE Claim(p)
    <3>1. Named' \subseteq Named
      BY <2>9, <1>h DEF Claim, Goto, TypeOK, past
    <3> QED BY <2>9, <1>k, <3>1 DEF Claim, Undecided, disk, base, past
  <2>10. CASE Write(p)
    <3>1. Named' \subseteq Named
      BY <2>10, <1>h DEF Write, Goto, TypeOK, past
    <3> QED BY <2>10, <1>k, <3>1 DEF Write, Undecided, disk, base, past
  <2>11. CASE Abort(p)
    <3>1. Named' \subseteq Named
      BY <2>11, <1>h, <1>p, Closing DEF Abort, Ended, Goto, TypeOK, Stages, Stage, Early
    <3> QED BY <2>11, <1>e, <3>1, <1>p, Closing DEF Abort, Ended
  <2>12. CASE Unlink(p)
    <3>1. Named' \subseteq Named /\ Now(p) \notin Named
      BY <2>12, <1>h, <1>p DEF Unlink, Goto, TypeOK, past, Stages, Stage, Named, Here, Now
    <3>2. \A i \in Id \ {Now(p)} : Kept(i) => Kept(i)'
      BY <2>12, PlaceEffect DEF Unlink, Kept, Quarantined, InPlace, past
    <3>3. \A i \in Id : Undecided(i)' => Undecided(i)
      BY <2>12 DEF Unlink, Undecided, base
    <3> QED BY <1>g, <1>p, <3>1, <3>2, <3>3
  <2>13. CASE StoreRow(p)
    <3>1. Named' \subseteq Named
      BY <2>13, <1>p DEF StoreRow, Own, Named, Here, Goto, TypeOK
    <3> QED BY <2>13, <1>k, <3>1 DEF StoreRow, Undecided, disk
  <2>14. CASE StoreAccepted(p)
    <3>1. <<p, media[p]>> = Now(p)
      BY <2>14, <1>p, PlaceIsFile DEF StoreAccepted, Stages, Stage, TypeOK
    <3>2. CASE FileAt(p) = Now(p) /\ Own(p) /\ oracle' = [oracle EXCEPT ![Now(p)] = "accepted"]
      <4>1. Named' \subseteq Named \cup {Now(p)}
        BY <2>14, <3>1, <3>2, <1>p DEF StoreAccepted, Own, Named, Here, Goto, TypeOK
      <4>2. \A i \in Id : (Kept(i)' <=> Kept(i)) /\ (Undecided(i)' <=> Undecided(i) /\ i # Now(p))
        BY <2>14, <3>2, <1>p DEF StoreAccepted, disk, Kept, Quarantined, Undecided, Target, FileAt, TypeOK
      <4>3. Kept(Now(p))
        BY <3>2, <1>p, PlaceIsFile DEF Kept
      <4> QED BY <1>p, <4>1, <4>2, <4>3 DEF Decided
    <3>3. CASE UNCHANGED <<oracle, row, owned>>
      <4>1. Named' \subseteq Named
        BY <2>14, <1>h, <3>3 DEF StoreAccepted, Goto, TypeOK
      <4> QED BY <2>14, <1>k, <3>3, <4>1 DEF StoreAccepted, Undecided, disk
    <3> QED BY <2>14, <3>2, <3>3 DEF StoreAccepted
  <2>15. CASE Finalize(p)
    <3>1. Named' \subseteq Named
      BY <2>15, <1>h, <1>p, Closing DEF Finalize, Ended, Goto, TypeOK, Stages, Stage, Early
    <3> QED BY <2>15, <1>e, <3>1, <1>p, Closing DEF Finalize, Ended
  <2>16. CASE Settle(p)
    <3>1. Named' \subseteq Named
      BY <2>16, <1>h, <1>p, Closing DEF Settle, Ended, Goto, TypeOK, Stages, Stage, Early
    <3> QED BY <2>16, <1>e, <3>1, <1>p, Closing DEF Settle, Ended
  <2> QED BY <1>1, <2>1, <2>2, <2>3, <2>4, <2>5, <2>6, <2>7, <2>8, <2>9, <2>10, <2>11, <2>12,
     <2>13, <2>14, <2>15, <2>16, <2>18, <1>q DEF Step, Ack, disk, base, proc, past
<1>2. ASSUME NEW i \in Id, Recover(i) PROVE Decided'
  <2>1. Named' \subseteq Named
    BY <1>2, <1>h, Closing DEF Recover, Ended
  <2> QED BY <1>2, <1>e, <2>1, Closing
<1>3. ASSUME NEW q \in Path, Expire(q) PROVE Decided'
  <2>1. Named' \subseteq Named
    BY <1>3, <1>h DEF Expire, proc
  <2>2. \A i \in Id : Kept(i) => Kept(i)'
    BY <1>3, PlaceEffect DEF Expire, Kept, Quarantined, InPlace
  <2>3. \A i \in Id : Undecided(i)' => Undecided(i)
    BY <1>3 DEF Expire, Undecided, base
  <2> QED BY <1>g, <1>p, <2>1, <2>2, <2>3
<1>4. CASE Crash
  <2>1. Named' \subseteq Named
    BY <1>4, <1>h DEF Crash, past
  <2> QED BY <1>4, <1>k, <2>1 DEF Crash, Undecided, disk, base, past
<1>5. CASE Inspect \/ EndInspect \/ UNCHANGED vars
  BY <1>5, <1>q DEF Inspect, EndInspect, vars, disk, base, proc, past
<1> QED BY <1>1, <1>2, <1>3, <1>4, <1>5 DEF Next

\* An attempt that made its file, or failed to, had passed the quota before.
LEMMA PhaseStep ==
    ASSUME Base, [Next]_vars, NEW x \in Path, pc'[x] \in {"claim", "write", "abort", "unlink"}
    PROVE  tries'[x] = tries[x] /\ pc[x] \in {"create", "claim", "write", "abort", "unlink"}
<1> USE DEF Base
<1>g. ASSUME NEW p \in Path, NEW l, Goto(p, l) PROVE pc'[x] = IF x = p THEN l ELSE pc[x]
  BY <1>g DEF Goto, TypeOK
<1>1. ASSUME NEW p \in Path, Step(p)
      PROVE  tries'[x] = tries[x] /\ pc[x] \in {"create", "claim", "write", "abort", "unlink"}
  <2>1. CASE Prepare(p)
    BY <2>1, <1>g DEF Prepare, TypeOK
  <2>2. CASE Acquire(p) \/ Register(p) \/ Adopt(p) \/ Grant(p) \/ Refuse(p)
            \/ (\E q \in Path : Plan(p, q)) \/ (\E m \in Id : Evict(p, m))
    BY <2>2, <1>g DEF Acquire, Register, Adopt, Grant, Refuse, Plan, Evict, proc
  <2>3. CASE Create(p) \/ Claim(p) \/ Write(p) \/ Abort(p) \/ Unlink(p)
    BY <2>3, <1>g DEF Create, Claim, Write, Abort, Unlink
  <2>4. CASE StoreRow(p) \/ StoreAccepted(p) \/ Finalize(p) \/ Settle(p) \/ Ack(p)
    BY <2>4, <1>g DEF StoreRow, StoreAccepted, Finalize, Settle, Ack, proc
  <2> QED BY <1>1, <2>1, <2>2, <2>3, <2>4 DEF Step
<1>2. CASE (\E i \in Id : Recover(i)) \/ (\E q \in Path : Expire(q)) \/ Inspect \/ EndInspect
           \/ UNCHANGED vars
  BY <1>2 DEF Recover, Expire, Inspect, EndInspect, vars, proc
<1>3. CASE Crash
  BY <1>3 DEF Crash
<1> QED BY <1>1, <1>2, <1>3 DEF Next

\* What the end of a journal changes of the moves it planned.
LEMMA MovesEffect ==
    ASSUME TypeOK, NEW j \in Id, Ended(j)
    PROVE  /\ \A k \in Id \ {j} : moves'[k] = moves[k] /\ status'[k] = status[k] /\ quar'[k] = quar[k]
           /\ moves'[j] \subseteq moves[j]
           /\ status'[j] = "none" => moves'[j] = {}
<1>1. CASE UNCHANGED <<disk, expired>>
  BY <1>1 DEF Ended, disk
<1>2. CASE FinishCommit(j)
  BY <1>2 DEF FinishCommit, TypeOK
<1>3. CASE FinishRollback(j) /\ Undecided(j)
  <2>1. CASE UNCHANGED <<status, moves>>
    BY <1>3, <2>1, RollbackEffect DEF Undecided
  <2>2. CASE status' = [status EXCEPT ![j] = "none"] /\ moves' = [moves EXCEPT ![j] = {}]
    BY <1>3, <2>2, RollbackEffect DEF TypeOK
  <2> QED BY <1>3, <2>1, <2>2 DEF FinishRollback
<1> QED BY <1>1, <1>2, <1>3 DEF Ended

\* A call that changes the disk gives the reservation up.
LEMMA Releases ==
    ASSUME Base
    PROVE  /\ \A p \in Path : Refuse(p) \/ Abort(p) \/ Finalize(p) \/ Settle(p) =>
                UNCHANGED disk \/ Now(p) \notin resv'
           /\ \A i \in Id : Recover(i) => i \notin resv'
<1>1. ASSUME NEW p \in Path, Refuse(p) \/ Abort(p) \/ Finalize(p) \/ Settle(p)
      PROVE  UNCHANGED disk \/ Now(p) \notin resv'
  BY <1>1 DEF Refuse, Abort, Finalize, Settle, CloseFailed, CloseAccepted, OracleUnreadable
<1>2. ASSUME NEW i \in Id, Recover(i) PROVE i \notin resv'
  BY <1>2, Closing
<1> QED BY <1>1, <1>2

\* An attempt for which room is made stays so until its room is granted or it is
\* given up.
LEMMA RoomStays ==
    ASSUME Base, [Next]_vars, NEW i \in Id, i \in resv, i \in resv', MakesRoom(i)
    PROVE  MakesRoom(i)' \/ (moves[i] \subseteq quar[i] /\ UNCHANGED <<moves, quar>>)
<1> USE DEF Base
<1>i. i[1] \in Path /\ i = Now(i[1]) /\ lock = i[1] /\ lock # NoOne /\ lock # Janitor /\ queue = {}
  BY PlaceIsFile, PathAssumption DEF MakesRoom, Current, Clean
<1>k. ASSUME lock' = lock, whole' = whole, tries'[i[1]] = tries[i[1]], pc'[i[1]] = pc[i[1]]
      PROVE  MakesRoom(i)'
  BY <1>k, <1>i DEF MakesRoom, Current, Now
<1>g. ASSUME NEW p \in Path, NEW l, Goto(p, l), p # i[1] PROVE pc'[i[1]] = pc[i[1]]
  BY <1>g DEF Goto
<1>1. ASSUME NEW p \in Path, Step(p), p = i[1]
      PROVE  MakesRoom(i)' \/ (moves[i] \subseteq quar[i] /\ UNCHANGED <<moves, quar>>)
  <2>1. pc[p] = "evict" /\ i = Now(p)
    BY <1>1, <1>i DEF MakesRoom
  <2>2. CASE (\E q \in Path : Plan(p, q)) \/ (\E m \in Id : Evict(p, m)) \/ Ack(p)
    BY <1>k, <2>2 DEF Plan, Evict, Ack, proc
  <2>3. CASE Grant(p)
    BY <2>1, <2>3 DEF Grant, InPlan, disk
  <2>4. ~Refuse(p)
    BY <2>1 DEF Refuse
  <2> QED BY <1>1, <2>1, <2>2, <2>3, <2>4 DEF Step, Adopt, Prepare, Acquire, Register, Create,
       Claim, Write, Abort, Unlink, StoreRow, StoreAccepted, Finalize, Settle
<1>2. ASSUME NEW p \in Path, Step(p), p # i[1] PROVE MakesRoom(i)'
  <2>1. pc[p] \notin {"inventory", "evict"}
    BY <1>2, <1>i DEF Clean
  <2>2. CASE Adopt(p) \/ Create(p) \/ Claim(p) \/ Write(p) \/ Unlink(p)
    <3>1. UNCHANGED <<lock, whole, tries>>
      BY <2>2 DEF Adopt, Create, Claim, Write, Unlink
    <3>2. pc'[i[1]] = pc[i[1]]
      BY <1>2, <1>g, <2>2 DEF Adopt, Create, Claim, Write, Unlink
    <3> QED BY <1>k, <3>1, <3>2
  <2>6. CASE Prepare(p)
    <3>1. UNCHANGED <<lock, whole>> /\ pc'[i[1]] = pc[i[1]]
      BY <1>2, <1>g, <2>6 DEF Prepare
    <3>2. tries' = tries \/ tries' = [tries EXCEPT ![p] = tries[p] + 1]
      BY <2>6 DEF Prepare
    <3>3. tries'[i[1]] = tries[i[1]]
      BY <1>2, <3>2, <1>i DEF TypeOK
    <3> QED BY <1>k, <3>1, <3>3
  <2>3. CASE StoreRow(p) \/ StoreAccepted(p) \/ Ack(p)
    BY <1>2, <1>g, <1>k, <1>i, <2>3 DEF StoreRow, StoreAccepted, Ack, proc
  <2>4. ~(Acquire(p) \/ Abort(p) \/ Finalize(p) \/ Settle(p))
    BY <1>i DEF Acquire, Abort, Finalize, Settle
  <2>5. ~(Register(p) \/ Grant(p) \/ Refuse(p) \/ (\E q \in Path : Plan(p, q)) \/ (\E m \in Id : Evict(p, m)))
    BY <2>1 DEF Register, Grant, Refuse, Plan, Evict
  <2> QED BY <1>2, <2>2, <2>3, <2>4, <2>5, <2>6 DEF Step
<1>3. ~Crash
  BY DEF Crash
<1>4. ~((\E j \in Id : Recover(j)) \/ (\E q \in Path : Expire(q)) \/ Inspect \/ EndInspect)
  BY <1>i DEF Recover, Expire, Inspect, EndInspect
<1>5. CASE UNCHANGED vars
  BY <1>k, <1>5 DEF vars, proc
<1> QED BY <1>1, <1>2, <1>3, <1>4, <1>5 DEF Next

\* Nothing that may still have to be put back or given up is planned to be moved,
\* or deleted: the inventory in which it happens has settled every journal
\* without a writer.
LEMMA Removable ==
    ASSUME Base, NEW q \in Path, Expire(q) \/ (\E p \in Path : Plan(p, q))
    PROVE  /\ \A i \in Id : status[i] # "none" => i \in resv
           /\ \A i \in resv : MakesRoom(i) => \E p \in Path : Plan(p, q) /\ i = Now(p)
           /\ FileAt(q) \in Id /\ FileAt(q) \notin resv /\ InPlace(FileAt(q))
<1>1. q \in Evictable /\ FileAt(q) \in Id /\ FileAt(q)[1] = q
  BY PlaceIsFile DEF Base, Expire, Plan, Evictable, FileAt
<1>2. FileAt(q) \notin resv
  BY <1>1 DEF Evictable, Protected, Target
<1>3. lock # NoOne /\ whole /\ queue = {}
  BY PathAssumption DEF Base, Clean, Expire, Plan
<1>4. Stale = {}
  BY <1>3 DEF Base, Clean
<1>5. ASSUME NEW i \in resv, MakesRoom(i) PROVE \E p \in Path : Plan(p, q) /\ i = Now(p)
  <2>1. i[1] \in Path /\ i = Now(i[1]) /\ lock = i[1]
    BY <1>5, PlaceIsFile DEF MakesRoom, Current, Base, TypeOK
  <2>2. PICK p \in Path : Plan(p, q)
    BY <2>1, PathAssumption DEF Expire
  <2> QED BY <2>1, <2>2 DEF Plan
<1>6. InPlace(FileAt(q))
  BY <1>1 DEF InPlace, Target, FileAt
<1> QED BY <1>1, <1>2, <1>4, <1>5, <1>6 DEF Stale

\* A file that is moved was planned for, and it has no journal of its own.
LEMMA Movable ==
    ASSUME Base, Planned, NEW p \in Path, NEW m \in Id, Evict(p, m)
    PROVE  /\ Now(p) \in resv /\ MakesRoom(Now(p)) /\ status[m] = "none" /\ ~NotMade(m)
           /\ \A i \in Id : status[i] # "none" => i \in resv
           /\ \A i \in resv : MakesRoom(i) => i = Now(p)
<1>1. Now(p) \in Id /\ Now(p)[1] = p
  BY PlaceIsFile DEF Base, Now
<1>2. Now(p) \in resv /\ m \in moves[Now(p)] \ quar[Now(p)]
  BY DEF Base, Stages, Stage, Inside, Evict, InPlan
<1>3. MakesRoom(Now(p)) /\ status[m] = "none" /\ ~NotMade(m)
  BY <1>1, <1>2 DEF Planned
<1>4. Stale = {}
  BY <1>3, PathAssumption DEF MakesRoom, Base, Clean, Evict
<1>5. \A i \in resv : MakesRoom(i) => i = Now(p)
  BY <1>1, <1>3 DEF MakesRoom, Current
<1> QED BY <1>2, <1>3, <1>4, <1>5 DEF Stale

\* Every step keeps the planned moves and the journals in step.
LEMMA PlannedStep == Base /\ Planned /\ [Next]_vars => Planned'
<1> SUFFICES ASSUME Base, Planned, [Next]_vars PROVE Planned'
  OBVIOUS
<1> USE DEF Base
<1>p. Planned /\ \A p \in Path : Now(p) \in Id /\ Now(p)[1] = p /\ Now(p) = <<p, tries[p]>>
  BY PlaceIsFile DEF Now
<1>n. \A i \in Id : NotMade(i)' => NotMade(i)
  BY NotMadeShrinks
<1>f. ASSUME UNCHANGED full, NEW x \in Path, pc'[x] \in {"claim", "write", "abort", "unlink"}
      PROVE  Now(x)' \notin full'
  <2>1. tries'[x] = tries[x] /\ (pc[x] \in {"claim", "write", "abort", "unlink"} \/ pc[x] = "create")
    BY <1>f, PhaseStep
  <2>2. Now(x)' = Now(x)
    BY <2>1 DEF Now
  <2>3. pc[x] = "create" => Now(x) \notin full
    BY <1>p DEF Virgin, Traceless, NotMade, Current, Early
  <2> QED BY <1>f, <1>p, <2>1, <2>2, <2>3 DEF Planned
<1>m. ASSUME NEW i \in resv, i \in resv'
      PROVE  \/ moves[i] \subseteq quar[i]
             \/ MakesRoom(i)'
  <2>1. i \in Id
    BY DEF TypeOK
  <2> QED BY <1>m, <1>p, <2>1, RoomStays DEF Planned
<1>e. ASSUME NEW j \in Id, Ended(j), UNCHANGED disk \/ j \notin resv' PROVE Planned'
  <2>1. /\ \A k \in Id \ {j} : moves'[k] = moves[k] /\ status'[k] = status[k] /\ quar'[k] = quar[k]
        /\ moves'[j] \subseteq moves[j] /\ (status'[j] = "none" => moves'[j] = {})
    BY <1>e, MovesEffect
  <2>2. resv' \subseteq resv /\ resv \subseteq Id /\ UNCHANGED full /\ status[j] # "none"
    BY <1>e DEF Ended, TypeOK
  <2>3. \A i \in Id : status'[i] = "none" => moves'[i] = {}
    BY <1>p, <2>1 DEF Planned
  <2>4. ASSUME NEW i \in resv' PROVE moves'[i] \subseteq quar'[i] \/ MakesRoom(i)'
    <3>1. i \in resv /\ i \in Id /\ (moves[i] \subseteq quar[i] \/ MakesRoom(i)')
      BY <2>2, <2>4, <1>m
    <3>2. moves'[i] = moves[i] /\ quar'[i] = quar[i]
      BY <1>e, <2>1, <2>4, <3>1 DEF disk
    <3> QED BY <3>1, <3>2
  <2>5. ASSUME NEW i \in Id, NEW m \in moves'[i] PROVE status'[m] = "none" /\ ~NotMade(m)'
    <3>1. m \in moves[i] /\ m \in Id
      BY <2>1, <2>5 DEF TypeOK
    <3>2. m # j
      BY <1>p, <2>2, <3>1 DEF Planned
    <3> QED BY <1>n, <1>p, <2>1, <3>1, <3>2 DEF Planned
  <2> QED BY <1>f, <2>2, <2>3, <2>4, <2>5 DEF Planned
<1>q. ASSUME UNCHANGED <<status, moves, quar, full>>, resv' \subseteq resv PROVE Planned'
  <2>1. \A i \in Id : \A m \in moves'[i] : status'[m] = "none" /\ ~NotMade(m)'
    BY <1>n, <1>p, <1>q DEF Planned, TypeOK
  <2>2. \A i \in Id : status'[i] = "none" => moves'[i] = {}
    BY <1>p, <1>q DEF Planned
  <2>3. \A i \in resv' : moves'[i] \subseteq quar'[i] \/ MakesRoom(i)'
    BY <1>m, <1>q
  <2> QED BY <1>f, <1>q, <2>1, <2>2, <2>3 DEF Planned
<1>1. ASSUME NEW p \in Path, Step(p) PROVE Planned'
  <2>1. CASE Register(p)
    <3>1. UNCHANGED <<moves, quar, full>> /\ resv' \subseteq resv \cup {Now(p)}
          /\ \A i \in Id : status'[i] # status[i] => i = Now(p) /\ status'[i] # "none"
      BY <2>1 DEF Register, TypeOK
    <3>2. NotMade(Now(p)) /\ status[Now(p)] = "none"
      BY <2>1, <1>p DEF Register, Virgin, Traceless, NotMade, Unused, Current, Early
    <3>3. moves[Now(p)] = {}
      BY <1>p, <3>2 DEF Planned
    <3>4. \A i \in Id : \A m \in moves'[i] : status'[m] = "none" /\ ~NotMade(m)'
      BY <1>n, <1>p, <3>1, <3>2 DEF Planned, TypeOK
    <3>5. \A i \in Id : status'[i] = "none" => moves'[i] = {}
      BY <1>p, <3>1 DEF Planned
    <3>6. \A i \in resv' : moves'[i] \subseteq quar'[i] \/ MakesRoom(i)'
      BY <1>m, <3>1, <3>3
    <3> QED BY <1>f, <3>1, <3>4, <3>5, <3>6 DEF Planned
  <2>2. ASSUME NEW q \in Path, Plan(p, q) PROVE Planned'
    <3>1. PICK n \in Id, x \in Id : n = Now(p) /\ x = FileAt(q)
      BY <2>2, <1>p, Removable
    <3>2. moves' = [moves EXCEPT ![n] = moves[n] \cup {x}] /\ UNCHANGED <<status, full, resv, quar>>
      BY <2>2, <3>1 DEF Plan, proc
    <3>3. status[x] = "none" /\ ~NotMade(x)
      BY <2>2, <3>1, Removable DEF Virgin, Traceless
    <3>4. status[n] # "none"
      BY <2>2, <3>1 DEF Plan, Stages, Stage, Inside
    <3>5. \A i \in Id : status'[i] = "none" => moves'[i] = {}
      BY <1>p, <3>2, <3>4 DEF Planned, TypeOK
    <3>6. \A i \in resv' : moves'[i] \subseteq quar'[i] \/ MakesRoom(i)'
      <4>1. MakesRoom(n)'
        BY <2>2, <3>1, <1>p, PlaceIsFile DEF MakesRoom, Current, Now, Plan, proc
      <4>2. \A i \in resv : i # n => moves'[i] = moves[i]
        BY <3>2 DEF TypeOK
      <4> QED BY <1>m, <3>2, <4>1, <4>2
    <3>7. \A i \in Id : \A m \in moves'[i] : status'[m] = "none" /\ ~NotMade(m)'
      <4>1. \A i \in Id : \A m \in moves'[i] : m \in Id /\ (m = x \/ m \in moves[i])
        BY <3>2 DEF TypeOK
      <4> QED BY <1>n, <1>p, <3>2, <3>3, <4>1 DEF Planned
    <3> QED BY <1>f, <3>2, <3>5, <3>6, <3>7 DEF Planned
  <2>5. ASSUME NEW m \in Id, Evict(p, m) PROVE Planned'
    <3>1. /\ \A i \in Id : moves'[i] \subseteq moves[i] /\ quar[i] \subseteq quar'[i]
          /\ UNCHANGED <<status, full, resv>>
      <4>1. /\ moves' = moves \/ moves' = [moves EXCEPT ![Now(p)] = moves[Now(p)] \ {m}]
            /\ quar' = quar \/ quar' = [quar EXCEPT ![Now(p)] = quar[Now(p)] \cup {m}]
            /\ UNCHANGED <<status, full, resv>>
        BY <2>5 DEF Evict, proc
      <4>2. \A i \in Id : moves'[i] = moves[i] \/ moves'[i] = moves[i] \ {m}
        BY <4>1, <1>p DEF TypeOK
      <4>3. \A i \in Id : quar'[i] = quar[i] \/ quar'[i] = quar[i] \cup {m}
        BY <4>1, <1>p DEF TypeOK
      <4> QED BY <4>1, <4>2, <4>3
    <3>2. \A i \in Id : status'[i] = "none" => moves'[i] = {}
      BY <1>p, <3>1 DEF Planned
    <3>3. \A i \in resv' : moves'[i] \subseteq quar'[i] \/ MakesRoom(i)'
      <4>1. resv \subseteq Id
        BY DEF TypeOK
      <4> QED BY <1>m, <3>1, <4>1
    <3>4. \A i \in Id : \A k \in moves'[i] : status'[k] = "none" /\ ~NotMade(k)'
      BY <1>n, <1>p, <3>1 DEF Planned, TypeOK
    <3> QED BY <1>f, <3>1, <3>2, <3>3, <3>4 DEF Planned
  <2>3. CASE Write(p)
    <3>1. UNCHANGED <<status, moves, quar, resv>> /\ full' \subseteq full \cup {Now(p)}
          /\ tries' = tries /\ (pc'[p] # "abort" => pc'[p] = "pending") /\ (pc'[p] = "abort" => full' = full)
          /\ (\A x \in Path \ {p} : pc'[x] = pc[x])
      BY <2>3 DEF Write, Goto, TypeOK
    <3>2. \A x \in Path : pc'[x] \in {"claim", "write", "abort", "unlink"} => Now(x)' \notin full'
      <4>1. \A x \in Path : Now(x)' = Now(x) /\ (x # p => Now(x) # Now(p))
        BY <1>p, <3>1 DEF Now
      <4>2. pc[p] = "write"
        BY <2>3 DEF Write
      <4> QED BY <1>p, <3>1, <4>1, <4>2 DEF Planned
    <3>3. \A i \in Id : \A m \in moves'[i] : status'[m] = "none" /\ ~NotMade(m)'
      BY <1>n, <1>p, <3>1 DEF Planned, TypeOK
    <3>4. \A i \in resv' : moves'[i] \subseteq quar'[i] \/ MakesRoom(i)'
      BY <1>m, <3>1
    <3> QED BY <1>p, <3>1, <3>2, <3>3, <3>4 DEF Planned
  <2>4. CASE Refuse(p) \/ Abort(p) \/ Finalize(p) \/ Settle(p)
    BY <2>4, <1>e, <1>p, Closing, Releases
  <2> QED BY <1>1, <2>1, <2>2, <2>3, <2>4, <2>5, <1>q DEF Step, Adopt, Prepare, Acquire, Grant,
     Create, Claim, Unlink, StoreRow, StoreAccepted, Ack, disk, base, proc, past
<1>2. ASSUME NEW i \in Id, Recover(i) PROVE Planned'
  BY <1>2, <1>e, Closing, Releases
<1>3. ASSUME NEW q \in Path, Expire(q) PROVE Planned'
  BY <1>3, <1>q DEF Expire, proc
<1>4. CASE Inspect \/ EndInspect \/ Crash \/ UNCHANGED vars
  BY <1>4, <1>q DEF Inspect, EndInspect, Crash, vars, disk, base, proc, past
<1> QED BY <1>1, <1>2, <1>3, <1>4 DEF Next

\* Every step leaves recovery a decision for every journal.
LEMMA DecidableStep == Base /\ Planned /\ Decidable /\ [Next]_vars => Decidable'
<1> SUFFICES ASSUME Base, Planned, Decidable, [Next]_vars PROVE Decidable'
  OBVIOUS
<1> USE DEF Base
<1>p. Decidable /\ \A p \in Path : Now(p) \in Id /\ Now(p)[1] = p /\ Now(p) = <<p, tries[p]>>
  BY PlaceIsFile DEF Now
<1>t. \A i \in Id : moves[i] \subseteq Id
  BY DEF TypeOK
\* A step that leaves journals, moves and files alone, but for files nobody needs.
<1>q. ASSUME UNCHANGED <<status, moves, quar, full>>,
             \A i \in Id : oracle'[i] = "accepted" => oracle[i] = "accepted" \/ InPlace(i),
             \A i, m \in Id : status[i] = "pending" /\ m \in moves[i] /\ m \in full /\ m \notin quar[i]
                              /\ InPlace(m) => InPlace(m)',
             \A i \in Id : status[i] = "pending" /\ InPlace(i) /\ oracle'[i] = "accepted"
                           => InPlace(i)'
      PROVE  Decidable'
  BY <1>p, <1>q, <1>t DEF Decidable
<1>s. ASSUME UNCHANGED disk,
             \A i \in Id : oracle'[i] = "accepted" => oracle[i] = "accepted" \/ InPlace(i)
      PROVE  Decidable'
  <2>1. \A i \in Id : InPlace(i)' <=> InPlace(i)
    BY <1>s DEF disk, InPlace, FileAt
  <2> QED BY <1>q, <1>s, <2>1 DEF disk
<1>e. ASSUME NEW j \in Id, Ended(j) PROVE Decidable'
  <2>1. /\ \A k \in Id \ {j} : moves'[k] = moves[k] /\ status'[k] = status[k] /\ quar'[k] = quar[k]
        /\ moves'[j] \subseteq moves[j] /\ UNCHANGED full /\ status[j] # "none"
        /\ \A i \in Id : oracle'[i] = "accepted" => oracle[i] = "accepted"
    BY <1>e, MovesEffect DEF Ended, TypeOK
  <2>2. CASE UNCHANGED <<disk, expired>>
    BY <1>s, <2>1, <2>2
  <2>3. CASE FinishCommit(j)
    <3>1. \A i \in Id : (InPlace(i)' <=> InPlace(i)) /\ (status'[i] = "pending" => i # j)
      BY <2>3, CommitEffect DEF InPlace, FileAt
    <3> QED BY <1>p, <1>t, <2>1, <3>1 DEF Decidable
  <2>4. CASE FinishRollback(j) /\ Undecided(j)
    <3>1. CASE UNCHANGED <<file, status, quar>>
      <4>1. \A i \in Id : InPlace(i)' <=> InPlace(i)
        BY <3>1 DEF InPlace, FileAt
      <4> QED BY <1>p, <1>t, <2>1, <3>1, <4>1 DEF Decidable
    <3>2. CASE ~UNCHANGED <<file, status, quar>>
      <4>1. PICK R \in SUBSET quar[j] :
               /\ quar'[j] = quar[j] \ R
               /\ \A m \in Id : InPlace(m)' <=> m \in R \/ (InPlace(m) /\ ~(Mine(j) /\ m = j))
        BY <2>4, <3>2, RollbackEffect
      <4>2. \A i \in Id : InPlace(i) /\ i # j => InPlace(i)'
        BY <4>1
      <4>3. ASSUME NEW i \in Id, status'[i] = "pending", NEW m \in moves'[i] \cap full'
            PROVE  m \in quar'[i] \/ InPlace(m)'
        <5>1. m \in moves[i] /\ m \in Id /\ m \in full /\ status[i] = "pending"
          BY <1>t, <2>1, <2>4, <4>3, RollbackEffect DEF Undecided
        <5>2. m # j
          BY <2>1, <5>1 DEF Planned
        <5>3. m \in quar[i] \/ InPlace(m)
          BY <1>p, <5>1 DEF Decidable
        <5>4. m \in quar[i] => m \in quar'[i] \/ InPlace(m)'
          BY <2>1, <4>1, <5>1
        <5> QED BY <4>2, <5>1, <5>2, <5>3, <5>4
      <4>4. ASSUME NEW i \in Id, status'[i] = "pending", oracle'[i] = "accepted" PROVE InPlace(i)'
        <5>1. i # j /\ status[i] = "pending" /\ oracle[i] = "accepted"
          BY <2>1, <2>4, <4>4 DEF Undecided
        <5> QED BY <1>p, <4>2, <5>1 DEF Decidable
      <4> QED BY <4>3, <4>4 DEF Decidable
    <3> QED BY <3>1, <3>2
  <2> QED BY <1>e, <2>2, <2>3, <2>4 DEF Ended
\* Deleting evidence: no journal without a writer is left, and a writer's
\* target is protected.
<1>d. ASSUME NEW q \in Path, Expire(q) PROVE Decidable'
  <2>1. /\ \A i \in Id : status[i] # "none" => i \in resv /\ ~MakesRoom(i)
        /\ FileAt(q) \in Id /\ FileAt(q) \notin resv /\ UNCHANGED <<status, full, oracle, moves, quar>>
    <3>1. lock = Janitor /\ UNCHANGED <<status, full, oracle, moves, quar>>
      BY <1>d DEF Expire, base
    <3>2. ASSUME NEW i \in Id, MakesRoom(i) PROVE FALSE
      BY <3>1, <3>2, PlaceIsFile, PathAssumption DEF MakesRoom
    <3> QED BY <1>d, <3>1, <3>2, Removable
  <2>2. \A i \in Id : InPlace(i)' <=> InPlace(i) /\ i # FileAt(q)
    BY <1>d, PlaceEffect
  <2>3. ASSUME NEW i \in Id, status'[i] = "pending", NEW m \in moves'[i] PROVE m \in quar'[i]
    BY <1>d, <2>1, <2>3 DEF Planned
  <2>4. ASSUME NEW i \in Id, status'[i] = "pending", oracle'[i] = "accepted" PROVE InPlace(i)'
    BY <1>d, <1>p, <2>1, <2>2, <2>4 DEF Decidable
  <2> QED BY <2>3, <2>4 DEF Decidable
<1>1. ASSUME NEW p \in Path, Step(p) PROVE Decidable'
  <2>1. CASE Prepare(p)
    <3>1. \A i \in Id : oracle'[i] = "accepted" => oracle[i] = "accepted"
      BY <2>1 DEF Prepare, TypeOK
    <3> QED BY <2>1, <3>1, <1>s DEF Prepare
  <2>2. CASE Acquire(p)
    <3>1. \A i \in Id : oracle'[i] = "accepted" => oracle[i] = "accepted"
      BY <2>2 DEF Acquire, TypeOK
    <3> QED BY <2>2, <3>1, <1>s DEF Acquire
  <2>3. CASE Register(p)
    <3>1. UNCHANGED <<moves, quar, full>>
          /\ (\A i \in Id : status'[i] # status[i] => i = Now(p))
          /\ (\A i \in Id : oracle'[i] = "accepted" => oracle[i] = "accepted")
          /\ \A i \in Id : InPlace(i)' <=> InPlace(i)
      BY <2>3 DEF Register, TypeOK, InPlace, FileAt
    <3>2. oracle[Now(p)] # "accepted" /\ moves[Now(p)] = {}
      <4>1. oracle[Now(p)] # "accepted" /\ status[Now(p)] = "none"
        BY <2>3, <1>p DEF Register, Virgin, Traceless, NotMade, Unused, Current, Early
      <4> QED BY <1>p, <4>1 DEF Planned
    <3> QED BY <1>p, <1>t, <3>1, <3>2 DEF Decidable
  <2>4. ASSUME NEW m \in Id, Evict(p, m) PROVE Decidable'
    <3>1. UNCHANGED <<status, full, oracle>>
      BY <2>4 DEF Evict, base
    <3>2. CASE UNCHANGED <<file, quar>> /\ moves' = [moves EXCEPT ![Now(p)] = moves[Now(p)] \ {m}]
      <4>1. \A i \in Id : (InPlace(i)' <=> InPlace(i)) /\ moves'[i] \subseteq moves[i]
        BY <3>2, <1>p DEF InPlace, FileAt, TypeOK
      <4> QED BY <1>p, <1>t, <3>1, <3>2, <4>1 DEF Decidable
    <3>3. CASE /\ InPlace(m) /\ UNCHANGED moves
               /\ \A k, j \in Id : k \in quar'[j] <=> k \in quar[j] \/ (j = Now(p) /\ k = m)
               /\ \A k \in Id : InPlace(k)' <=> InPlace(k) /\ k # m
      <4>1. ASSUME NEW i \in Id, status'[i] = "pending", NEW k \in moves'[i] \cap full'
            PROVE  k \in quar'[i] \/ InPlace(k)'
        <5>1. k \in Id /\ k \in moves[i] \cap full /\ i \in resv /\ status[i] = "pending"
          BY <1>t, <2>4, <3>1, <3>3, <4>1, Movable
        <5>2. CASE i = Now(p)
          BY <1>p, <3>3, <5>1, <5>2 DEF Decidable
        <5>3. CASE i # Now(p)
          <6>1. k \in quar[i]
            BY <2>4, <5>1, <5>3, Movable DEF Planned
          <6> QED BY <3>3, <5>1, <6>1
        <5> QED BY <5>2, <5>3
      <4>2. ASSUME NEW i \in Id, status'[i] = "pending", oracle'[i] = "accepted" PROVE InPlace(i)'
        BY <1>p, <2>4, <3>1, <3>3, <4>2, Movable DEF Decidable
      <4> QED BY <4>1, <4>2 DEF Decidable
    <3> QED BY <2>4, <3>2, <3>3, PlaceEffect
  <2>11. ASSUME NEW q \in Path, Plan(p, q) PROVE Decidable'
    <3>1. UNCHANGED <<status, full, oracle, file, quar>>
          /\ moves' = [moves EXCEPT ![Now(p)] = moves[Now(p)] \cup {FileAt(q)}]
      BY <2>11 DEF Plan, base
    <3>2. FileAt(q) \in Id /\ InPlace(FileAt(q))
      BY <2>11, Removable
    <3>3. \A i \in Id : (InPlace(i)' <=> InPlace(i)) /\ \A k \in moves'[i] : k \in moves[i] \/ k = FileAt(q)
      BY <3>1, <1>p DEF InPlace, FileAt, TypeOK
    <3> QED BY <1>p, <1>t, <3>1, <3>2, <3>3 DEF Decidable
  <2>5. CASE Create(p)
    <3>1. \A i \in Id : InPlace(i) => InPlace(i)'
      BY <2>5, PlaceEffect
    <3> QED BY <2>5, <3>1, <1>q DEF Create, base
  <2>6. CASE Write(p)
    <3>1. UNCHANGED <<status, moves, quar, oracle>> /\ full' \subseteq full \cup {Now(p)}
          /\ \A i \in Id : InPlace(i)' <=> InPlace(i)
      BY <2>6 DEF Write, base, InPlace, FileAt
    <3>2. \A i \in Id : Now(p) \notin moves[i]
      <4>1. status[Now(p)] = "pending"
        BY <2>6 DEF Write, Stages, Stage, Inside
      <4> QED BY <4>1 DEF Planned
    <3> QED BY <1>p, <1>t, <3>1, <3>2 DEF Decidable
  <2>7. CASE Unlink(p)
    <3>1. PICK n \in Id : n = Now(p)
      BY <1>p
    <3>2. n \notin full /\ oracle[n] # "accepted"
      BY <2>7, <3>1 DEF Unlink, Planned, Stages, Stage
    <3>3. \A m \in Id : InPlace(m) /\ m # n => InPlace(m)'
      BY <2>7, <3>1, PlaceEffect
    <3> QED BY <2>7, <3>2, <3>3, <1>q DEF Unlink, base
  <2>8. CASE StoreAccepted(p)
    <3>1. \A i \in Id : oracle'[i] = "accepted" => oracle[i] = "accepted" \/ InPlace(i)
      <4>1. CASE oracle' = oracle
        BY <4>1
      <4>2. CASE oracle' = [oracle EXCEPT ![Now(p)] = "accepted"] /\ FileAt(p) = Now(p)
        <5>1. InPlace(Now(p))
          BY <1>p, <4>2 DEF InPlace, Target
        <5> QED BY <1>p, <4>2, <5>1 DEF TypeOK
      <4> QED BY <2>8, <4>1, <4>2 DEF StoreAccepted
    <3> QED BY <2>8, <3>1, <1>s DEF StoreAccepted
  <2>9. CASE Refuse(p) \/ Abort(p) \/ Finalize(p) \/ Settle(p)
    BY <2>9, <1>e, <1>p, Closing
  <2>10. CASE Claim(p)
    <3>1. \A i \in Id : InPlace(i)' <=> InPlace(i)
      BY <2>10 DEF Claim, InPlace, FileAt
    <3> QED BY <2>10, <3>1, <1>q DEF Claim, base
  <2> QED BY <1>1, <2>1, <2>2, <2>3, <2>4, <2>5, <2>6, <2>7, <2>8, <2>9, <2>10, <2>11, <1>s DEF Step,
     Adopt, Grant, StoreRow, Ack, base
<1>2. ASSUME NEW i \in Id, Recover(i) PROVE Decidable'
  BY <1>2, <1>e, Closing
<1>3. ASSUME NEW q \in Path, Expire(q) PROVE Decidable'
  <2>1. UNCHANGED <<status, full, oracle, moves, quar>>
    BY <1>3 DEF Expire, base
  <2> QED BY <1>3, <1>d, <2>1
<1>4. CASE Inspect \/ EndInspect \/ Crash \/ UNCHANGED vars
  BY <1>4, <1>s DEF Inspect, EndInspect, Crash, vars, base
<1> QED BY <1>1, <1>2, <1>3, <1>4 DEF Next

\* The initial store is consistent.
LEMMA InitInv == Init => MediaInv
<1> SUFFICES ASSUME Init PROVE MediaInv
  OBVIOUS
<1>1. TypeOK
  BY BoundAssumption, PathAssumption DEF Init, TypeOK, Steps, Try, NoFile, Id
<1>2. /\ \A i \in Id : i[1] \in Path /\ i[2] \in Int /\ i = <<i[1], i[2]>>
      /\ \A i \in Id : (InPlace(i) <=> i[1] \in Old /\ i[2] = 0) /\ ~Quarantined(i)
      /\ \A i \in owned \cup full : i \in Id /\ InPlace(i)
  <2>1. \A i \in Id : InPlace(i) <=> i[1] \in Old /\ i[2] = 0
    BY <1>1, PlaceIsFile, BoundAssumption DEF Init, NoFile, Try
  <2>2. \A i \in owned \cup full : i \in Id /\ i[1] \in Old /\ i[2] = 0
    BY <1>1 DEF Init, TypeOK
  <2> QED BY <1>1, <2>1, <2>2, PlaceIsFile DEF Init, Quarantined, Try
<1>3. Virgin
  <2> SUFFICES ASSUME NEW i \in Id PROVE Traceless(i)
    BY DEF Virgin
  <2>1. NotMade(i) => i[2] # 0
    BY <1>2 DEF Init, NotMade, Later, Current, Early
  <2>2. ~InPlace(i) => i \notin full \cup owned
    BY <1>2
  <2> QED BY <1>2, <2>1, <2>2 DEF Init, Traceless
<1>4. Stages
  BY DEF Init, Stages, Stage, Deeds, Inside, Early
<1>5. Clean
  BY PathAssumption DEF Init, Clean
<1>6. Apart /\ Aside
  BY <1>2 DEF Init, Apart, Aside, Quarantined
<1>7. Decided
  BY <1>2 DEF Init, Decided, Named, Undecided, Kept, InPlace
<1>8. Planned
  BY PlaceIsFile, <1>1 DEF Init, Planned
<1>9. Decidable
  BY DEF Init, Decidable
<1> QED BY <1>1, <1>3, <1>4, <1>5, <1>6, <1>7, <1>8, <1>9 DEF MediaInv, Base

\* The invariant holds in every reachable state.
LEMMA Invariant == Spec => []MediaInv
<1>1. MediaInv /\ [Next]_vars => MediaInv'
  BY TypeStep, VirginStep, StageStep, DeedsStep, CleanStep, ApartStep, AsideStep, DecidedStep,
     PlannedStep, DecidableStep
     DEF MediaInv, Base, Stages
<1> QED BY <1>1, InitInv, PTL DEF Spec

\* Every variable keeps its type, whatever fails and whenever the process stops.
THEOREM TypeCorrect == Spec => []TypeOK
BY Invariant, PTL DEF MediaInv, Base

\* However many writes, failures and crashes there are: a file that a row named
\* is in place, set aside, or was discarded on purpose.
THEOREM NamedEvidenceKept == Spec => []EvidenceKept
<1>1. MediaInv => EvidenceKept
  BY DEF MediaInv, Decided, Named, EvidenceKept
<1> QED BY <1>1, Invariant, PTL

\* A whole file that no row names is still covered by its journal.
THEOREM StrayEvidenceHasAJournal == Spec => []NoStrayEvidence
<1>1. MediaInv => NoStrayEvidence
  <2> SUFFICES ASSUME MediaInv, NEW p \in Path, Full(p), FileAt(p) \notin owned
               PROVE  status[FileAt(p)] # "none"
    BY DEF NoStrayEvidence
  <2>1. FileAt(p) \in Id /\ InPlace(FileAt(p))
    BY PlaceIsFile DEF Full, MediaInv, Base
  <2> QED BY <2>1 DEF Full, MediaInv, Aside
<1> QED BY <1>1, Invariant, PTL

\* A journal that recovery reads again can always be decided: what it planned to
\* move, if it is a whole image, is in its quarantine or at home, and a file its
\* owner accepted is in place.
THEOREM JournalsCanBeDecided == Spec => []RecoveryDecides
<1>1. MediaInv => RecoveryDecides
  <2> SUFFICES ASSUME MediaInv, NEW i \in Stale, status[i] = "pending"
               PROVE  /\ \A m \in moves[i] \cap full : m \in quar[i] \/ Present(Target(m))
                      /\ oracle[i] = "accepted" => FileAt(Target(i)) = i
    BY DEF RecoveryDecides
  <2>1. i \in Id /\ moves[i] \subseteq Id
    BY DEF MediaInv, Base, TypeOK, Stale
  <2>2. \A m \in Id : InPlace(m) => Present(Target(m))
    BY PlaceIsFile DEF MediaInv, Base, Target
  <2> QED BY <2>1, <2>2 DEF MediaInv, Decidable, InPlace
<1> QED BY <1>1, Invariant, PTL

\* Every step publishes a file, lets a row name one, takes back one that no row
\* names, discards some, or changes nothing that the abstract store sees.
LEMMA EvidenceNext == MediaInv /\ [Next]_vars => [Evidence!Next]_(Evidence!vars)
<1> SUFFICES ASSUME MediaInv, [Next]_vars PROVE [Evidence!Next]_(Evidence!vars)
  OBVIOUS
<1> USE DEF MediaInv, Base, Evidence!vars
<1>p. /\ \A p \in Path : Now(p) \in Id /\ Now(p)[1] = p /\ Now(p) = <<p, tries[p]>>
      /\ \A i \in Named : i \in Id
      /\ \A p \in Path : Full(p) => FileAt(p) \in Id
  <2>1. ASSUME NEW p \in Path, media[p] # NoFile PROVE Here(p) \in Id
    BY <2>1 DEF Here, Id, TypeOK
  <2> QED BY <2>1, PlaceIsFile DEF Named, Now, TypeOK, Full
<1>r. /\ \A i : i \in InStore <=> i \in Id /\ (InPlace(i) \/ Quarantined(i))
      /\ \A i : i \in InStore' <=> i \in Id /\ (InPlace(i)' \/ Quarantined(i)')
  BY DEF InStore, InPlace
<1>t. ASSUME UNCHANGED <<file, quar>> PROVE InStore' = InStore
  BY <1>t DEF InStore, Quarantined, FileAt
<1>s. ASSUME UNCHANGED <<file, quar, expired>>, (owned \ adopted)' = owned \ adopted
      PROVE  [Evidence!Next]_(Evidence!vars)
  BY <1>s, <1>t
<1>o. ASSUME NEW i \in Named, i \notin adopted, owned' = owned \cup {i}, adopted' = adopted,
             InStore' = InStore, expired' = expired
      PROVE  [Evidence!Next]_(Evidence!vars)
  <2>1. i \in InStore \cup expired
    BY <1>o, <1>p, <1>r DEF Decided, Kept, InPlace
  <2>2. Evidence!Own(i)
    BY <1>o, <2>1 DEF Evidence!Own
  <2> QED BY <1>o, <1>p, <2>2 DEF Evidence!Next
<1>e. ASSUME NEW j \in Id, Ended(j) PROVE [Evidence!Next]_(Evidence!vars)
  <2>1. CASE UNCHANGED <<disk, expired>>
    BY <1>e, <1>s, <2>1 DEF Ended, disk
  <2>2. CASE FinishCommit(j)
    <3> DEFINE S == quar[j] \ quar'[j]
    <3>1. S \subseteq Id /\ S \subseteq InStore
      BY <1>r DEF TypeOK, Quarantined
    <3>2. \A m \in S : ~InPlace(m)' /\ ~Quarantined(m)'
      BY <2>2, <3>1, CommitEffect DEF Apart, Quarantined, InPlace, FileAt
    <3>3. \A m \in Id \ S : (InPlace(m)' <=> InPlace(m)) /\ (Quarantined(m)' <=> Quarantined(m))
      BY <2>2, CommitEffect DEF Quarantined, InPlace, FileAt
    <3>4. InStore' = InStore \ S
      BY <1>r, <3>1, <3>2, <3>3
    <3>5. Evidence!Discard(S)
      BY <1>e, <2>2, <3>4, CommitEffect DEF Ended, Evidence!Discard
    <3> QED BY <3>1, <3>5 DEF Evidence!Next
  <2>3. CASE FinishRollback(j) /\ Undecided(j)
    <3>1. expired' = expired /\ owned' = owned /\ adopted' = adopted
      BY <1>e, <2>3, RollbackEffect DEF Ended
    <3>2. CASE UNCHANGED <<file, quar>>
      BY <1>s, <3>1, <3>2
    <3>3. CASE ~UNCHANGED <<file, quar>>
      <4>1. PICK R \in SUBSET quar[j] :
               /\ quar'[j] = quar[j] \ R
               /\ \A m \in Id : InPlace(m)' <=> m \in R \/ (InPlace(m) /\ ~(Mine(j) /\ m = j))
        BY <2>3, <3>3, RollbackEffect
      <4>2. \A m \in Id : m \in R => Quarantined(m)
        BY DEF Quarantined
      <4>3. \A m \in Id : Quarantined(m)' => Quarantined(m)
        BY <1>e, EndEffect
      <4>4. \A m \in Id : Quarantined(m) => Quarantined(m)' \/ m \in R
        BY <2>3, <4>1, RollbackEffect DEF Quarantined
      <4>5. \A m \in Id : (InPlace(m)' \/ Quarantined(m)')
                          <=> (InPlace(m) \/ Quarantined(m)) /\ ~(Mine(j) /\ m = j)
        <5>1. Mine(j) => InPlace(j) /\ ~Quarantined(j)
          BY DEF Mine, InPlace, Apart, Quarantined
        <5> QED BY <4>1, <4>2, <4>3, <4>4, <5>1
      <4>6. CASE Mine(j)
        <5>1. InStore' = InStore \ {j} /\ j \in InStore
          BY <1>r, <4>5, <4>6 DEF Mine, InPlace
        <5>2. j \notin owned \ adopted
          BY <2>3 DEF Decided, Named
        <5>3. Evidence!Withdraw(j)
          BY <3>1, <5>1, <5>2 DEF Evidence!Withdraw
        <5> QED BY <5>3 DEF Evidence!Next
      <4>7. CASE ~Mine(j)
        <5>1. InStore' = InStore
          BY <1>r, <4>5, <4>7
        <5> QED BY <3>1, <5>1
      <4> QED BY <4>6, <4>7
    <3> QED BY <3>2, <3>3
  <2> QED BY <1>e, <2>1, <2>2, <2>3 DEF Ended
<1>q. ASSUME UNCHANGED <<file, quar, expired, owned, adopted>> PROVE [Evidence!Next]_(Evidence!vars)
  BY <1>q, <1>s
<1>1. ASSUME NEW p \in Path, Step(p) PROVE [Evidence!Next]_(Evidence!vars)
  <2>1. CASE Adopt(p)
    <3>1. (owned \ adopted)' = owned \ adopted
      BY <2>1, <1>p DEF Adopt, MediaInv, Decided, Named
    <3> QED BY <2>1, <1>s, <3>1 DEF Adopt, disk
  <2>2. ASSUME NEW m \in Id, Evict(p, m) PROVE [Evidence!Next]_(Evidence!vars)
    <3>1. CASE UNCHANGED <<file, quar>>
      BY <2>2, <3>1, <1>q DEF Evict, past
    <3>2. CASE /\ InPlace(m)
               /\ \A k, j \in Id : k \in quar'[j] <=> k \in quar[j] \/ (j = Now(p) /\ k = m)
               /\ \A k \in Id : InPlace(k)' <=> InPlace(k) /\ k # m
      <4>1. \A k \in Id : Quarantined(k)' <=> Quarantined(k) \/ k = m
        BY <1>p, <3>2 DEF Quarantined
      <4>2. InStore' = InStore
        BY <1>r, <3>2, <4>1
      <4> QED BY <2>2, <4>2 DEF Evict, past
    <3> QED BY <2>2, <3>1, <3>2, PlaceEffect
  <2>3. CASE Refuse(p)
    BY <2>3, <1>e, <1>p, Closing
  <2>4. CASE Create(p)
    <3>1. PICK n \in Id : n = Now(p)
      BY <1>p
    <3>2. CASE file' = file
      BY <2>4, <1>s, <3>2 DEF Create, past
    <3>3. CASE file' # file
      <4>1. file' = [file EXCEPT ![p] = n[2]] /\ pc[p] = "create" /\ ~Present(p) /\ n = <<p, n[2]>> /\ n[2] \in Try
        BY <2>4, <1>p, <3>1, <3>3, PlaceIsFile DEF Create
      <4>2. ~InPlace(n) /\ ~Quarantined(n) /\ n \notin owned \cup expired
        BY <1>p, <3>1, <4>1 DEF Virgin, Traceless, NotMade, Current, Early
      <4>3. InPlace(n)'
        BY <4>1, OnePlace
      <4>4. \A m \in Id : Quarantined(m)' <=> Quarantined(m)
        BY <2>4 DEF Create, Quarantined
      <4>5. InStore' = InStore \cup {n} /\ n \notin InStore
        BY <2>4, <1>r, <3>1, <4>2, <4>3, <4>4, PlaceEffect
      <4>6. Evidence!Publish(n)
        BY <2>4, <4>2, <4>5 DEF Create, past, Evidence!Publish
      <4> QED BY <4>6 DEF Evidence!Next
    <3> QED BY <3>2, <3>3
  <2>5. CASE Abort(p)
    BY <2>5, <1>e, <1>p, Closing
  <2>6. CASE Unlink(p)
    <3>1. PICK n \in Id : n = Now(p)
      BY <1>p
    <3>2. \A m \in Id : /\ Quarantined(m)' <=> Quarantined(m)
                        /\ InPlace(m)' => InPlace(m)
                        /\ InPlace(m) /\ m # n => InPlace(m)'
      BY <2>6, <3>1, PlaceEffect DEF Unlink, Quarantined
    <3>3. CASE InPlace(n) <=> InPlace(n)'
      <4>1. InStore' = InStore
        BY <1>r, <3>2, <3>3
      <4> QED BY <2>6, <4>1 DEF Unlink, past
    <3>4. CASE ~(InPlace(n) <=> InPlace(n)')
      <4>1. InPlace(n) /\ ~InPlace(n)' /\ ~Quarantined(n) /\ n \notin owned
        BY <2>6, <3>1, <3>2, <3>4 DEF Unlink, Apart, Quarantined, Stages, Stage
      <4>2. InStore' = InStore \ {n} /\ n \in InStore
        BY <1>r, <3>2, <4>1
      <4>3. Evidence!Withdraw(n)
        BY <2>6, <4>1, <4>2 DEF Unlink, past, Evidence!Withdraw
      <4> QED BY <4>3 DEF Evidence!Next
    <3> QED BY <3>3, <3>4
  <2>7. CASE StoreRow(p)
    <3>1. InStore' = InStore /\ expired' = expired /\ adopted' = adopted
      BY <2>7, <1>t DEF StoreRow, disk
    <3>2. CASE media[p] # NoFile /\ Here(p) \notin adopted /\ owned' = owned \cup {Here(p)}
      <4>1. Here(p) \in Named
        BY <2>7, <3>2 DEF StoreRow, Named
      <4> QED BY <1>o, <3>1, <3>2, <4>1
    <3>3. CASE (owned \ adopted)' = owned \ adopted
      BY <3>1, <3>3
    <3>4. CASE ~(media[p] # NoFile /\ Here(p) \notin adopted)
      <4>1. (owned \ adopted)' = owned \ adopted
        BY <2>7, <3>1, <3>4 DEF StoreRow, Own, Here
      <4> QED BY <3>1, <4>1
    <3> QED BY <2>7, <3>2, <3>3, <3>4 DEF StoreRow, Own, Here
  <2>8. CASE StoreAccepted(p)
    <3>1. InStore' = InStore /\ expired' = expired /\ adopted' = adopted /\ <<p, media[p]>> = Now(p)
      BY <2>8, <1>t, <1>p, PlaceIsFile DEF StoreAccepted, disk, Stages, Stage, TypeOK
    <3>2. CASE FileAt(p) = Now(p) /\ owned' = owned \cup {Now(p)} /\ Now(p) \notin adopted
      <4>1. Now(p) \in Id /\ Now(p) \in InStore
        BY <1>p, <1>r, <3>2, PlaceIsFile DEF InPlace
      <4>2. Evidence!Own(Now(p))
        BY <3>1, <3>2, <4>1 DEF Evidence!Own
      <4> QED BY <4>1, <4>2 DEF Evidence!Next
    <3>3. CASE (owned \ adopted)' = owned \ adopted
      BY <3>1, <3>3
    <3>4. owned' = owned \/ (FileAt(p) = Now(p) /\ owned' = owned \cup {Now(p)})
          \/ (FileAt(p) = Now(p) /\ media[p] = NoFile)
      BY <2>8, <3>1 DEF StoreAccepted, Own
    <3>5. media[p] # NoFile
      BY <2>8, PlaceIsFile DEF StoreAccepted, Stages, Stage, TypeOK
    <3> QED BY <3>1, <3>2, <3>3, <3>4, <3>5
  <2>9. CASE Finalize(p)
    BY <2>9, <1>e, <1>p, Closing
  <2>10. CASE Settle(p)
    BY <2>10, <1>e, <1>p, Closing
  <2> QED BY <1>1, <2>1, <2>2, <2>3, <2>4, <2>5, <2>6, <2>7, <2>8, <2>9, <2>10, <1>q DEF Step, Plan,
     Prepare, Acquire, Register, Grant, Claim, Write, Ack, disk, base, proc, past
<1>2. ASSUME NEW i \in Id, Recover(i) PROVE [Evidence!Next]_(Evidence!vars)
  BY <1>2, <1>e, Closing
<1>3. ASSUME NEW q \in Path, Expire(q) PROVE [Evidence!Next]_(Evidence!vars)
  <2>1. FileAt(q) \in Id /\ InPlace(FileAt(q)) /\ ~Quarantined(FileAt(q))
    BY <1>3, <1>p, PlaceEffect DEF MediaInv, Apart, Quarantined
  <2>2. InStore' = InStore \ {FileAt(q)} /\ FileAt(q) \in InStore
    <3>1. \A k \in Id : InPlace(k)' <=> InPlace(k) /\ k # FileAt(q)
      BY <1>3, <1>p, PlaceEffect DEF MediaInv, Base
    <3>2. \A k \in Id : Quarantined(k)' <=> Quarantined(k)
      BY <1>3 DEF Expire, Quarantined
    <3> QED BY <1>r, <2>1, <3>1, <3>2
  <2>3. Evidence!Discard({FileAt(q)})
    BY <1>3, <2>2 DEF Expire, Evidence!Discard
  <2> QED BY <2>2, <2>3 DEF Evidence!Next
<1>4. CASE Inspect \/ EndInspect \/ Crash \/ UNCHANGED vars
  BY <1>4, <1>q DEF Inspect, EndInspect, Crash, vars, disk, base, proc, past
<1> QED BY <1>1, <1>2, <1>3, <1>4 DEF Next

\* The store implements MediaEvidence: evidence is only ever published, named,
\* withdrawn while nobody names it, or discarded.
THEOREM ImplementsEvidence == Spec => EvidenceSpec
<1>1. Init => Evidence!Init
  <2> SUFFICES ASSUME Init PROVE Evidence!Init
    OBVIOUS
  <2>1. TypeOK /\ owned \subseteq Id
    BY InitInv DEF MediaInv, Base, TypeOK
  <2>2. \A i \in Id : i \in InStore <=> i \in owned
    BY <2>1, PlaceIsFile, BoundAssumption, SMTT(30) DEF Init, InStore, InPlace, Quarantined, Try, NoFile
  <2>3. InStore = owned /\ InStore \subseteq Id
    BY <2>1, <2>2 DEF InStore
  <2> QED BY <2>3 DEF Init, Evidence!Init
<1> QED BY <1>1, Invariant, EvidenceNext, PTL DEF Spec, EvidenceSpec, Evidence!Spec
=============================================================================
