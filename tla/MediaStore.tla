----------------------------- MODULE MediaStore -----------------------------
(***************************************************************************)
(* Evidence files and the rows that name them.  A retried event writes its  *)
(* image under a quota reservation (src/app/storage_policy.py), the owner   *)
(* row and the acceptance of the exact file are one SQLite transaction      *)
(* (src/app/media_acceptance.py, _persist in src/app/ai/live_worker.py),    *)
(* and the reservation is closed afterwards (src/app/media_storage.py).     *)
(* Room is made by moving old evidence into the reservation's quarantine,   *)
(* so that a failed write can put it back.                                  *)
(*                                                                         *)
(* A path is the image path of one event: the target of a retry is derived  *)
(* from its persistence id.  An attempt <<p, k>> is the k-th write to p; it *)
(* names the acceptance intent, the reservation, its journal directory and  *)
(* the inode it creates.  Attempt <<p, 0>> made the evidence that was there *)
(* before.  The calls of storage_policy hold _LOCK: an operation of one     *)
(* durable effect is one action, a longer one keeps lock between its steps, *)
(* and a crash may fall between any two.                                    *)
(***************************************************************************)
EXTENDS Integers, FiniteSets, FiniteSetsExt

CONSTANTS Path,       \* evidence paths
          Old,        \* paths of evidence stored earlier, its event settled
          Bytes,      \* [Path -> size of the evidence]
          Limit,      \* storage_limit_gb, action delete_oldest
          NoOne,      \* _LOCK is free
          Janitor,    \* _LOCK is held by retention or the startup pass
          MaxTry,     \* bound: writes to one path
          MaxFaults,  \* bound: failing file-system and SQLite calls
          MaxCrashes  \* bound: process crashes

ASSUME PathAssumption == Old \subseteq Path /\ NoOne \notin Path
                         /\ Janitor \notin Path /\ NoOne # Janitor
ASSUME BoundAssumption == MaxTry \in Nat /\ MaxFaults \in Nat /\ MaxCrashes \in Nat
ASSUME QuotaAssumption == Bytes \in [Path -> Nat] /\ Limit \in Nat

Try    == 0 .. MaxTry
NoFile == -1
Id     == Path \X Try

VARIABLES
    file,     \* path -> the attempt that created the file there    (durable)
    full,     \* attempts whose payload was written                 (durable)
    status,   \* journal of an attempt's reservation                (durable)
    existed,  \* journals with target_existed                       (durable)
    claimed,  \* journals that own their inode                      (durable)
    moves,    \* journal -> evidence it planned to move             (durable)
    quar,     \* journal -> evidence in its quarantine              (durable)
    oracle,   \* media_acceptance_intents                           (durable)
    row,      \* plate_events: the file an event's row names        (durable)
    todo,     \* events still in the retry outbox                   (durable)
    resv,     \* _RESERVATIONS
    tries,    \* the last attempt for a path
    pc, media,    \* where the event's thread is; the file it will name
    lock, queue, whole,  \* _LOCK, journals an inventory must still recover,
                         \* and _Inventory.complete
    up,       \* startup maintenance has ended, workers run
    owned, expired, adopted,  \* history: attempts some row named; evidence
        \* the quota or retention discarded; files named while undecided
    faults, crashes

disk  == <<file, full, status, existed, claimed, moves, quar>>
base  == <<oracle, row, todo>>
proc  == <<resv, tries, pc, media, lock, queue, whole, up>>
past  == <<owned, expired, adopted>>
vars  == <<disk, base, proc, past, faults, crashes>>

Now(p)     == <<p, tries[p]>>
Present(p) == file[p] # NoFile
FileAt(p)  == <<p, file[p]>>
Full(p)    == Present(p) /\ FileAt(p) \in full
Target(i)  == i[1]

Stale      == {i \in Id : status[i] # "none" /\ i \notin resv}
Protected  == {Target(i) : i \in resv}
\* Mutant: recovery does not ask the acceptance oracle.
UndecidedByJournal(i) == status[i] = "pending"

Undecided(i) == status[i] = "pending" /\ oracle[i] # "accepted"

\* managed_bytes leaves out what a live reservation owns: it is reserved.
Measured(p) == IF Full(p) /\ FileAt(p) \notin resv \cap claimed
                 THEN Bytes[p] ELSE 0
Delta(i)    == IF i \in existed /\ Full(Target(i)) THEN 0 ELSE Bytes[Target(i)]
Prospective == MapThenSumSet(Measured, Path) + MapThenSumSet(Delta, resv)

Fault     == faults < MaxFaults /\ faults' = faults + 1
NoFault   == UNCHANGED faults
Goto(p, l) == pc' = [pc EXCEPT ![p] = l]
Unlock    == lock' = NoOne /\ UNCHANGED <<queue, whole, up>>

Init ==
    /\ file    = [p \in Path |-> IF p \in Old THEN 0 ELSE NoFile]
    /\ full    = {<<p, 0>> : p \in Old}
    /\ status  = [i \in Id |-> "none"]
    /\ existed = {} /\ claimed = {}
    /\ moves   = [i \in Id |-> {}] /\ quar = [i \in Id |-> {}]
    /\ oracle  = [i \in Id |-> "none"]
    /\ row     = [p \in Path |-> IF p \in Old THEN 0 ELSE NoFile]
    /\ todo    = Path \ Old
    /\ resv    = {} /\ tries = [p \in Path |-> 0]
    /\ pc      = [p \in Path |-> "idle"] /\ media = [p \in Path |-> NoFile]
    /\ lock    = NoOne /\ queue = {} /\ whole = TRUE /\ up = TRUE
    /\ owned   = {<<p, 0>> : p \in Old} /\ expired = {} /\ adopted = {}
    /\ faults  = 0 /\ crashes = 0

-----------------------------------------------------------------------------
(* _finish_quarantine_locked: the two ways a journal ends.                  *)

\* The marker is durable: the moved evidence is unlinked, the directory goes.
\* What cannot be removed stays for the next inventory.
FinishCommit(i) ==
    /\ \/ /\ NoFault
          /\ status'  = [status EXCEPT ![i] = "none"]
          /\ quar'    = [quar EXCEPT ![i] = {}]
          /\ moves'   = [moves EXCEPT ![i] = {}]
          /\ expired' = expired \cup quar[i]
       \/ /\ Fault
          /\ status'  = [status EXCEPT ![i] = "committed"]
          /\ \E gone \in SUBSET quar[i] :
                /\ quar'    = [quar EXCEPT ![i] = @ \ gone]
                /\ expired' = expired \cup gone
          /\ UNCHANGED moves
    /\ UNCHANGED <<file, full, existed, claimed>>

\* Mutant: the rollback forgets the target it owns.
ClearedNothing(i) == file

\* The target goes first, but only the inode this journal owns.
Mine(i)      == i \notin existed /\ i \in claimed /\ FileAt(Target(i)) = i
Cleared(i)   == IF Mine(i) THEN [file EXCEPT ![Target(i)] = NoFile] ELSE file
\* Evidence returns only to a free path; of two files of one path, one does.
Homes(i)     == {m \in quar[i] : Cleared(i)[Target(m)] = NoFile}
Returning(i) == {R \in SUBSET Homes(i) :
                    \A m, n \in R : Target(m) = Target(n) => m = n}
Restored(i, R) ==
    [p \in Path |-> IF \E m \in R : Target(m) = p
                      THEN (CHOOSE m \in R : Target(m) = p)[2]
                      ELSE Cleared(i)[p]]

FinishRollback(i) ==
    /\ \/ Fault /\ Mine(i) /\ UNCHANGED <<file, status, moves, quar>>
       \/ \E R \in Returning(i) :
            /\ file' = Restored(i, R)
            /\ quar' = [quar EXCEPT ![i] = @ \ R]
            /\ \/ /\ NoFault
                  /\ \A m \in Homes(i) : \E n \in R : Target(m) = Target(n)
                  /\ IF R = quar[i]
                       THEN /\ status' = [status EXCEPT ![i] = "none"]
                            /\ moves'  = [moves EXCEPT ![i] = {}]
                       ELSE UNCHANGED <<status, moves>>
               \/ Fault /\ UNCHANGED <<status, moves>>
    /\ UNCHANGED <<full, existed, claimed, expired>>

(* MediaWriteReservation.close.                                             *)

\* The acceptance intent cannot be read: close raises before it consumes the
\* reservation, which stays registered.
OracleUnreadable == /\ Fault
                    /\ UNCHANGED <<disk, oracle, resv, expired>>

\* An accepted file is kept whatever the caller asked for.  If the marker
\* fails, the reservation is consumed and recovery owns the pending journal.
CloseAccepted(i) ==
    \/ /\ FileAt(Target(i)) = i
       /\ resv' = resv \ {i}
       /\ \/ /\ FinishCommit(i)
             /\ oracle' = [oracle EXCEPT ![i] = "none"]
          \/ Fault /\ UNCHANGED <<disk, oracle, expired>>
    \/ /\ FileAt(Target(i)) # i
       /\ NoFault /\ UNCHANGED <<disk, oracle, resv, expired>>

CloseFailed(i) ==
    /\ FinishRollback(i)
    /\ resv' = resv \ {i}
    /\ oracle' = IF status'[i] = "none" THEN [oracle EXCEPT ![i] = "none"]
                                        ELSE oracle

-----------------------------------------------------------------------------
(* One retry of one event: _persist, save_event_images and                  *)
(* write_jpeg_bytes_atomic with defer_commit.                               *)

\* A verified file at the deterministic target is taken as it is.
Adopt(p) ==
    /\ up /\ p \in todo /\ pc[p] = "idle"
    /\ Full(p)
    /\ media' = [media EXCEPT ![p] = file[p]]
    /\ Goto(p, "owner")
    /\ adopted' = IF Undecided(FileAt(p)) THEN adopted \cup {FileAt(p)} ELSE adopted
    /\ UNCHANGED <<disk, base, resv, tries, lock, queue, whole, up, owned,
                   expired, faults, crashes>>

\* create_intent; when SQLite fails the event is stored without an image.
Prepare(p) ==
    /\ up /\ p \in todo /\ pc[p] = "idle"
    /\ ~Full(p)
    /\ tries[p] < MaxTry
    /\ media' = [media EXCEPT ![p] = NoFile]
    /\ \/ /\ NoFault /\ Goto(p, "begin")
          /\ tries'  = [tries EXCEPT ![p] = @ + 1]
          /\ oracle' = [oracle EXCEPT ![<<p, tries[p] + 1>>] = "pending"]
       \/ Fault /\ Goto(p, "owner") /\ UNCHANGED <<tries, oracle>>
    /\ UNCHANGED <<disk, row, todo, resv, lock, queue, whole, up, past, crashes>>

\* begin_media_write: conflicting reservation, or the start of the inventory.
Acquire(p) ==
    /\ pc[p] = "begin" /\ lock = NoOne
    /\ IF p \in Protected
         THEN /\ Goto(p, "owner")
              /\ oracle' = [oracle EXCEPT ![Now(p)] = "none"]
              /\ UNCHANGED <<lock, queue, whole>>
         ELSE /\ Goto(p, "inventory")
              /\ lock' = p /\ queue' = Stale /\ whole' = TRUE
              /\ UNCHANGED oracle
    /\ UNCHANGED <<disk, row, todo, resv, tries, media, up, past, faults, crashes>>

\* The eager journal: registered first, then published.
Register(p) ==
    /\ pc[p] = "inventory" /\ lock = p /\ queue = {}
    /\ \/ /\ NoFault /\ Goto(p, "evict")
          /\ resv'    = resv \cup {Now(p)}
          /\ status'  = [status EXCEPT ![Now(p)] = "pending"]
          /\ existed' = IF Present(p) THEN existed \cup {Now(p)} ELSE existed
          /\ UNCHANGED <<oracle, lock, queue, whole, up>>
       \/ /\ Fault /\ Goto(p, "owner") /\ Unlock
          /\ oracle' = [oracle EXCEPT ![Now(p)] = "none"]
          /\ UNCHANGED <<resv, status, existed>>
    /\ UNCHANGED <<file, full, claimed, moves, quar, row, todo, tries, media,
                   past, crashes>>

Evictable == {q \in Path : Present(q) /\ q \notin Protected}

\* The move the journal of p plans and has not made yet.
InPlan(p) == moves[Now(p)] \ quar[Now(p)]

\* _quarantine_record_locked: the plan is published in the journal first ...
\* Which file is the oldest is left open.
Plan(p, q) ==
    /\ pc[p] = "evict" /\ lock = p /\ InPlan(p) = {}
    /\ whole /\ Prospective > Limit
    /\ q \in Evictable
    /\ moves' = [moves EXCEPT ![Now(p)] = @ \cup {FileAt(q)}]
    /\ UNCHANGED <<file, full, status, existed, claimed, quar, base, proc, past,
                   faults, crashes>>

\* ... then the file is renamed; if it cannot be, or its own writer unlinked it
\* meanwhile, the plan is withdrawn.
Evict(p, m) ==
    /\ pc[p] = "evict" /\ lock = p
    /\ m \in InPlan(p)
    /\ \/ /\ NoFault /\ FileAt(Target(m)) = m
          /\ quar' = [quar EXCEPT ![Now(p)] = @ \cup {m}]
          /\ file' = [file EXCEPT ![Target(m)] = NoFile]
          /\ UNCHANGED moves
       \/ /\ IF Present(Target(m)) THEN Fault ELSE NoFault
          /\ moves' = [moves EXCEPT ![Now(p)] = @ \ {m}]
          /\ UNCHANGED <<quar, file>>
    /\ UNCHANGED <<full, status, existed, claimed, base, proc, past, crashes>>

Grant(p) ==
    /\ pc[p] = "evict" /\ lock = p /\ InPlan(p) = {}
    /\ whole /\ Prospective <= Limit
    /\ Goto(p, "create") /\ Unlock
    /\ UNCHANGED <<disk, base, resv, tries, media, past, faults, crashes>>

\* StorageWriteRejected: no file is left that is safe to move.  Or a write of the
\* journal raises, before or after it took the plan.  Roll back, forget the
\* reservation and the intent.
Refuse(p) ==
    /\ pc[p] = "evict" /\ lock = p
    /\ ~whole \/ Prospective > Limit \/ InPlan(p) # {}
    /\ FinishRollback(Now(p))
    /\ resv' = resv \ {Now(p)}
    /\ oracle' = [oracle EXCEPT ![Now(p)] = "none"]
    /\ Goto(p, "owner") /\ Unlock
    /\ UNCHANGED <<row, todo, tries, media, owned, adopted, crashes>>

\* open("xb"): never over an existing file.
Create(p) ==
    /\ pc[p] = "create"
    /\ IF Present(p)
         THEN Goto(p, "abort") /\ NoFault /\ UNCHANGED file
         ELSE \/ /\ NoFault /\ Goto(p, "claim")
                 /\ file' = [file EXCEPT ![p] = tries[p]]
              \/ Fault /\ Goto(p, "abort") /\ UNCHANGED file
    /\ UNCHANGED <<full, status, existed, claimed, moves, quar, base, resv,
                   tries, media, lock, queue, whole, up, past, crashes>>

\* claim_created_path; a journal that cannot be written disowns the inode.
Claim(p) ==
    /\ pc[p] = "claim" /\ lock = NoOne
    /\ \/ /\ Now(p) \notin existed
          /\ NoFault /\ Goto(p, "write")
          /\ claimed' = claimed \cup {Now(p)}
       \/ /\ IF Now(p) \in existed THEN NoFault ELSE Fault
          /\ Goto(p, "abort") /\ UNCHANGED claimed
    /\ UNCHANGED <<file, full, status, existed, moves, quar, base, resv,
                   tries, media, lock, queue, whole, up, past, crashes>>

Write(p) ==
    /\ pc[p] = "write"
    /\ \/ /\ NoFault /\ Goto(p, "pending")
          /\ full'  = full \cup {Now(p)}
          /\ media' = [media EXCEPT ![p] = tries[p]]
       \/ Fault /\ Goto(p, "abort") /\ UNCHANGED <<full, media>>
    /\ UNCHANGED <<file, status, existed, claimed, moves, quar, base, resv,
                   tries, lock, queue, whole, up, past, crashes>>

\* The handler of write_jpeg_bytes_atomic closes the reservation ...
Abort(p) ==
    /\ pc[p] = "abort" /\ lock = NoOne
    /\ CloseFailed(Now(p)) \/ OracleUnreadable
    /\ Goto(p, "unlink")
    /\ UNCHANGED <<row, todo, tries, media, lock, queue, whole, up, owned,
                   adopted, crashes>>

\* Mutant: the handler unlinks the path, whoever created the file.
UnlinkAnyFile(p) ==
    /\ pc[p] = "unlink"
    /\ Goto(p, "owner")
    /\ file' = [file EXCEPT ![p] = NoFile]
    /\ UNCHANGED <<full, status, existed, claimed, moves, quar, base, resv,
                   tries, media, lock, queue, whole, up, past, faults, crashes>>

\* ... and _unlink_owned_file removes what the reservation did not.
Unlink(p) ==
    /\ pc[p] = "unlink"
    /\ Goto(p, "owner")
    /\ \/ /\ NoFault
          /\ file' = IF FileAt(p) = Now(p) THEN [file EXCEPT ![p] = NoFile]
                                           ELSE file
       \/ Fault /\ FileAt(p) = Now(p) /\ UNCHANGED file
    /\ UNCHANGED <<full, status, existed, claimed, moves, quar, base, resv,
                   tries, media, lock, queue, whole, up, past, crashes>>

-----------------------------------------------------------------------------
(* The owner transaction of _persist, and what follows it.                  *)

Own(p) == /\ row' = [row EXCEPT ![p] = media[p]]
          /\ owned' = IF media[p] = NoFile THEN owned
                                           ELSE owned \cup {<<p, media[p]>>}

\* Nothing is pending: the row names a file that was there, or none.
StoreRow(p) ==
    /\ pc[p] = "owner"
    /\ \/ NoFault /\ Own(p) /\ Goto(p, "done")
       \/ Fault /\ Goto(p, "idle") /\ UNCHANGED <<row, owned>>
    /\ UNCHANGED <<disk, oracle, todo, resv, tries, media, lock, queue, whole,
                   up, expired, adopted, crashes>>

\* PendingMediaFile.accept inside the transaction: both commit or neither.
\* An error of the commit itself leaves the caller not knowing which.
StoreAccepted(p) ==
    /\ pc[p] = "pending"
    /\ \/ /\ FileAt(p) = Now(p)
          /\ Own(p)
          /\ oracle' = [oracle EXCEPT ![Now(p)] = "accepted"]
          /\ \/ NoFault /\ Goto(p, "finalize")
             \/ Fault /\ Goto(p, "settle")
       \/ /\ IF FileAt(p) = Now(p) THEN Fault ELSE NoFault
          /\ Goto(p, "settle")
          /\ UNCHANGED <<oracle, row, owned>>
    /\ UNCHANGED <<disk, todo, resv, tries, media, lock, queue, whole, up,
                   expired, adopted, crashes>>

\* finalize_pending_media; an exception makes the whole retry fail.
Finalize(p) ==
    /\ pc[p] = "finalize" /\ lock = NoOne
    /\ \/ CloseAccepted(Now(p)) /\ Goto(p, IF Now(p) \in resv' THEN "idle" ELSE "done")
       \/ OracleUnreadable /\ Goto(p, "idle")
    /\ UNCHANGED <<row, todo, tries, media, lock, queue, whole, up, owned,
                   adopted, crashes>>

\* settle_pending_media: the intent decides, the retry fails either way.
Settle(p) ==
    /\ pc[p] = "settle" /\ lock = NoOne
    /\ \/ oracle[Now(p)] = "accepted" /\ CloseAccepted(Now(p))
       \/ oracle[Now(p)] # "accepted" /\ CloseFailed(Now(p))
       \/ OracleUnreadable
    /\ Goto(p, "idle")
    /\ UNCHANGED <<row, todo, tries, media, lock, queue, whole, up, owned,
                   adopted, crashes>>

\* The outbox row is deleted; until then a restart runs the retry again.
Ack(p) ==
    /\ pc[p] = "done" /\ p \in todo
    /\ todo' = todo \ {p}
    /\ UNCHANGED <<disk, oracle, row, proc, past, faults, crashes>>

-----------------------------------------------------------------------------
(* Inventories, retention and crashes.                                      *)

\* A planned move that is neither in quarantine nor at home stops recovery.
Missing(i) == \E m \in moves[i] : m \notin quar[i] /\ ~Present(Target(m))

\* _recover_stale_quarantine_locked, one journal.
Recover(i) ==
    /\ lock # NoOne /\ i \in queue
    /\ queue' = queue \ {i}
    /\ \/ /\ \/ status[i] = "committed"
             \/ /\ status[i] = "pending" /\ ~Missing(i)
                /\ oracle[i] = "accepted" /\ FileAt(Target(i)) = i
          /\ FinishCommit(i) \/ (Fault /\ UNCHANGED <<disk, expired>>)
       \/ /\ Undecided(i) /\ ~Missing(i)
          /\ FinishRollback(i) \/ (Fault /\ UNCHANGED <<disk, expired>>)
       \/ /\ status[i] = "pending"
          /\ \/ Missing(i)
             \/ oracle[i] = "accepted" /\ FileAt(Target(i)) # i
          /\ NoFault /\ UNCHANGED <<disk, expired>>
    /\ whole'  = (whole /\ status'[i] = "none")
    /\ oracle' = IF status'[i] = "none" THEN [oracle EXCEPT ![i] = "none"]
                                        ELSE oracle
    /\ UNCHANGED <<row, todo, resv, tries, pc, media, lock, up, owned, adopted,
                   crashes>>

\* run_retention_cleanup, storage_status: an inventory without a write.
Inspect ==
    /\ up /\ lock = NoOne
    /\ lock' = Janitor /\ queue' = Stale /\ whole' = TRUE
    /\ UNCHANGED <<disk, base, resv, tries, pc, media, up, past, faults, crashes>>

\* Mutant: retention does not ask whether the inventory is complete.
ExpireAnyhow(q) ==
    /\ lock = Janitor /\ queue = {}
    /\ q \in Evictable
    /\ file'    = [file EXCEPT ![q] = NoFile]
    /\ expired' = expired \cup {FileAt(q)}
    /\ UNCHANGED <<full, status, existed, claimed, moves, quar, base, proc,
                   owned, adopted, faults, crashes>>

\* _delete_oldest_locked: nothing is deleted on an incomplete inventory.
Expire(q) ==
    /\ lock = Janitor /\ queue = {} /\ whole
    /\ q \in Evictable
    /\ file'    = [file EXCEPT ![q] = NoFile]
    /\ expired' = expired \cup {FileAt(q)}
    /\ UNCHANGED <<full, status, existed, claimed, moves, quar, base, proc,
                   owned, adopted, faults, crashes>>

EndInspect ==
    /\ lock = Janitor /\ queue = {}
    /\ lock' = NoOne /\ up' = TRUE
    /\ UNCHANGED <<disk, base, resv, tries, pc, media, queue, whole, past,
                   faults, crashes>>

\* The next process runs retention before it starts the live worker.
Crash ==
    /\ crashes < MaxCrashes /\ crashes' = crashes + 1
    /\ resv' = {}
    /\ pc' = [p \in Path |-> "idle"] /\ media' = [p \in Path |-> NoFile]
    /\ lock' = Janitor /\ whole' = TRUE /\ up' = FALSE
    /\ queue' = {i \in Id : status[i] # "none"}
    /\ UNCHANGED <<disk, base, tries, past, faults>>

Step(p) ==
    \/ Adopt(p) \/ Prepare(p) \/ Acquire(p) \/ Register(p)
    \/ (\E q \in Path : Plan(p, q)) \/ (\E m \in Id : Evict(p, m))
    \/ Grant(p) \/ Refuse(p)
    \/ Create(p) \/ Claim(p) \/ Write(p) \/ Abort(p) \/ Unlink(p)
    \/ StoreRow(p) \/ StoreAccepted(p) \/ Finalize(p) \/ Settle(p) \/ Ack(p)

Next ==
    \/ \E p \in Path : Step(p)
    \/ \E i \in Id : Recover(i)
    \/ Inspect \/ (\E q \in Path : Expire(q)) \/ EndInspect
    \/ Crash

Spec == Init /\ [][Next]_vars

-----------------------------------------------------------------------------
Steps == {"idle", "begin", "inventory", "evict", "create", "claim", "write",
          "abort", "unlink", "owner", "pending", "finalize", "settle", "done"}

\* Every variable keeps its type.
TypeOK ==
    /\ file \in [Path -> Try \cup {NoFile}] /\ full \subseteq Id
    /\ status \in [Id -> {"none", "pending", "committed"}]
    /\ existed \subseteq Id /\ claimed \subseteq Id
    /\ moves \in [Id -> SUBSET Id] /\ quar \in [Id -> SUBSET Id]
    /\ oracle \in [Id -> {"none", "pending", "accepted"}]
    /\ row \in [Path -> Try \cup {NoFile}] /\ todo \subseteq Path
    /\ resv \subseteq Id /\ tries \in [Path -> Try]
    /\ pc \in [Path -> Steps] /\ media \in [Path -> Try \cup {NoFile}]
    /\ lock \in Path \cup {NoOne, Janitor} /\ queue \subseteq Id
    /\ whole \in BOOLEAN /\ up \in BOOLEAN
    /\ owned \subseteq Id /\ expired \subseteq Id /\ adopted \subseteq Id
    /\ faults \in 0 .. MaxFaults /\ crashes \in 0 .. MaxCrashes

Quarantined(i) == \E j \in Id : i \in quar[j]
Kept(i) == FileAt(Target(i)) = i \/ Quarantined(i) \/ i \in expired

\* Evidence some committed row named is in place, waits in a quarantine to be
\* put back or discarded, or was discarded by the quota or by retention: no
\* failed write, crash or recovery takes it away (files adopted while their
\* own write was still undecided apart, see EvidenceNeverLost).
EvidenceKept == \A i \in owned \ adopted : Kept(i)

\* The same of every row: a file that a retry found at its target and named
\* is as safe as one it wrote.
EvidenceNeverLost == \A i \in owned : Kept(i)

\* A whole image that no row names is still covered by a journal, which will
\* remove it: failures leave no unowned evidence.
NoStrayEvidence ==
    \A p \in Path : Full(p) /\ FileAt(p) \notin owned => status[FileAt(p)] # "none"

\* Recovery can always decide: a file its owner accepted is still there when the
\* journal is read again, and a whole image that a journal planned to move is in
\* its quarantine or back at home.  Otherwise the journal would stay for ever,
\* every later inventory would be incomplete, and every later write refused.  An
\* image that was never written may be missing: its writer, whose claim failed,
\* can unlink it after another reservation moved it and a half-done rollback put
\* it back.
RecoveryDecides ==
    \A i \in Stale : status[i] = "pending" =>
        /\ \A m \in moves[i] \cap full : m \in quar[i] \/ Present(Target(m))
        /\ oracle[i] = "accepted" => FileAt(Target(i)) = i

-----------------------------------------------------------------------------
(* The abstract store this one implements.                                  *)

InStore == {i \in Id : FileAt(Target(i)) = i \/ Quarantined(i)}

Evidence == INSTANCE MediaEvidence WITH held <- InStore, owned <- owned \ adopted

\* Every step, failing and crashing ones included, is a step of MediaEvidence
\* or changes nothing there: a file that a row named through its own write, or
\* that was decided when a retry took it, is only ever discarded, never
\* withdrawn, and what was discarded does not come back.
EvidenceSpec == Evidence!Spec
=============================================================================
