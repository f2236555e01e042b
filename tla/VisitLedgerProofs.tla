-------------------------- MODULE VisitLedgerProofs --------------------------
(***************************************************************************)
(* Theorems about VisitLedger, for any plates and relations between them,   *)
(* tracks, times, cooldowns, entries and faults.                            *)
(*                                                                         *)
(* VisitInv is what the steps keep.  LedgerAgrees is inductive once the     *)
(* events the ledger is told are known to be events (Typed).  Standing says *)
(* which entries the drain has still to try are in the queue, once each, so *)
(* that a write takes the entry it means; Written that an event somebody    *)
(* refers to was inserted, so its id is not the id of an entry to come:     *)
(* without it a new row could overwrite one that shows a plate.  Counted    *)
(* compares what the ledger has counted with what happened.                 *)
(***************************************************************************)
EXTENDS VisitLedger, FiniteSetTheorems, WellFoundedInduction, TLAPS

LedgerRecord ==
    [ref : [Plates -> Refs], confirmed : SUBSET Plates, active : SUBSET Plates,
     seen : [Plates -> Time], missing : [Plates -> Nat], absent : [Plates -> Time],
     box : [Plates -> Tracks \cup {NoTrack}], owner : [Plates -> Tracks \cup {NoTrack}],
     key : [Tracks -> Plates \cup {NoPlate}], tracks : [Plates -> SUBSET Tracks]]

EntryRecord ==
    [id : EntryIds, track : Tracks, reading : Results, time : Time, event : Refs,
     pred : EntryIds \cup {None}, tried : BOOLEAN, current : BOOLEAN]

LineageRecord ==
    [event : EventIds, track : Tracks, reading : Results, time : Time, current : {TRUE}]

\* The types of every variable, those of the entries included.
Typed ==
    /\ ledger \in LedgerRecord
    /\ now \in Time /\ phase \in {"idle", "rows", "emit", "commit", "pump"}
    /\ live \subseteq Tracks /\ gone \subseteq Tracks /\ leaving \subseteq Tracks
    /\ due \subseteq Tracks /\ retired \subseteq Tracks /\ live \cap gone = {}
    /\ observed \subseteq Plates
    /\ trackEvent \in [Tracks -> Refs]
    /\ queue \in Seq(EntryRecord) /\ todo \in Seq(EntryIds)
    /\ failed \subseteq EntryRecord /\ resolved \in Seq(EntryRecord)
    /\ lineages \subseteq LineageRecord
    /\ saved \in [EntryIds -> Refs] /\ nextId \in 1 .. MaxEntries + 1
    /\ row \in [EventIds -> [plate : Plates \cup {NoPlate}, at : Time]]
    /\ unseen \in [Plates -> Nat] /\ aside \subseteq EventIds

\* The entries are told apart by their ids, and the drain has still to try some
\* of them, each once.
Standing ==
    /\ \A i, j \in DOMAIN queue : queue[i].id = queue[j].id => i = j
    /\ \A i \in DOMAIN queue : queue[i].id < nextId
    /\ \A i, j \in DOMAIN todo : todo[i] = todo[j] => i = j
    /\ \A i \in DOMAIN todo : \E j \in DOMAIN queue : queue[j].id = todo[i]

\* The ids of the entries that were written: no row has the id of another one.
Inserted == {v \in EventIds : v < nextId /\ \A i \in DOMAIN queue : queue[i].id # v}

\* An event that is referred to was inserted, and so is a row that shows something.
Written ==
    /\ \A k \in Plates : ledger.ref[k] # None => ledger.ref[k] \in Inserted
    /\ \A t \in Tracks : trackEvent[t] # None => trackEvent[t] \in Inserted
    /\ \A i \in DOMAIN queue : queue[i].event # None => queue[i].event \in Inserted
    /\ \A l \in lineages : l.event \in Inserted
    /\ \A i \in EntryIds : saved[i] # None => saved[i] \in Inserted
    /\ \A v \in EventIds : row[v].at # None \/ row[v].plate # NoPlate => v \in Inserted

\* A visit has not been missed more often than it was not shown.
Counted == \A k \in Plates : ledger.missing[k] <= unseen[k]

VisitInv == Typed /\ LedgerAgrees /\ Standing /\ Written /\ ConfirmedShowsPlate /\ Counted

-----------------------------------------------------------------------------
(* The operators of the ledger                                              *)

\* What LedgerAgrees says, of any ledger.
Agrees(L) ==
    /\ \A t \in Tracks, k \in Plates : t \in L.tracks[k] <=> L.key[t] = k
    /\ \A t \in Tracks : L.key[t] \in Known(L) \cup {NoPlate}
    /\ L.active \cup L.confirmed \subseteq Known(L)
    /\ \A j, k \in Known(L) : L.ref[j] = L.ref[k] => j = k

\* Two ledgers that differ at most in the bindings of the tracks.
SameVisits(L, M) ==
    /\ M.ref = L.ref /\ M.confirmed = L.confirmed /\ M.active = L.active
    /\ M.seen = L.seen /\ M.missing = L.missing /\ M.absent = L.absent
    /\ M.box = L.box /\ M.owner = L.owner

\* M is L with the tracks T taken off the visits they were bound to, ...
IsUnbound(L, T, M) ==
    /\ M \in LedgerRecord /\ SameVisits(L, M)
    /\ \A t \in Tracks : M.key[t] = IF t \in T THEN NoPlate ELSE L.key[t]
    /\ \A k \in Plates : M.tracks[k] = L.tracks[k] \ {t \in T : L.key[t] = k}

\* ... or bound to the visit k, ...
IsBound(L, T, k, M) ==
    /\ M \in LedgerRecord /\ SameVisits(L, M)
    /\ \A t \in Tracks : M.key[t] = IF t \in T THEN k ELSE L.key[t]
    /\ \A j \in Plates : M.tracks[j] =
         IF j = k THEN L.tracks[j] \cup T ELSE L.tracks[j] \ {t \in T : L.key[t] = j}

\* ... with the visit k shown once more, ...
IsTouched(L, k, M) ==
    /\ M \in LedgerRecord
    /\ M.ref = L.ref /\ M.confirmed = L.confirmed /\ M.active = L.active \cup {k}
    /\ M.owner = L.owner /\ M.key = L.key /\ M.tracks = L.tracks
    /\ \A j \in Plates : M.missing[j] = IF j = k THEN 0 ELSE L.missing[j]

\* ... or without the visits K.
IsForgotten(L, K, M) ==
    /\ M \in LedgerRecord
    /\ \A k \in Plates : /\ M.ref[k] = IF k \in K THEN None ELSE L.ref[k]
                         /\ M.missing[k] = IF k \in K THEN 0 ELSE L.missing[k]
                         /\ M.tracks[k] = IF k \in K THEN {} ELSE L.tracks[k]
    /\ \A t \in Tracks : M.key[t] = IF L.key[t] \in K THEN NoPlate ELSE L.key[t]
    /\ M.confirmed = L.confirmed \ K
    /\ M.active = L.active \ K

\* Unbinding takes tracks off the visit they are bound to, and nothing else.
LEMMA UnbindIs ==
    ASSUME NEW L \in LedgerRecord, NEW T
    PROVE  IsUnbound(L, T, Unbind(L, T))
BY DEF LedgerRecord, Unbind, SameVisits, IsUnbound

\* A ledger that agrees still does when tracks are unbound, ...
LEMMA UnbindAgrees ==
    ASSUME NEW L \in LedgerRecord, Agrees(L), NEW T, NEW M, IsUnbound(L, T, M)
    PROVE  Agrees(M)
BY PlatesAssumption DEF Agrees, Known, SameVisits, IsUnbound

\* Binding tracks to a visit takes them off any other.
LEMMA BindIs ==
    ASSUME NEW L \in LedgerRecord, NEW T \in SUBSET Tracks, NEW k \in Plates
    PROVE  IsBound(L, T, k, Bind(L, T, k))
<1> DEFINE M == Unbind(L, {t \in T : L.key[t] # k})
<1>1. /\ M \in LedgerRecord /\ SameVisits(L, M)
      /\ \A j \in Plates : M.tracks[j] = L.tracks[j] \ {t \in {u \in T : L.key[u] # k} : L.key[t] = j}
      /\ \A t \in Tracks : M.key[t] = IF t \in {u \in T : L.key[u] # k} THEN NoPlate ELSE L.key[t]
  BY UnbindIs DEF IsUnbound
<1>2. Bind(L, T, k) = [M EXCEPT !.key = [t \in Tracks |-> IF t \in T THEN k ELSE @[t]],
                                !.tracks[k] = @ \cup T]
  BY DEF Bind
<1> HIDE DEF M
<1> DEFINE keys == [t \in Tracks |-> IF t \in T THEN k ELSE M.key[t]]
           bound == [M.tracks EXCEPT ![k] = @ \cup T]
<1>3. /\ keys \in [Tracks -> Plates \cup {NoPlate}] /\ bound \in [Plates -> SUBSET Tracks]
      /\ \A t \in Tracks : keys[t] = IF t \in T THEN k ELSE M.key[t]
      /\ \A j \in Plates : bound[j] = IF j = k THEN M.tracks[j] \cup T ELSE M.tracks[j]
  BY <1>1 DEF LedgerRecord
<1>4. Bind(L, T, k) = [M EXCEPT !.key = keys, !.tracks = bound]
  BY <1>1, <1>2 DEF LedgerRecord
<1> HIDE DEF keys, bound
<1>5. /\ Bind(L, T, k) \in LedgerRecord /\ SameVisits(M, Bind(L, T, k))
      /\ Bind(L, T, k).key = keys /\ Bind(L, T, k).tracks = bound
  <2> DEFINE B == Bind(L, T, k)
  <2>1. B = [M EXCEPT !.key = keys, !.tracks = bound]
    BY <1>4
  <2> HIDE DEF B
  <2>2. B \in LedgerRecord
    BY <1>1, <1>3, <2>1, ZenonT(60) DEF LedgerRecord
  <2>3. B.key = keys /\ B.tracks = bound
    BY <1>1, <2>1 DEF LedgerRecord
  <2>4. SameVisits(M, B)
    BY <1>1, <2>1 DEF LedgerRecord, SameVisits
  <2> QED BY <2>2, <2>3, <2>4 DEF B
<1>6. SameVisits(L, Bind(L, T, k))
  BY <1>1, <1>5 DEF SameVisits
<1>7. \A t \in Tracks : Bind(L, T, k).key[t] = IF t \in T THEN k ELSE L.key[t]
  BY <1>1, <1>3, <1>5
<1>8. \A j \in Plates : Bind(L, T, k).tracks[j] =
                IF j = k THEN L.tracks[j] \cup T ELSE L.tracks[j] \ {t \in T : L.key[t] = j}
  <2> SUFFICES ASSUME NEW j \in Plates
               PROVE  bound[j] = IF j = k THEN L.tracks[j] \cup T
                                 ELSE L.tracks[j] \ {t \in T : L.key[t] = j}
    BY <1>5
  <2>1. bound[j] = IF j = k THEN M.tracks[j] \cup T ELSE M.tracks[j]
    BY <1>3
  <2>2. M.tracks[j] = L.tracks[j] \ {t \in {u \in T : L.key[u] # k} : L.key[t] = j}
    BY <1>1
  <2>3. CASE j = k
    BY <2>1, <2>2, <2>3
  <2>4. CASE j # k
    BY <2>1, <2>2, <2>4
  <2> QED BY <2>3, <2>4
<1> QED BY <1>5, <1>6, <1>7, <1>8 DEF IsBound

\* ... when they are bound to a visit that has an event, ...
LEMMA BindAgrees ==
    ASSUME NEW L \in LedgerRecord, Agrees(L), NEW T \in SUBSET Tracks, NEW k \in Plates,
           k \in Known(L), NEW M, IsBound(L, T, k, M)
    PROVE  Agrees(M)
<1>1. L.tracks \in [Plates -> SUBSET Tracks]
  BY DEF LedgerRecord
<1>2. /\ SameVisits(L, M)
      /\ \A t \in Tracks : M.key[t] = IF t \in T THEN k ELSE L.key[t]
      /\ \A j \in Plates : M.tracks[j] =
           IF j = k THEN L.tracks[j] \cup T ELSE L.tracks[j] \ {t \in T : L.key[t] = j}
  BY DEF IsBound
<1>3. Known(M) = Known(L)
  BY <1>2 DEF Known, SameVisits
<1>4. \A t \in Tracks, j \in Plates : t \in M.tracks[j] <=> M.key[t] = j
  <2> SUFFICES ASSUME NEW t \in Tracks, NEW j \in Plates PROVE t \in M.tracks[j] <=> M.key[t] = j
    OBVIOUS
  <2>1. t \in L.tracks[j] <=> L.key[t] = j
    BY DEF Agrees
  <2>2. /\ M.key[t] = IF t \in T THEN k ELSE L.key[t]
        /\ M.tracks[j] = IF j = k THEN L.tracks[j] \cup T
                         ELSE L.tracks[j] \ {u \in T : L.key[u] = j}
    BY <1>2
  <2> QED BY <2>1, <2>2
<1>5. \A t \in Tracks : M.key[t] \in Known(M) \cup {NoPlate}
  BY <1>2, <1>3 DEF Agrees
<1>6. /\ M.active \cup M.confirmed \subseteq Known(M)
      /\ \A i, j \in Known(M) : M.ref[i] = M.ref[j] => i = j
  BY <1>2, <1>3 DEF Agrees, SameVisits
<1> QED BY <1>4, <1>5, <1>6 DEF Agrees

\* A visit that is shown is active.
LEMMA TouchIs ==
    ASSUME NEW L \in LedgerRecord, NEW k \in Plates, NEW time \in Time, NEW t \in Tracks,
           NEW N \in {Touch(L, k, time), [Touch(L, k, time) EXCEPT !.box[k] = t]}
    PROVE  IsTouched(L, k, N)
<1> DEFINE s == Larger(L.seen[k], time)
           M == Touch(L, k, time)
<1>1. s \in Time /\ None \in Time /\ 0 \in Nat
  BY TimesAssumption DEF Larger, LedgerRecord, Time, None
<1>2. M = [L EXCEPT !.active = @ \cup {k}, !.seen[k] = s, !.missing[k] = 0, !.absent[k] = None]
  BY DEF Touch
<1> HIDE DEF s, M
<1>3. M \in LedgerRecord
  BY <1>1, <1>2 DEF LedgerRecord
<1>4. [M EXCEPT !.box[k] = t] \in LedgerRecord
  BY <1>3 DEF LedgerRecord
<1>5. /\ M.ref = L.ref /\ M.confirmed = L.confirmed /\ M.active = L.active \cup {k}
      /\ M.owner = L.owner /\ M.key = L.key /\ M.tracks = L.tracks
      /\ \A j \in Plates : M.missing[j] = IF j = k THEN 0 ELSE L.missing[j]
  BY <1>2 DEF LedgerRecord
<1>6. CASE N = [M EXCEPT !.box[k] = t]
  <2>1. /\ N.ref = M.ref /\ N.confirmed = M.confirmed /\ N.active = M.active
        /\ N.owner = M.owner /\ N.key = M.key /\ N.tracks = M.tracks /\ N.missing = M.missing
    BY <1>3, <1>6 DEF LedgerRecord
  <2> QED BY <1>4, <1>5, <1>6, <2>1 DEF IsTouched
<1>7. CASE N = M
  BY <1>3, <1>5, <1>7 DEF IsTouched
<1>8. N = M \/ N = [M EXCEPT !.box[k] = t]
  BY DEF M
<1> QED BY <1>6, <1>7, <1>8

\* ... when such a visit is shown, ...
LEMMA TouchAgrees ==
    ASSUME NEW L \in LedgerRecord, Agrees(L), NEW k \in Known(L), NEW M, IsTouched(L, k, M)
    PROVE  Agrees(M)
BY DEF Agrees, Known, IsTouched

\* A visit that is forgotten leaves no trace.
LEMMA ForgetIs ==
    ASSUME NEW L \in LedgerRecord, Agrees(L), NEW K \in SUBSET Plates
    PROVE  IsForgotten(L, K, Forget(L, K))
<1> DEFINE T == UNION {L.tracks[k] : k \in K}
           M == Unbind(L, T)
           F == Forget(L, K)
<1>1. /\ M \in LedgerRecord /\ SameVisits(L, M)
      /\ \A t \in Tracks : M.key[t] = IF t \in T THEN NoPlate ELSE L.key[t]
      /\ \A k \in Plates : M.tracks[k] = L.tracks[k] \ {t \in T : L.key[t] = k}
  BY UnbindIs DEF IsUnbound
<1>2. \A t \in Tracks : t \in T <=> L.key[t] \in K
  BY PlatesAssumption DEF Agrees, Known, LedgerRecord
<1>3. F = [M EXCEPT !.ref = [k \in Plates |-> IF k \in K THEN None ELSE @[k]],
                    !.confirmed = @ \ K, !.active = @ \ K,
                    !.seen = [k \in Plates |-> IF k \in K THEN 0 ELSE @[k]],
                    !.box = [k \in Plates |-> IF k \in K THEN NoTrack ELSE @[k]],
                    !.owner = [k \in Plates |-> IF k \in K THEN NoTrack ELSE @[k]],
                    !.missing = [k \in Plates |-> IF k \in K THEN 0 ELSE @[k]],
                    !.absent = [k \in Plates |-> IF k \in K THEN None ELSE @[k]]]
  BY DEF Forget
<1> HIDE DEF M, F
<1>4. 0 \in Time /\ None = 0 /\ 0 \in Nat /\ None \in Refs
  BY TimesAssumption DEF Time, None, Refs
<1>5. F \in LedgerRecord
  <2> DEFINE clear(f, x) == [k \in Plates |-> IF k \in K THEN x ELSE f[k]]
  <2>1. /\ clear(M.ref, None) \in [Plates -> Refs] /\ clear(M.missing, 0) \in [Plates -> Nat]
        /\ clear(M.seen, 0) \in [Plates -> Time] /\ clear(M.absent, None) \in [Plates -> Time]
    BY <1>1, <1>4 DEF LedgerRecord
  <2>2. /\ clear(M.box, NoTrack) \in [Plates -> Tracks \cup {NoTrack}]
        /\ clear(M.owner, NoTrack) \in [Plates -> Tracks \cup {NoTrack}]
        /\ M.confirmed \ K \in SUBSET Plates /\ M.active \ K \in SUBSET Plates
    BY <1>1 DEF LedgerRecord
  <2>3. F = [M EXCEPT !.ref = clear(@, None), !.confirmed = @ \ K, !.active = @ \ K,
                      !.seen = clear(@, 0), !.box = clear(@, NoTrack),
                      !.owner = clear(@, NoTrack), !.missing = clear(@, 0),
                      !.absent = clear(@, None)]
    BY <1>3
  <2> HIDE DEF clear
  <2> QED BY <1>1, <2>1, <2>2, <2>3, ZenonT(60) DEF LedgerRecord
<1>6. /\ F.ref = [k \in Plates |-> IF k \in K THEN None ELSE M.ref[k]]
      /\ F.missing = [k \in Plates |-> IF k \in K THEN 0 ELSE M.missing[k]]
      /\ F.confirmed = M.confirmed \ K /\ F.active = M.active \ K
      /\ F.key = M.key /\ F.tracks = M.tracks
  BY <1>1, <1>3 DEF LedgerRecord
<1>7. \A k \in Plates : F.tracks[k] = IF k \in K THEN {} ELSE L.tracks[k]
  <2> SUFFICES ASSUME NEW k \in Plates PROVE F.tracks[k] = IF k \in K THEN {} ELSE L.tracks[k]
    OBVIOUS
  <2>1. F.tracks[k] = L.tracks[k] \ {t \in T : L.key[t] = k} /\ L.tracks[k] \subseteq Tracks
    BY <1>1, <1>6 DEF LedgerRecord
  <2>2. \A t \in L.tracks[k] : L.key[t] = k
    BY <2>1 DEF Agrees
  <2> QED BY <2>1, <2>2, <1>2
<1>8. \A t \in Tracks : F.key[t] = IF L.key[t] \in K THEN NoPlate ELSE L.key[t]
  BY <1>1, <1>2, <1>6
<1> HIDE DEF T
<1>9. M.ref = L.ref /\ M.missing = L.missing /\ M.confirmed = L.confirmed
      /\ M.active = L.active
  BY <1>1 DEF SameVisits
<1>10. IsForgotten(L, K, F)
  BY <1>5, <1>6, <1>7, <1>8, <1>9 DEF IsForgotten
<1> QED BY <1>10 DEF F

\* ... and when visits are forgotten.
LEMMA ForgetAgrees ==
    ASSUME NEW L \in LedgerRecord, Agrees(L), NEW K \in SUBSET Plates, NEW M, IsForgotten(L, K, M)
    PROVE  Agrees(M)
<1>1. \A k \in Plates : k \in Known(M) <=> k \in Known(L) /\ k \notin K
  BY DEF Known, None, IsForgotten
<1>2. Known(L) \subseteq Plates /\ Known(M) \subseteq Plates
  BY DEF Known
<1>3. \A t \in Tracks, k \in Plates : t \in M.tracks[k] <=> M.key[t] = k
  BY PlatesAssumption DEF Agrees, IsForgotten
<1>4. \A t \in Tracks : M.key[t] \in Known(M) \cup {NoPlate}
  BY <1>1, <1>2 DEF Agrees, IsForgotten
<1>5. M.active \cup M.confirmed \subseteq Known(M)
  BY <1>1, <1>2 DEF Agrees, IsForgotten
<1>6. \A j, k \in Known(M) : M.ref[j] = M.ref[k] => j = k
  BY <1>1, <1>2 DEF Agrees, IsForgotten
<1> QED BY <1>3, <1>4, <1>5, <1>6 DEF Agrees

\* What a reading is of.
LEMMA ReadingKeys ==
    ASSUME NEW x \in Results
    PROVE  x.key \in Plates \cup {NoPlate} /\ x.strict \in BOOLEAN /\ (x.strict => x.key # NoPlate)
<1>1. CASE x = Blank
  BY <1>1 DEF Blank
<1>2. CASE \E k \in Plates : x = Strict(k) \/ x = Review(k) \/ \E b \in BOOLEAN : x = Guess(k, b)
  <2>1. PICK k \in Plates : x = Strict(k) \/ x = Review(k) \/ \E b \in BOOLEAN : x = Guess(k, b)
    BY <1>2
  <2>2. x.key = k /\ x.strict \in BOOLEAN
    BY <2>1 DEF Strict, Review, Guess, Blank
  <2> QED BY <2>1, <2>2, PlatesAssumption
<1> QED BY <1>1, <1>2 DEF Results, Rows

\* A row that registers: of the visits that had the event one remains, which is
\* the row's own or one that may not be taken over.
LEMMA RegisteredIs ==
    ASSUME NEW L \in LedgerRecord, Agrees(L), NEW t \in Tracks, NEW reading \in Results,
           reading.key # NoPlate, NEW event \in EventIds, NEW time \in Time
    PROVE  LET N == Registered(L, t, reading, event, time)
               k == N.key[t]
           IN  /\ N \in LedgerRecord /\ Agrees(N) /\ k \in Plates
               /\ N.ref[k] = event
               /\ \A j \in Plates \ {k} : N.ref[j] \in {None, L.ref[j]}
               /\ \A j \in Plates : N.missing[j] = IF j = k THEN 0 ELSE
                                      IF L.ref[j] = event THEN 0 ELSE L.missing[j]
               /\ L.active \cap L.confirmed \subseteq N.active
               /\ \A j \in N.confirmed :
                    \/ j \in L.confirmed /\ N.ref[j] = L.ref[j]
                    \/ reading.strict /\ j = reading.key /\ N.ref[j] = event
<1> DEFINE key     == reading.key
           holders == Holders(L, key, event)
           guarded == {a \in holders : ProtectedAlias(L, t, reading, a)}
           N       == Registered(L, t, reading, event, time)
<1>1. key \in Plates /\ event # None /\ event \in Refs /\ None \in Refs /\ NoPlate \notin Plates
  <2>1. event # None /\ event \in Refs /\ None \in Refs /\ NoPlate \notin Plates
    BY PlatesAssumption DEF EventIds, Refs, None
  <2> QED BY <2>1, ReadingKeys
<1>2. holders \in SUBSET Plates /\ key \notin holders /\ \A a \in holders : L.ref[a] = event
  BY DEF Holders
<1>3. CASE guarded # {}
  <2> DEFINE alias == CHOOSE a \in guarded : TRUE
  <2>1. alias \in Known(L) /\ alias \in Plates /\ L.ref[alias] = event
    BY <1>1, <1>2, <1>3 DEF Known
  <2>2. N = [Touch(Bind(L, {t}, alias), alias, time) EXCEPT !.box[alias] = t]
    BY <1>3 DEF Registered
  <2> HIDE DEF alias, N
  <2> DEFINE B == Bind(L, {t}, alias)
  <2>3. B \in LedgerRecord /\ Agrees(B) /\ SameVisits(L, B) /\ B.key[t] = alias
    <3>1. IsBound(L, {t}, alias, B)
      BY <2>1, BindIs
    <3>2. Agrees(B)
      BY <2>1, <3>1, BindAgrees
    <3> QED BY <3>1, <3>2 DEF IsBound
  <2> HIDE DEF B
  <2>4. alias \in Known(B)
    BY <2>1, <2>3 DEF Known, SameVisits
  <2>5. IsTouched(B, alias, N)
    <3>1. N = [Touch(B, alias, time) EXCEPT !.box[alias] = t]
      BY <2>2 DEF B
    <3> QED BY <2>1, <2>3, <3>1, TouchIs
  <2>6. Agrees(N)
    BY <2>3, <2>4, <2>5, TouchAgrees
  <2>7. \A j \in Plates : L.ref[j] = event => j = alias
    BY <1>1, <2>1 DEF Agrees, Known
  <2> QED BY <2>1, <2>3, <2>5, <2>6, <2>7 DEF SameVisits, IsTouched, N
<1>4. CASE guarded = {}
  <2> DEFINE freed  == Forget(L, holders)
             moved  == UNION {L.tracks[a] : a \in holders}
             seen   == {L.seen[a] : a \in holders} \cup {time}
             newest == CHOOSE s \in seen : \A other \in seen : other =< s
             other  == L.ref[key] \notin {None, event}
             base   == IF other
                       THEN [Unbind(freed, freed.tracks[key]) EXCEPT !.confirmed = @ \ {key}]
                       ELSE freed
             owned  == [base EXCEPT
                          !.ref[key] = event,
                          !.confirmed = IF reading.strict THEN @ \cup {key} ELSE @,
                          !.owner[key] = IF ~reading.strict /\ reading.provisional
                                         THEN t ELSE NoTrack]
  <2>1. N = [Touch(Bind(owned, moved \cup {t}, key), key, newest) EXCEPT !.box[key] = t]
    BY <1>4 DEF Registered
  <2>2. newest \in Time
    <3>1. \A a, b \in holders : a = b
      BY <1>1, <1>2 DEF Agrees, Known
    <3>2. \A a \in holders : L.seen[a] \in Time /\ L.seen[a] \in Int
      BY <1>2 DEF LedgerRecord, Time
    <3>3. time \in Int /\ seen \subseteq Time
      BY <3>2 DEF Time
    <3>4. \E s \in seen : \A o \in seen : o =< s
      <4>1. CASE holders = {}
        BY <4>1, <3>3
      <4>2. ASSUME NEW a \in holders PROVE \E s \in seen : \A o \in seen : o =< s
        <5>1. seen = {L.seen[a], time}
          BY <3>1, <4>2
        <5>2. L.seen[a] =< time \/ time =< L.seen[a]
          BY <3>2, <3>3
        <5> DEFINE x == L.seen[a]
        <5>0. x \in Int /\ x =< x /\ time =< time /\ seen = {x, time}
          BY <3>2, <3>3, <4>2, <5>1
        <5> HIDE DEF x, seen
        <5>3. CASE x =< time
          BY <5>0, <5>3
        <5>4. CASE time =< x
          BY <5>0, <5>4
        <5> QED BY <5>2, <5>3, <5>4 DEF x
      <4> QED BY <4>1, <4>2
    <3> HIDE DEF seen
    <3> QED BY <3>3, <3>4
  <2>3. moved \subseteq Tracks /\ moved \cup {t} \in SUBSET Tracks
    BY <1>2 DEF LedgerRecord
  <2>4. /\ freed \in LedgerRecord /\ Agrees(freed)
        /\ \A k \in Plates : /\ freed.ref[k] = IF k \in holders THEN None ELSE L.ref[k]
                             /\ freed.missing[k] = IF k \in holders THEN 0 ELSE L.missing[k]
        /\ freed.confirmed = L.confirmed \ holders /\ freed.active = L.active \ holders
    <3>1. IsForgotten(L, holders, freed)
      BY <1>2, ForgetIs
    <3>2. Agrees(freed)
      BY <1>2, <3>1, ForgetAgrees
    <3> QED BY <3>1, <3>2 DEF IsForgotten
  <2> HIDE DEF freed, moved, newest
  <2>5. /\ base \in LedgerRecord /\ base.ref = freed.ref /\ base.active = freed.active
        /\ base.missing = freed.missing
        /\ base.confirmed = IF other THEN freed.confirmed \ {key} ELSE freed.confirmed
        /\ \A u \in Tracks, k \in Plates : u \in base.tracks[k] <=> base.key[u] = k
        /\ \A u \in Tracks : base.key[u] \in Known(freed) \cup {NoPlate}
    <3> DEFINE U == Unbind(freed, freed.tracks[key])
    <3>1. U \in LedgerRecord /\ Agrees(U) /\ SameVisits(freed, U)
      <4>1. IsUnbound(freed, freed.tracks[key], U)
        BY <2>4, UnbindIs
      <4>2. Agrees(U)
        BY <2>4, <4>1, UnbindAgrees
      <4> QED BY <4>1, <4>2 DEF IsUnbound
    <3> HIDE DEF U
    <3>2. Known(U) = Known(freed)
      BY <3>1 DEF SameVisits, Known
    <3>3. CASE other
      <4>1. base = [U EXCEPT !.confirmed = @ \ {key}]
        BY <3>3 DEF U
      <4>2. /\ base \in LedgerRecord /\ base.ref = U.ref /\ base.active = U.active
            /\ base.missing = U.missing /\ base.confirmed = U.confirmed \ {key}
            /\ base.key = U.key /\ base.tracks = U.tracks
        <5>1. U.confirmed \ {key} \in SUBSET Plates
          BY <3>1 DEF LedgerRecord
        <5>2. base \in LedgerRecord
          BY <4>1, <5>1, <3>1, ZenonT(60) DEF LedgerRecord
        <5>3. /\ base.ref = U.ref /\ base.active = U.active
              /\ base.missing = U.missing /\ base.confirmed = U.confirmed \ {key}
              /\ base.key = U.key /\ base.tracks = U.tracks
          BY <4>1, <3>1 DEF LedgerRecord
        <5> QED BY <5>2, <5>3
      <4> HIDE DEF base
      <4> QED BY <3>1, <3>2, <3>3, <4>2 DEF SameVisits, Agrees
    <3>4. CASE ~other
      BY <3>4, <2>4 DEF Agrees
    <3> QED BY <3>3, <3>4
  <2> HIDE DEF base
  <2>6. /\ owned \in LedgerRecord
        /\ owned.ref = [base.ref EXCEPT ![key] = event]
        /\ owned.active = base.active /\ owned.missing = base.missing
        /\ owned.confirmed = IF reading.strict THEN base.confirmed \cup {key} ELSE base.confirmed
        /\ owned.key = base.key /\ owned.tracks = base.tracks
    <3> DEFINE c == IF reading.strict THEN base.confirmed \cup {key} ELSE base.confirmed
               o == IF ~reading.strict /\ reading.provisional THEN t ELSE NoTrack
               f == [base.ref EXCEPT ![key] = event]
               g == [base.owner EXCEPT ![key] = o]
    <3>1. /\ c \in SUBSET Plates /\ f \in [Plates -> Refs]
          /\ g \in [Plates -> Tracks \cup {NoTrack}]
      BY <1>1, <2>5 DEF LedgerRecord
    <3>2. owned = [base EXCEPT !.ref = f, !.confirmed = c, !.owner = g]
      BY <1>1, <2>5 DEF LedgerRecord
    <3> HIDE DEF c, f, g, owned
    <3>3. /\ owned \in LedgerRecord /\ owned.ref = f /\ owned.confirmed = c
          /\ owned.active = base.active /\ owned.missing = base.missing
          /\ owned.key = base.key /\ owned.tracks = base.tracks
      BY <2>5, <3>1, <3>2 DEF LedgerRecord
    <3> QED BY <3>3 DEF c, f
  <2> HIDE DEF owned
  <2>7. /\ \A k \in Plates : owned.ref[k] = IF k = key THEN event ELSE freed.ref[k]
        /\ Known(owned) = Known(freed) \cup {key}
    BY <1>1, <2>4, <2>5, <2>6 DEF Known, LedgerRecord
  <2>8. Agrees(owned)
    <3>1. \A u \in Tracks, k \in Plates : u \in owned.tracks[k] <=> owned.key[u] = k
      BY <2>5, <2>6
    <3>2. \A u \in Tracks : owned.key[u] \in Known(owned) \cup {NoPlate}
      BY <2>5, <2>6, <2>7
    <3>3. owned.active \cup owned.confirmed \subseteq Known(owned)
      BY <2>4, <2>5, <2>6, <2>7 DEF Agrees
    <3>4. \A j \in Plates : freed.ref[j] = event => j = key
      BY <1>1, <2>4 DEF Holders
    <3>5. \A j, k \in Known(owned) : owned.ref[j] = owned.ref[k] => j = k
      BY <2>4, <2>7, <3>4 DEF Agrees, Known
    <3> QED BY <3>1, <3>2, <3>3, <3>5 DEF Agrees
  <2> DEFINE B == Bind(owned, moved \cup {t}, key)
  <2>9. key \in Known(owned)
    BY <2>7
  <2>10. B \in LedgerRecord /\ Agrees(B) /\ SameVisits(owned, B) /\ B.key[t] = key
    <3>1. IsBound(owned, moved \cup {t}, key, B)
      BY <1>1, <2>3, <2>6, BindIs
    <3>2. Agrees(B)
      BY <1>1, <2>3, <2>6, <2>8, <2>9, <3>1, BindAgrees
    <3> QED BY <3>1, <3>2, <2>3 DEF IsBound
  <2> HIDE DEF B
  <2>11. key \in Known(B)
    BY <2>9, <2>10 DEF Known, SameVisits
  <2>12. N = [Touch(B, key, newest) EXCEPT !.box[key] = t]
    BY <2>1 DEF B
  <2> HIDE DEF N
  <2>13. IsTouched(B, key, N)
    BY <1>1, <2>2, <2>10, <2>12, TouchIs
  <2>14. /\ N \in LedgerRecord /\ Agrees(N)
         /\ N.ref = B.ref /\ N.confirmed = B.confirmed /\ N.active = B.active \cup {key}
         /\ N.key = B.key
         /\ \A j \in Plates : N.missing[j] = IF j = key THEN 0 ELSE B.missing[j]
    <3>1. Agrees(N)
      BY <2>10, <2>11, <2>13, TouchAgrees
    <3> QED BY <2>13, <3>1 DEF IsTouched
  <2>15. \A j \in Plates \ {key} : j \in holders <=> L.ref[j] = event
    BY DEF Holders
  <2>16. \A a \in holders : a \notin L.confirmed
    BY <1>4 DEF ProtectedAlias
  <2> HIDE DEF holders, guarded
  <2>17. /\ N.key[t] = key /\ N.ref[key] = event
         /\ \A j \in Plates \ {key} : N.ref[j] \in {None, L.ref[j]}
    BY <1>1, <2>4, <2>7, <2>10, <2>14 DEF SameVisits
  <2>18. \A j \in Plates : N.missing[j] = IF j = key THEN 0 ELSE
                                          IF L.ref[j] = event THEN 0 ELSE L.missing[j]
    BY <2>4, <2>5, <2>6, <2>10, <2>14, <2>15 DEF SameVisits
  <2>19. L.active \cap L.confirmed \subseteq N.active
    BY <2>4, <2>5, <2>6, <2>10, <2>14, <2>16 DEF SameVisits
  <2>20. \A j \in N.confirmed : \/ j \in L.confirmed /\ N.ref[j] = L.ref[j]
                                \/ reading.strict /\ j = key /\ N.ref[j] = event
    <3> SUFFICES ASSUME NEW j \in N.confirmed, ~(reading.strict /\ j = key)
                 PROVE  j \in L.confirmed /\ N.ref[j] = L.ref[j]
      BY <2>17
    <3>1. j \in base.confirmed
      BY <2>6, <2>10, <2>14 DEF SameVisits
    <3>2. j \in freed.confirmed /\ j \in L.confirmed /\ j \notin holders /\ (other => j # key)
      BY <3>1, <2>4, <2>5
    <3>3. j \in Plates /\ j \in Known(L)
      BY <3>2 DEF LedgerRecord, Agrees
    <3>4. CASE j = key
      <4>1. L.ref[key] = event
        BY <3>2, <3>3, <3>4 DEF Known
      <4> QED BY <3>2, <3>4, <4>1, <2>17
    <3>5. CASE j # key
      BY <3>2, <3>3, <3>5, <2>4, <2>7, <2>10, <2>14 DEF SameVisits
    <3> QED BY <3>4, <3>5
  <2> QED BY <1>1, <2>14, <2>17, <2>18, <2>19, <2>20 DEF N
<1> QED BY <1>3, <1>4

-----------------------------------------------------------------------------
(* The queue                                                                *)

\* What an entry is made of.
LEMMA EntryFields ==
    ASSUME NEW e \in EntryRecord
    PROVE  /\ e.id \in EntryIds /\ e.track \in Tracks /\ e.reading \in Results /\ e.time \in Time
           /\ e.event \in Refs /\ e.pred \in EntryIds \cup {None} /\ e.current \in BOOLEAN
           /\ \A v \in Refs : [e EXCEPT !.tried = TRUE, !.event = v] \in EntryRecord
           /\ [e EXCEPT !.current = FALSE] \in EntryRecord
           /\ \A p \in EntryIds \cup {None} : [e EXCEPT !.pred = p] \in EntryRecord
BY DEF EntryRecord

\* Taking an element out of a sequence.
LEMMA RemoveIs ==
    ASSUME NEW S, NEW s \in Seq(S), NEW n \in DOMAIN s
    PROVE  /\ RemoveAt(s, n) \in Seq(S) /\ DOMAIN RemoveAt(s, n) = 1 .. Len(s) - 1
           /\ \A i \in 1 .. Len(s) - 1 : RemoveAt(s, n)[i] = IF i < n THEN s[i] ELSE s[i + 1]
<1>1. n \in 1 .. Len(s) /\ Len(s) \in Nat
  OBVIOUS
<1>2. /\ SubSeq(s, 1, n - 1) \in Seq(S) /\ Len(SubSeq(s, 1, n - 1)) = n - 1
      /\ \A i \in 1 .. n - 1 : SubSeq(s, 1, n - 1)[i] = s[i]
  BY <1>1
<1>3. /\ SubSeq(s, n + 1, Len(s)) \in Seq(S) /\ Len(SubSeq(s, n + 1, Len(s))) = Len(s) - n
      /\ \A i \in 1 .. Len(s) - n : SubSeq(s, n + 1, Len(s))[i] = s[n + i]
  BY <1>1
<1> DEFINE a == SubSeq(s, 1, n - 1)
           b == SubSeq(s, n + 1, Len(s))
<1>4. RemoveAt(s, n) = a \o b
  BY DEF RemoveAt
<1>5. /\ a \in Seq(S) /\ Len(a) = n - 1 /\ \A i \in 1 .. n - 1 : a[i] = s[i]
      /\ b \in Seq(S) /\ Len(b) = Len(s) - n /\ \A i \in 1 .. Len(s) - n : b[i] = s[n + i]
  BY <1>2, <1>3
<1> HIDE DEF a, b
<1>6. a \o b \in Seq(S) /\ Len(a \o b) = Len(s) - 1
  BY <1>1, <1>5
<1>7. ASSUME NEW i \in 1 .. Len(s) - 1 PROVE (a \o b)[i] = IF i < n THEN s[i] ELSE s[i + 1]
  <2>1. CASE i < n
    BY <1>1, <1>5, <2>1
  <2>2. CASE ~(i < n)
    <3>1. i - (n - 1) \in 1 .. Len(s) - n
      BY <1>1, <2>2
    <3>2. (a \o b)[i] = b[i - (n - 1)]
      <4>1. Len(a) = n - 1 /\ Len(a) \in Nat /\ Len(b) \in Nat /\ i > Len(a) /\ i \in 1 .. Len(a) + Len(b)
        BY <1>1, <1>5, <2>2
      <4>2. (a \o b)[i] = b[i - Len(a)]
        BY <1>5, <4>1, SMTT(30)
      <4> QED BY <4>1, <4>2
    <3>3. b[i - (n - 1)] = s[n + (i - (n - 1))]
      BY <1>5, <3>1
    <3>4. n + (i - (n - 1)) = i + 1
      BY <1>1
    <3> QED BY <2>2, <3>2, <3>3, <3>4
  <2> QED BY <2>1, <2>2
<1>8. DOMAIN (a \o b) = 1 .. Len(s) - 1
  BY <1>6
<1> QED BY <1>4, <1>6, <1>7, <1>8

\* The entry of an id that is queued.
LEMMA EntryIs ==
    ASSUME Typed, Standing, NEW j \in DOMAIN queue
    PROVE  /\ Entry(queue[j].id) = queue[j] /\ queue[j] \in EntryRecord
           /\ (CHOOSE n \in DOMAIN queue : queue[n].id = queue[j].id) = j
<1>1. queue[j] \in Queued /\ \A e \in Queued : e.id = queue[j].id => e = queue[j]
  BY DEF Queued, Standing
<1>2. Entry(queue[j].id) = queue[j]
  BY <1>1 DEF Entry
<1>3. (CHOOSE n \in DOMAIN queue : queue[n].id = queue[j].id) = j
  BY DEF Standing
<1> QED BY <1>2, <1>3 DEF Typed

\* The queue without an entry: the others, in order.
LEMMA WithoutIs ==
    ASSUME Typed, Standing, NEW j \in DOMAIN queue
    PROVE  LET q == Without(queue[j].id)
           IN  /\ q \in Seq(EntryRecord)
               /\ \A i \in DOMAIN q : \E k \in DOMAIN queue : q[i] = queue[k] /\ k # j
               /\ \A k \in DOMAIN queue : k # j => \E i \in DOMAIN q : q[i] = queue[k]
               /\ \A i, k \in DOMAIN q : q[i].id = q[k].id => i = k
<1> DEFINE q == RemoveAt(queue, j)
<1>1. Without(queue[j].id) = q
  BY EntryIs DEF Without
<1>2. queue \in Seq(EntryRecord) /\ Len(queue) \in Nat /\ DOMAIN queue = 1 .. Len(queue)
  BY DEF Typed
<1>3. /\ q \in Seq(EntryRecord) /\ DOMAIN q = 1 .. Len(queue) - 1
      /\ \A i \in 1 .. Len(queue) - 1 : q[i] = IF i < j THEN queue[i] ELSE queue[i + 1]
  BY <1>2, RemoveIs
<1> HIDE DEF q
<1>4. ASSUME NEW i \in DOMAIN q
      PROVE  \E k \in DOMAIN queue : q[i] = queue[k] /\ k # j /\ k = IF i < j THEN i ELSE i + 1
  BY <1>2, <1>3
<1>5. ASSUME NEW k \in DOMAIN queue, k # j PROVE \E i \in DOMAIN q : q[i] = queue[k]
  <2>1. CASE k < j
    <3>1. k \in DOMAIN q /\ q[k] = queue[k]
      BY <1>2, <1>3, <2>1
    <3> QED BY <3>1
  <2>2. CASE ~(k < j)
    <3>1. k - 1 \in DOMAIN q /\ q[k - 1] = queue[k]
      BY <1>2, <1>3, <1>5, <2>2
    <3> QED BY <3>1
  <2> QED BY <2>1, <2>2
<1>6. ASSUME NEW i \in DOMAIN q, NEW k \in DOMAIN q, q[i].id = q[k].id PROVE i = k
  <2>1. PICK m \in DOMAIN queue : q[i] = queue[m] /\ m = IF i < j THEN i ELSE i + 1
    BY <1>4
  <2>2. PICK n \in DOMAIN queue : q[k] = queue[n] /\ n = IF k < j THEN k ELSE k + 1
    BY <1>4
  <2>3. m = n
    BY <1>6, <2>1, <2>2 DEF Standing
  <2> QED BY <1>2, <1>3, <2>1, <2>2, <2>3
<1> QED BY <1>1, <1>3, <1>4, <1>5, <1>6


\* A bounded set of numbers has a largest one.
LEMMA LargestExists ==
    ASSUME NEW n \in Nat, NEW T \in SUBSET (0 .. n), T # {}
    PROVE  \E m \in T : \A k \in T : k <= m
<1> DEFINE D == {d \in Nat : n - d \in T}
           R == {p \in Nat \X Nat : p[1] < p[2]}
<1>1. IsWellFoundedOn(R, Nat)
  BY NatLessThanWellFounded DEF OpToRel
<1>2. \A x, y \in Nat : x < y => <<x, y>> \in R
  OBVIOUS
<1>3. D \subseteq Nat /\ D # {}
  <2>1. PICK k \in T : TRUE
    OBVIOUS
  <2>2. n - k \in Nat /\ n - (n - k) = k
    OBVIOUS
  <2> QED BY <2>1, <2>2
<1> HIDE DEF R
<1>4. PICK d \in D : \A c \in D : <<c, d>> \notin R
  <2> HIDE DEF D
  <2> QED BY <1>1, <1>3, WFMin
<1>5. n - d \in T
  OBVIOUS
<1>6. \A k \in T : k <= n - d
  <2> SUFFICES ASSUME NEW k \in T PROVE k <= n - d
    OBVIOUS
  <2>1. n - k \in D
    <3>1. k \in Int /\ k <= n
      OBVIOUS
    <3>2. n - (n - k) = k /\ n - k \in Nat
      BY <3>1
    <3> QED BY <3>2
  <2>2. ~ (n - k < d)
    BY <1>2, <1>4, <2>1
  <2> QED BY <2>1, <2>2
<1> QED BY <1>5, <1>6

\* The entry that is chosen is one that fits.
LEMMA ChosenIs ==
    ASSUME NEW S, NEW s \in Seq(S), NEW e, NEW fit \in SUBSET DOMAIN s
    PROVE  Chosen(s, e, fit) \subseteq {s[i] : i \in fit}
<1> DEFINE same == {i \in fit : s[i].track = e.track}
           last == CHOOSE i \in same : \A j \in same : j =< i
<1>1. same # {} => last \in same
  <2> SUFFICES ASSUME same # {} PROVE last \in same
    OBVIOUS
  <2>1. Len(s) \in Nat /\ same \in SUBSET (0 .. Len(s))
    OBVIOUS
  <2> HIDE DEF same
  <2>2. \E i \in same : \A j \in same : j =< i
    BY <2>1, LargestExists
  <2> QED BY <2>2
<1>2. Chosen(s, e, fit) \in {{s[last]}, {s[i] : i \in fit}, {}}
      /\ (same = {} => Chosen(s, e, fit) # {s[last]} \/ Chosen(s, e, fit) \subseteq {s[i] : i \in fit})
  BY DEF Chosen
<1>3. CASE same # {}
  <2>1. Chosen(s, e, fit) = {s[last]}
    BY <1>3 DEF Chosen
  <2> HIDE DEF last
  <2> QED BY <1>1, <1>3, <2>1
<1>4. CASE same = {}
  BY <1>2, <1>4
<1> QED BY <1>3, <1>4

\* What an entry waits for is an entry of the queue, if it is anything.
LEMMA PredecessorIs ==
    ASSUME Typed, NEW e
    PROVE  Predecessor(e) \in EntryIds \cup {None}
<1> DEFINE waits(p) == p.event = None /\ CanFollow(p, e)
           fit      == {i \in DOMAIN queue : waits(queue[i])}
           chosen   == Chosen(queue, e, fit)
<1>1. queue \in Seq(EntryRecord)
  BY DEF Typed
<1>2. fit \in SUBSET DOMAIN queue
  OBVIOUS
<1>3. Predecessor(e) = IF chosen = {} THEN None ELSE (CHOOSE p \in chosen : TRUE).id
  BY DEF Predecessor
<1> HIDE DEF fit
<1>4. chosen \subseteq {queue[i] : i \in fit}
  BY <1>1, <1>2, ChosenIs
<1>5. \A p \in chosen : p.id \in EntryIds
  <2>1. \A i \in fit : queue[i] \in EntryRecord
    BY <1>1, <1>2
  <2> HIDE DEF chosen
  <2>2. \A p \in chosen : p \in EntryRecord
    BY <1>4, <2>1
  <2> QED BY <2>2, EntryFields
<1> QED BY <1>3, <1>5

\* A result is put at the end of the queue, or takes the place and the id of the
\* same emission: of the entries that stay, ids and order stay as they were.
LEMMA EnqueuedIs ==
    ASSUME Typed, NEW e \in EntryRecord
    PROVE  LET q == Enqueued(e)
           IN  /\ q \in Seq(EntryRecord)
               /\ DOMAIN q \in {DOMAIN queue, 1 .. Len(queue) + 1}
               /\ \A i \in DOMAIN queue : i \in DOMAIN q /\ q[i].id = queue[i].id
               /\ \A i \in DOMAIN queue : q[i].event \in {queue[i].event, e.event}
               /\ \A i \in DOMAIN q \ DOMAIN queue : q[i].id = e.id /\ q[i].event = e.event
<1> DEFINE at == {i \in DOMAIN queue : RetryKey(queue[i]) = RetryKey(e)}
           merge(p) == [e EXCEPT !.id = p.id, !.pred = p.pred, !.tried = p.tried,
                                 !.event = IF p.event # None THEN p.event ELSE @]
           last == [e EXCEPT !.pred = Predecessor(e)]
           q == Enqueued(e)
<1>1. queue \in Seq(EntryRecord) /\ Len(queue) \in Nat /\ DOMAIN queue = 1 .. Len(queue)
  BY DEF Typed
<1>2. CASE at = {}
  <2>1. q = Append(queue, last)
    BY <1>2 DEF Enqueued
  <2>2. last \in EntryRecord /\ last.id = e.id /\ last.event = e.event
    BY PredecessorIs DEF EntryRecord
  <2> HIDE DEF last, q
  <2>3. /\ q \in Seq(EntryRecord) /\ DOMAIN q = 1 .. Len(queue) + 1
        /\ \A i \in DOMAIN queue : q[i] = queue[i]
        /\ q[Len(queue) + 1] = last
    BY <1>1, <2>1, <2>2
  <2>4. \A i \in DOMAIN q \ DOMAIN queue : i = Len(queue) + 1
    BY <1>1, <2>3
  <2> QED BY <1>1, <2>2, <2>3, <2>4 DEF q
<1>3. CASE at # {}
  <2>1. q = [i \in DOMAIN queue |-> IF i \in at THEN merge(queue[i]) ELSE queue[i]]
    BY <1>3 DEF Enqueued
  <2>2. \A p \in EntryRecord : /\ merge(p) \in EntryRecord /\ merge(p).id = p.id
                               /\ merge(p).event \in {p.event, e.event}
    BY DEF EntryRecord
  <2> HIDE DEF merge, at, q
  <2>3. \A i \in DOMAIN queue : /\ q[i] \in EntryRecord /\ q[i].id = queue[i].id
                                 /\ q[i].event \in {queue[i].event, e.event}
    BY <1>1, <2>1, <2>2
  <2>4. q \in Seq(EntryRecord) /\ DOMAIN q = DOMAIN queue
    <3>1. DOMAIN q = 1 .. Len(queue) /\ q \in [1 .. Len(queue) -> EntryRecord]
      BY <1>1, <2>1, <2>3
    <3> QED BY <1>1, <3>1
  <2> QED BY <2>3, <2>4 DEF q
<1> QED BY <1>2, <1>3
-----------------------------------------------------------------------------
(* The frame                                                                *)

\* A step that gives no visit an event, and leaves the rows alone: what becomes of
\* the queue is up to the step.
LEMMA QueueStep ==
    ASSUME VisitInv, ledger' \in LedgerRecord, Agrees(ledger'),
           UNCHANGED <<store, aside>>, lineages' \subseteq lineages,
           \A k \in Plates : ledger'.ref[k] \in {None, ledger.ref[k]},
           ledger'.confirmed \subseteq ledger.confirmed,
           \A t \in Tracks : trackEvent'[t] \in {None, trackEvent[t]} \cup
                                {ledger.ref[k] : k \in Plates},
           \A k \in Plates : ledger'.missing[k] <= unseen'[k],
           Inserted \subseteq Inserted',
           \A i \in DOMAIN queue' : queue'[i].event # None => queue'[i].event \in Inserted
    PROVE  LedgerAgrees' /\ Written' /\ ConfirmedShowsPlate' /\ Counted'
<1>1. LedgerAgrees'
  BY DEF LedgerAgrees, Agrees
<1>2. Written'
  <2>1. /\ \A k \in Plates : ledger.ref[k] # None => ledger.ref[k] \in Inserted'
        /\ \A t \in Tracks : trackEvent[t] # None => trackEvent[t] \in Inserted'
        /\ \A l \in lineages : l.event \in Inserted'
        /\ \A i \in EntryIds : saved[i] # None => saved[i] \in Inserted'
        /\ \A v \in EventIds : row[v].at # None \/ row[v].plate # NoPlate => v \in Inserted'
    BY DEF VisitInv, Written
  <2>2. \A k \in Plates : ledger'.ref[k] # None => ledger'.ref[k] \in Inserted'
    BY <2>1
  <2>3. \A t \in Tracks : trackEvent'[t] # None => trackEvent'[t] \in Inserted'
    BY <2>1
  <2>4. \A i \in DOMAIN queue' : queue'[i].event # None => queue'[i].event \in Inserted'
    OBVIOUS
  <2> QED BY <2>1, <2>2, <2>3, <2>4 DEF Written, store
<1>3. ConfirmedShowsPlate'
  <2> SUFFICES ASSUME NEW k \in ledger'.confirmed
               PROVE  ledger'.ref[k] \in aside' \/ row'[ledger'.ref[k]].plate = k
    BY DEF ConfirmedShowsPlate
  <2>1. k \in Known(ledger') /\ k \in Plates
    BY DEF Agrees, LedgerRecord
  <2>2. ledger'.ref[k] = ledger.ref[k]
    BY <2>1 DEF Known
  <2> QED BY <2>2 DEF VisitInv, ConfirmedShowsPlate, store
<1> QED BY <1>1, <1>2, <1>3 DEF Counted

\* A step that leaves the queue alone too.
LEMMA FrameStep ==
    ASSUME VisitInv, ledger' \in LedgerRecord, Agrees(ledger'),
           UNCHANGED <<queue, todo, lineages, store, nextId, aside>>,
           \A k \in Plates : ledger'.ref[k] \in {None, ledger.ref[k]},
           ledger'.confirmed \subseteq ledger.confirmed,
           \A t \in Tracks : trackEvent'[t] \in {None, trackEvent[t]} \cup
                                {ledger.ref[k] : k \in Plates},
           \A k \in Plates : ledger'.missing[k] <= unseen'[k]
    PROVE  LedgerAgrees' /\ Standing' /\ Written' /\ ConfirmedShowsPlate' /\ Counted'
<1>1. Standing'
  BY DEF VisitInv, Standing
<1>2. Inserted \subseteq Inserted'
  BY DEF Inserted
<1>3. \A i \in DOMAIN queue' : queue'[i].event # None => queue'[i].event \in Inserted
  BY DEF VisitInv, Written
<1> QED BY <1>1, <1>2, <1>3, QueueStep

\* The ledger of VisitInv.
LEMMA LedgerOf ==
    ASSUME VisitInv
    PROVE  ledger \in LedgerRecord /\ Agrees(ledger) /\ Known(ledger) \subseteq Plates
BY DEF VisitInv, Typed, LedgerAgrees, Agrees, Known

\* The tracker's tracks of a frame.
LEMMA StartFrameStep ==
    ASSUME VisitInv, NEW tick \in Ticks, NEW kept \in SUBSET live,
           NEW new \in SUBSET (Tracks \ (live \cup gone)), StartFrame(tick, kept, new)
    PROVE  VisitInv' /\ ledger'.active = ledger.active
<1>1. IsUnbound(ledger, Tracks \ live', ledger')
  BY LedgerOf, UnbindIs DEF StartFrame
<1>2. Agrees(ledger')
  BY <1>1, LedgerOf, UnbindAgrees
<1>3. /\ ledger' \in LedgerRecord /\ SameVisits(ledger, ledger')
      /\ UNCHANGED <<queue, todo, failed, resolved, lineages, saved, row, nextId, aside, trackEvent, unseen>>
  BY <1>1 DEF StartFrame, IsUnbound, pass, store, history
<1>4. Typed'
  <2>1. now' \in Time
    <3>1. tick \in Nat /\ now \in Nat /\ now + tick <= MaxTime
      BY TimesAssumption DEF StartFrame, VisitInv, Typed, Time
    <3> QED BY <3>1, TimesAssumption DEF StartFrame, Time
  <2>2. /\ live' \subseteq Tracks /\ gone' \subseteq Tracks /\ leaving' \subseteq Tracks
        /\ due' \subseteq Tracks /\ retired' \subseteq Tracks /\ live' \cap gone' = {}
        /\ observed' \subseteq Plates /\ phase' = "rows"
    BY DEF StartFrame, VisitInv, Typed
  <2> QED BY <1>3, <2>1, <2>2 DEF VisitInv, Typed
<1>5. LedgerAgrees' /\ Standing' /\ Written' /\ ConfirmedShowsPlate' /\ Counted'
  <2>1. \A k \in Plates : ledger'.missing[k] <= unseen'[k]
    BY <1>3 DEF SameVisits, VisitInv, Counted
  <2> QED BY <1>2, <1>3, <2>1, FrameStep DEF SameVisits, store
<1> QED BY <1>3, <1>4, <1>5 DEF VisitInv, SameVisits

\* A reading of the frame.
LEMMA ObserveRowStep ==
    ASSUME VisitInv, NEW t \in Tracks, NEW reading, ObserveRow(t, reading)
    PROVE  VisitInv' /\ ledger.active \subseteq ledger'.active
<1> DEFINE conflict == Conflicts(ledger, t, reading)
           freed    == IF conflict THEN Unbind(ledger, {t}) ELSE ledger
           visit    == VisitOf(freed, t, reading)
           B        == Bind(freed, {t}, visit)
<1>0. ledger \in LedgerRecord /\ Agrees(ledger)
  BY LedgerOf
<1>1. freed \in LedgerRecord /\ Agrees(freed) /\ SameVisits(ledger, freed)
  <2>1. IsUnbound(ledger, {t}, Unbind(ledger, {t}))
    BY <1>0, UnbindIs
  <2>2. Agrees(Unbind(ledger, {t}))
    BY <1>0, <2>1, UnbindAgrees
  <2> QED BY <1>0, <2>1, <2>2 DEF IsUnbound, SameVisits
<1>2. /\ UNCHANGED <<queue, todo, failed, resolved, lineages, saved, row, nextId, aside, trackEvent,
                     now, phase, live, gone, leaving>>
      /\ due' \subseteq due /\ retired' \subseteq retired \cup {t}
      /\ IF visit \in Known(freed)
         THEN /\ ledger' = [Touch(B, visit, now) EXCEPT !.box[visit] = t]
              /\ observed' = observed \cup {visit}
              /\ unseen' = [unseen EXCEPT ![visit] = 0]
         ELSE ledger' = freed /\ UNCHANGED <<observed, unseen>>
  BY DEF ObserveRow, pass, store
<1> HIDE DEF conflict, freed, visit
<1>3. CASE visit \notin Known(freed)
  <2>1. Typed'
    BY <1>1, <1>2, <1>3 DEF VisitInv, Typed
  <2>2. \A k \in Plates : ledger'.missing[k] <= unseen'[k]
    BY <1>1, <1>2, <1>3 DEF SameVisits, VisitInv, Counted
  <2> QED BY <1>1, <1>2, <1>3, <2>1, <2>2, FrameStep DEF SameVisits, store, VisitInv
<1>4. CASE visit \in Known(freed)
  <2>1. visit \in Plates /\ now \in Time
    BY <1>4 DEF Known, VisitInv, Typed
  <2>2. IsBound(freed, {t}, visit, B)
    BY <1>1, <2>1, BindIs
  <2>3. Agrees(B)
    BY <1>1, <1>4, <2>1, <2>2, BindAgrees
  <2>4. B \in LedgerRecord /\ SameVisits(freed, B)
    BY <2>2 DEF IsBound
  <2>5. IsTouched(B, visit, ledger')
    BY <1>2, <1>4, <2>1, <2>4, TouchIs
  <2>6. visit \in Known(B)
    BY <1>4, <2>4 DEF Known, SameVisits
  <2>7. Agrees(ledger')
    BY <2>3, <2>4, <2>5, <2>6, TouchAgrees
  <2> HIDE DEF B
  <2>8. /\ ledger' \in LedgerRecord /\ ledger'.ref = ledger.ref /\ ledger'.confirmed = ledger.confirmed
        /\ ledger.active \subseteq ledger'.active
        /\ \A k \in Plates : ledger'.missing[k] = IF k = visit THEN 0 ELSE ledger.missing[k]
    BY <1>1, <2>4, <2>5 DEF IsTouched, SameVisits
  <2>9. unseen' \in [Plates -> Nat] /\ \A k \in Plates : unseen'[k] = IF k = visit THEN 0 ELSE unseen[k]
    <3>1. unseen \in [Plates -> Nat]
      BY DEF VisitInv, Typed
    <3>2. unseen' = [unseen EXCEPT ![visit] = 0]
      BY <1>2, <1>4
    <3> QED BY <2>1, <3>1, <3>2
  <2>10. Typed'
    BY <1>2, <1>4, <2>1, <2>8, <2>9 DEF VisitInv, Typed
  <2>11. \A k \in Plates : ledger'.missing[k] <= unseen'[k]
    BY <2>8, <2>9 DEF VisitInv, Counted
  <2> QED BY <1>2, <2>7, <2>8, <2>10, <2>11, FrameStep DEF store, VisitInv
<1> QED BY <1>3, <1>4

\* The end of observe().
LEMMA ObserveEndStep ==
    ASSUME VisitInv, ObserveEnd
    PROVE  /\ VisitInv'
           /\ \A k \in ledger.confirmed \cap ledger.active :
                k \in ledger'.active \/ unseen'[k] >= AbsenceObservations
<1> DEFINE L       == ledger
           missed  == L.active \ observed
           missing == [k \in Plates |-> IF k \in missed THEN L.missing[k] + 1 ELSE L.missing[k]]
           absent  == [k \in Plates |-> IF k \in missed /\ L.absent[k] = None THEN now ELSE L.absent[k]]
           over    == {k \in missed : /\ missing[k] >= AbsenceObservations
                                      /\ now - absent[k] >= AbsenceTime}
           ended   == UNION {L.tracks[k] : k \in over}
           U       == Unbind(L, ended)
           m       == [k \in Plates |-> IF k \in over THEN 0 ELSE missing[k]]
           b       == [k \in Plates |-> IF k \in over THEN None ELSE absent[k]]
           closed  == [U EXCEPT !.active = @ \ over, !.missing = m, !.absent = b]
           stale   == {k \in Known(L) \ closed.active : now - L.seen[k] >= Cooldown}
           out     == retired \cup ended
<1>0. L \in LedgerRecord /\ Agrees(L) /\ Known(L) \subseteq Plates /\ now \in Time /\ None \in Time
  <2>1. now \in Time
    BY DEF VisitInv, Typed
  <2>2. None \in Time
    BY TimesAssumption DEF None, Time
  <2> QED BY <2>1, <2>2, LedgerOf
<1>1. U \in LedgerRecord /\ SameVisits(L, U) /\ Agrees(U)
  <2>1. IsUnbound(L, ended, U)
    BY <1>0, UnbindIs
  <2>2. Agrees(U)
    BY <1>0, <2>1, UnbindAgrees
  <2> QED BY <2>1, <2>2 DEF IsUnbound
<1>2. over \subseteq missed /\ missed \subseteq L.active /\ missed \subseteq Plates
  BY <1>0 DEF LedgerRecord
<1>3. missing \in [Plates -> Nat] /\ absent \in [Plates -> Time]
  BY <1>0 DEF LedgerRecord
<1>4. m \in [Plates -> Nat] /\ b \in [Plates -> Time]
  BY <1>0, <1>3
<1> DEFINE next == Forget(closed, stale)
<1>19. /\ phase = "rows" /\ phase' = "emit" /\ ledger' = next
       /\ live' = live \ out /\ gone' = gone \cup out
       /\ due' = live \cup leaving /\ leaving' = {}
       /\ trackEvent' = [t \in Tracks |->
                           IF next.key[t] \in Known(next) THEN next.ref[next.key[t]]
                           ELSE IF t \in out THEN None ELSE trackEvent[t]]
       /\ observed' = {} /\ retired' = {}
       /\ unseen' = [k \in Plates |-> IF k \in missed THEN unseen[k] + 1 ELSE unseen[k]]
       /\ UNCHANGED <<now, queue, pass, lineages, store, nextId, faults, aside>>
  BY Zenon DEF ObserveEnd
<1>6. ended \subseteq Tracks
  <2>1. \A k \in Plates : L.tracks[k] \subseteq Tracks
    BY <1>0 DEF LedgerRecord
  <2> HIDE DEF missed, over
  <2> QED BY <1>2, <2>1
<1> HIDE DEF next, out
<1>5. /\ ledger' = next /\ phase' = "emit" /\ phase = "rows"
      /\ live' = live \ out /\ gone' = gone \cup out /\ due' = live \cup leaving /\ leaving' = {}
      /\ trackEvent' = [t \in Tracks |->
                          IF ledger'.key[t] \in Known(ledger') THEN ledger'.ref[ledger'.key[t]]
                          ELSE IF t \in out THEN None ELSE trackEvent[t]]
      /\ observed' = {} /\ retired' = {}
      /\ unseen' = [k \in Plates |-> IF k \in missed THEN unseen[k] + 1 ELSE unseen[k]]
      /\ UNCHANGED <<now, queue, pass, lineages, store, nextId, faults, aside>>
  BY <1>19
<1> HIDE DEF U, m, b, ended
<1>7. /\ closed \in LedgerRecord /\ closed.ref = L.ref /\ closed.confirmed = L.confirmed
      /\ closed.active = L.active \ over /\ closed.missing = m
      /\ closed.key = U.key /\ closed.tracks = U.tracks
  <2>1. U.active \ over \in SUBSET Plates
    BY <1>1 DEF LedgerRecord
  <2>2. /\ closed \in LedgerRecord /\ closed.ref = U.ref /\ closed.confirmed = U.confirmed
        /\ closed.active = U.active \ over /\ closed.missing = m
        /\ closed.key = U.key /\ closed.tracks = U.tracks
    BY <1>1, <1>4, <2>1 DEF LedgerRecord
  <2> QED BY <1>1, <2>2 DEF SameVisits
<1> HIDE DEF closed
<1>8. Agrees(closed)
  <2>1. Known(closed) = Known(U)
    BY <1>1, <1>7 DEF Known, SameVisits
  <2> QED BY <1>1, <1>7, <2>1 DEF Agrees, SameVisits
<1>9. stale \in SUBSET Plates /\ \A k \in stale : k \notin closed.active
  BY <1>0
<1> HIDE DEF stale
<1>10. IsForgotten(closed, stale, ledger')
  BY <1>5, <1>7, <1>8, <1>9, ForgetIs DEF next
<1>11. Agrees(ledger')
  BY <1>7, <1>8, <1>9, <1>10, ForgetAgrees
<1>12. /\ ledger' \in LedgerRecord
       /\ \A k \in Plates : ledger'.ref[k] \in {None, L.ref[k]}
       /\ ledger'.confirmed \subseteq L.confirmed
       /\ ledger'.active = L.active \ over
       /\ \A k \in Plates : ledger'.missing[k] <= missing[k]
  <2>1. ledger'.active = closed.active
    BY <1>9, <1>10 DEF IsForgotten
  <2>2. \A k \in Plates : ledger'.missing[k] \in {0, m[k]}
    BY <1>7, <1>10 DEF IsForgotten
  <2>3. \A k \in Plates : m[k] \in {0, missing[k]}
    BY DEF m
  <2>4. \A k \in Plates : ledger'.missing[k] \in {0, missing[k]} /\ missing[k] \in Nat
    BY <1>3, <2>2, <2>3
  <2>5. \A k \in Plates : ledger'.ref[k] \in {None, L.ref[k]}
    BY <1>7, <1>10 DEF IsForgotten
  <2> HIDE DEF missing, over
  <2>6. \A k \in Plates : ledger'.missing[k] <= missing[k]
    BY <2>4
  <2> QED BY <1>7, <1>10, <2>1, <2>5, <2>6 DEF IsForgotten
<1>13. \A k \in Plates : missing[k] <= unseen'[k] /\ unseen'[k] \in Nat
  <2> SUFFICES ASSUME NEW k \in Plates PROVE missing[k] <= unseen'[k] /\ unseen'[k] \in Nat
    OBVIOUS
  <2>1. L.missing[k] \in Nat /\ unseen[k] \in Nat /\ L.missing[k] <= unseen[k]
    BY <1>0 DEF LedgerRecord, VisitInv, Typed, Counted
  <2> QED BY <1>5, <2>1
<1>14. \A k \in Plates : ledger'.missing[k] <= unseen'[k]
  <2>1. \A k \in Plates : ledger'.missing[k] \in Nat /\ missing[k] \in Nat
    BY <1>3, <1>12 DEF LedgerRecord
  <2> QED BY <1>12, <1>13, <2>1
<1>15. \A t \in Tracks : trackEvent'[t] \in {None, trackEvent[t]} \cup {ledger.ref[k] : k \in Plates}
  <2> SUFFICES ASSUME NEW t \in Tracks, ledger'.key[t] \in Known(ledger')
               PROVE  trackEvent'[t] \in {ledger.ref[k] : k \in Plates}
    BY <1>5
  <2>1. ledger'.key[t] \in Plates /\ ledger'.ref[ledger'.key[t]] # None
    BY DEF Known
  <2> QED BY <1>5, <1>12, <2>1
<1>16. Typed'
  <2>1. /\ live' \subseteq Tracks /\ gone' \subseteq Tracks /\ leaving' \subseteq Tracks
        /\ due' \subseteq Tracks /\ retired' \subseteq Tracks /\ live' \cap gone' = {}
        /\ observed' \subseteq Plates /\ phase' = "emit" /\ now' \in Time
    BY <1>0, <1>5, <1>6 DEF VisitInv, Typed, out
  <2>2. trackEvent' \in [Tracks -> Refs]
    <3>1. \A k \in Plates : ledger.ref[k] \in Refs
      BY <1>0 DEF LedgerRecord
    <3>2. \A t \in Tracks : trackEvent[t] \in Refs
      BY DEF VisitInv, Typed
    <3>3. None \in Refs
      BY DEF Refs
    <3>4. \A t \in Tracks : trackEvent'[t] \in Refs
      BY <1>15, <3>1, <3>2, <3>3
    <3> QED BY <1>5, <3>4
  <2>3. unseen' \in [Plates -> Nat]
    BY <1>5, <1>13
  <2> QED BY <1>5, <1>12, <2>1, <2>2, <2>3 DEF VisitInv, Typed, pass, store
<1>17. LedgerAgrees' /\ Standing' /\ Written' /\ ConfirmedShowsPlate' /\ Counted'
  BY <1>5, <1>11, <1>12, <1>14, <1>15, FrameStep DEF pass
<1>18. \A k \in over : unseen'[k] >= AbsenceObservations
  <2>1. \A k \in over : k \in Plates /\ missing[k] >= AbsenceObservations
    BY <1>2
  <2>2. \A k \in Plates : missing[k] \in Nat /\ AbsenceObservations \in Nat
    BY <1>3, TimesAssumption
  <2> QED BY <1>13, <2>1, <2>2
<1> QED BY <1>12, <1>16, <1>17, <1>18 DEF VisitInv


-----------------------------------------------------------------------------
(* The results                                                              *)

\* A stable result of the frame.
LEMMA EmitStep ==
    ASSUME VisitInv, NEW t \in Tracks, NEW reading \in Results, Emit(t, reading)
    PROVE  VisitInv' /\ ledger.active \subseteq ledger'.active
<1> DEFINE bound    == IF /\ trackEvent[t] # None
                          /\ CanReuse(ledger, t, reading) THEN trackEvent[t] ELSE None
           key      == reading.key
           reusable == key # NoPlate /\ Reusable(ledger, key)
           event    == IF reusable THEN ledger.ref[key] ELSE bound
           ignored  == event # None /\ (~reading.stable \/ key = NoPlate)
           entry    == [id |-> nextId, track |-> t, reading |-> reading, time |-> now,
                        event |-> event, pred |-> None, tried |-> FALSE,
                        current |-> TRUE]
           B        == Bind(ledger, {t}, key)
<1>0. ledger \in LedgerRecord /\ Agrees(ledger) /\ now \in Time
  BY LedgerOf DEF VisitInv, Typed
<1>1. /\ nextId =< MaxEntries /\ due' = due \ {t}
      /\ trackEvent' = IF trackEvent[t] # bound
                        THEN [trackEvent EXCEPT ![t] = None] ELSE trackEvent
      /\ IF reusable
         THEN /\ ledger' = Touch(B, key, now)
              /\ unseen' = [unseen EXCEPT ![key] = 0]
         ELSE UNCHANGED <<ledger, unseen>>
      /\ IF ignored THEN UNCHANGED <<queue, nextId>>
         ELSE queue' = Enqueued(entry) /\ nextId' = nextId + 1
      /\ UNCHANGED <<now, phase, live, gone, leaving, observed, retired, todo, failed, resolved,
                     lineages, saved, row, faults, aside>>
  BY DEF Emit, pass, store
<1>2. reusable => key \in Plates /\ key \in Known(ledger)
  BY DEF Reusable, Known
<1>3. event \in Refs /\ (event # None => event \in Inserted)
  <2>1. bound \in Refs /\ (bound # None => bound \in Inserted)
    BY DEF VisitInv, Typed, Written, Refs
  <2>2. reusable => ledger.ref[key] \in Refs /\ (ledger.ref[key] # None => ledger.ref[key] \in Inserted)
    BY <1>0, <1>2 DEF LedgerRecord, VisitInv, Written
  <2> HIDE DEF bound, reusable
  <2> QED BY <2>1, <2>2
<1>4. entry \in EntryRecord /\ entry.id = nextId /\ entry.event = event
  <2>1. nextId \in EntryIds /\ None \in EntryIds \cup {None}
    BY <1>1 DEF VisitInv, Typed, EntryIds
  <2> HIDE DEF event
  <2> QED BY <1>0, <1>3, <2>1 DEF EntryRecord
<1> HIDE DEF bound, event, ignored, entry, key, reusable
<1>5. /\ trackEvent' \in [Tracks -> Refs]
      /\ \A u \in Tracks : trackEvent'[u] \in {None, trackEvent[u]}
  BY <1>1 DEF VisitInv, Typed, Refs
<1>6. /\ ledger' \in LedgerRecord /\ Agrees(ledger')
      /\ ledger'.ref = ledger.ref /\ ledger'.confirmed = ledger.confirmed
      /\ ledger.active \subseteq ledger'.active
      /\ unseen' \in [Plates -> Nat] /\ \A k \in Plates : ledger'.missing[k] <= unseen'[k]
  <2>1. CASE reusable
    <3>1. IsBound(ledger, {t}, key, B)
      BY <1>0, <1>2, <2>1, BindIs
    <3>2. Agrees(B)
      BY <1>0, <1>2, <2>1, <3>1, BindAgrees
    <3>3. B \in LedgerRecord /\ SameVisits(ledger, B)
      BY <3>1 DEF IsBound
    <3>4. IsTouched(B, key, ledger')
      BY <1>0, <1>1, <1>2, <2>1, <3>3, TouchIs
    <3>5. key \in Known(B)
      BY <1>2, <2>1, <3>3 DEF Known, SameVisits
    <3>6. Agrees(ledger')
      BY <3>2, <3>3, <3>4, <3>5, TouchAgrees
    <3> HIDE DEF B
    <3>7. /\ ledger' \in LedgerRecord /\ ledger'.ref = ledger.ref
          /\ ledger'.confirmed = ledger.confirmed /\ ledger.active \subseteq ledger'.active
          /\ \A k \in Plates : ledger'.missing[k] = IF k = key THEN 0 ELSE ledger.missing[k]
      BY <3>3, <3>4 DEF IsTouched, SameVisits
    <3>8. /\ unseen' \in [Plates -> Nat]
          /\ \A k \in Plates : unseen'[k] = IF k = key THEN 0 ELSE unseen[k]
      BY <1>1, <1>2, <2>1 DEF VisitInv, Typed
    <3>9. \A k \in Plates : ledger'.missing[k] <= unseen'[k]
      BY <3>7, <3>8 DEF VisitInv, Counted
    <3> QED BY <3>6, <3>7, <3>8, <3>9
  <2>2. CASE ~reusable
    BY <1>0, <1>1, <2>2 DEF VisitInv, Typed, Counted
  <2> QED BY <2>1, <2>2
<1>7. /\ queue' \in Seq(EntryRecord) /\ nextId' \in 1 .. MaxEntries + 1 /\ Standing'
      /\ Inserted \subseteq Inserted'
      /\ \A i \in DOMAIN queue' : queue'[i].event # None => queue'[i].event \in Inserted
  <2>1. CASE ignored
    <3>1. UNCHANGED <<queue, nextId, todo>>
      BY <1>1, <2>1
    <3>2. queue' \in Seq(EntryRecord) /\ nextId' \in 1 .. MaxEntries + 1
      BY <3>1 DEF VisitInv, Typed
    <3>3. Standing'
      BY <3>1 DEF VisitInv, Standing
    <3>4. Inserted' = Inserted
      BY <3>1 DEF Inserted
    <3> QED BY <3>1, <3>2, <3>3, <3>4 DEF VisitInv, Written
  <2>2. CASE ~ignored
    <3>0. Typed /\ nextId \in Nat /\ nextId >= 1 /\ MaxEntries \in Nat
      <4>1. MaxEntries \in Nat
        BY TimesAssumption
      <4>2. nextId \in 1 .. MaxEntries + 1
        BY DEF VisitInv, Typed
      <4> QED BY <4>1, <4>2 DEF VisitInv
    <3>1. /\ queue' \in Seq(EntryRecord)
          /\ DOMAIN queue' \in {DOMAIN queue, 1 .. Len(queue) + 1}
          /\ \A i \in DOMAIN queue : i \in DOMAIN queue' /\ queue'[i].id = queue[i].id
          /\ \A i \in DOMAIN queue : queue'[i].event \in {queue[i].event, event}
          /\ \A i \in DOMAIN queue' \ DOMAIN queue : queue'[i].id = nextId /\ queue'[i].event = event
      <4>1. queue' = Enqueued(entry)
        BY <1>1, <2>2
      <4> QED BY <1>4, <3>0, <4>1, EnqueuedIs
    <3>2. nextId' = nextId + 1 /\ nextId' \in 1 .. MaxEntries + 1
      BY <1>1, <2>2, <3>0
    <3>3. Len(queue) \in Nat /\ DOMAIN queue = 1 .. Len(queue)
      BY DEF VisitInv, Typed
    <3>4. \A i, j \in DOMAIN queue' \ DOMAIN queue : i = j
      BY <3>1, <3>3
    <3>5. \A i \in DOMAIN queue : queue[i].id < nextId /\ queue[i].id \in Int
      <4>1. \A i \in DOMAIN queue : queue[i] \in EntryRecord
        BY <3>0 DEF Typed
      <4>2. \A i \in DOMAIN queue : queue[i].id \in EntryIds
        BY <4>1, EntryFields
      <4> QED BY <4>2 DEF VisitInv, Standing, EntryIds
    <3>6. \A i, j \in DOMAIN queue' : queue'[i].id = queue'[j].id => i = j
      BY <3>0, <3>1, <3>4, <3>5 DEF VisitInv, Standing
    <3>7. \A i \in DOMAIN queue' : queue'[i].id < nextId'
      BY <3>0, <3>1, <3>2, <3>5
    <3>8. Standing'
      BY <1>1, <3>1, <3>6, <3>7 DEF VisitInv, Standing
    <3>9. Inserted \subseteq Inserted'
      <4> SUFFICES ASSUME NEW v \in Inserted PROVE v \in Inserted'
        OBVIOUS
      <4>1. v \in EventIds /\ v < nextId /\ v \in Int
        BY DEF Inserted, EventIds
      <4>2. \A i \in DOMAIN queue' : queue'[i].id # v
        BY <3>0, <3>1, <4>1 DEF Inserted
      <4> QED BY <3>0, <3>2, <4>1, <4>2 DEF Inserted
    <3>10. \A i \in DOMAIN queue' : queue'[i].event # None => queue'[i].event \in Inserted
      <4>1. \A i \in DOMAIN queue' : queue'[i].event = event \/ (i \in DOMAIN queue /\ queue'[i].event = queue[i].event)
        BY <3>1
      <4>2. \A i \in DOMAIN queue : queue[i].event # None => queue[i].event \in Inserted
        BY DEF VisitInv, Written
      <4> QED BY <1>3, <4>1, <4>2
    <3> QED BY <3>1, <3>2, <3>8, <3>9, <3>10
  <2> QED BY <2>1, <2>2
<1>8. Typed'
  <2>1. due' \subseteq Tracks
    BY <1>1 DEF VisitInv, Typed
  <2> QED BY <1>1, <1>5, <1>6, <1>7, <2>1 DEF VisitInv, Typed
<1>9. LedgerAgrees' /\ Written' /\ ConfirmedShowsPlate' /\ Counted'
  BY <1>1, <1>5, <1>6, <1>7, QueueStep DEF store
<1> QED BY <1>6, <1>7, <1>8, <1>9 DEF VisitInv

-----------------------------------------------------------------------------
(* The drain                                                                *)

\* The start of a drain: everything that is queued is to be tried.
LEMMA DrainStep ==
    ASSUME VisitInv, Drain
    PROVE  VisitInv'
<1>1. /\ UNCHANGED <<ledger, now, live, gone, leaving, observed, retired, trackEvent,
                     queue, lineages, saved, row, nextId, faults, unseen, aside>>
      /\ phase' \in {"commit", "pump"} /\ due' = {} /\ failed' = {} /\ resolved' = <<>>
      /\ todo' = [i \in DOMAIN queue |-> queue[i].id]
  BY DEF Drain, store, history
<1>2. todo' \in Seq(EntryIds) /\ DOMAIN todo' = DOMAIN queue
  <2>1. queue \in Seq(EntryRecord) /\ \A i \in DOMAIN queue : queue[i] \in EntryRecord
    BY DEF VisitInv, Typed
  <2>2. \A i \in DOMAIN queue : queue[i].id \in EntryIds
    BY <2>1, EntryFields
  <2>3. Len(queue) \in Nat /\ DOMAIN queue = 1 .. Len(queue)
    BY <2>1
  <2>4. todo' \in [1 .. Len(queue) -> EntryIds]
    BY <1>1, <2>2, <2>3
  <2> QED BY <1>1, <2>3, <2>4
<1>3. Typed'
  BY <1>1, <1>2 DEF VisitInv, Typed
<1>4. Standing'
  BY <1>1, <1>2 DEF VisitInv, Standing
<1>5. LedgerAgrees' /\ Written' /\ ConfirmedShowsPlate' /\ Counted'
  BY <1>1 DEF VisitInv, LedgerAgrees, Known, Written, Inserted, ConfirmedShowsPlate, Counted
<1> QED BY <1>3, <1>4, <1>5 DEF VisitInv

\* The entry the drain tries next is in the queue.
LEMMA HeadIs ==
    ASSUME Typed, Standing, todo # <<>>
    PROVE  \E j \in DOMAIN queue : /\ queue[j].id = Head(todo)
                                   /\ Entry(Head(todo)) = queue[j] /\ queue[j] \in EntryRecord
<1>1. 1 \in DOMAIN todo /\ Head(todo) = todo[1]
  BY DEF Typed
<1>2. PICK j \in DOMAIN queue : queue[j].id = Head(todo)
  BY <1>1 DEF Standing
<1> QED BY <1>2, EntryIs

\* What is left to try after the first entry.
LEMMA TailIs ==
    ASSUME Typed, Standing, todo # <<>>
    PROVE  /\ Tail(todo) \in Seq(EntryIds)
           /\ \A i \in DOMAIN Tail(todo) : /\ i + 1 \in DOMAIN todo /\ Tail(todo)[i] = todo[i + 1]
                                           /\ Tail(todo)[i] # Head(todo)
           /\ \A i, k \in DOMAIN Tail(todo) : Tail(todo)[i] = Tail(todo)[k] => i = k
<1>1. todo \in Seq(EntryIds) /\ Len(todo) \in Nat /\ Len(todo) > 0 /\ DOMAIN todo = 1 .. Len(todo)
  BY DEF Typed
<1>2. /\ Tail(todo) \in Seq(EntryIds) /\ DOMAIN Tail(todo) = 1 .. Len(todo) - 1
      /\ \A i \in 1 .. Len(todo) - 1 : Tail(todo)[i] = todo[i + 1]
      /\ Head(todo) = todo[1]
  BY <1>1
<1>3. ASSUME NEW i \in DOMAIN Tail(todo)
      PROVE  i \in Nat /\ i > 0 /\ i + 1 \in DOMAIN todo /\ Tail(todo)[i] = todo[i + 1]
  BY <1>1, <1>2
<1>4. ASSUME NEW i \in DOMAIN Tail(todo) PROVE Tail(todo)[i] # Head(todo)
  <2>1. 1 \in DOMAIN todo
    BY <1>1
  <2> QED BY <1>2, <1>3, <2>1 DEF Standing
<1>5. ASSUME NEW i \in DOMAIN Tail(todo), NEW k \in DOMAIN Tail(todo), Tail(todo)[i] = Tail(todo)[k]
      PROVE  i = k
  <2>1. i + 1 = k + 1
    BY <1>3, <1>5 DEF Standing
  <2> QED BY <1>3, <2>1
<1> QED BY <1>2, <1>3, <1>4, <1>5

\* An entry is sent to an event that was inserted, or to none.
LEMMA ResolvedIs ==
    ASSUME VisitInv, NEW j \in DOMAIN queue
    PROVE  ResolvedEvent(queue[j]) \in Refs /\ ResolvedEvent(queue[j]) \in Inserted \cup {None}
<1> DEFINE e == queue[j]
           follows(r) == r.current = e.current /\ (r.track = e.track \/ CanFollow(r, e))
           fit == {i \in DOMAIN resolved : follows(resolved[i])}
           wrote == Chosen(resolved, e, fit)
           target == Inserted \cup {None}
<1>0. e \in EntryRecord /\ Inserted \subseteq Refs /\ None \in Refs
  BY DEF VisitInv, Typed, Inserted, Refs
<1>1. e.event \in target /\ \A t \in Tracks : trackEvent[t] \in target
  BY DEF VisitInv, Written
<1>2. \A i \in EntryIds : saved[i] \in target
  BY DEF VisitInv, Written
<1>3. \A r \in wrote : r.id \in EntryIds
  <2>1. resolved \in Seq(EntryRecord) /\ fit \in SUBSET DOMAIN resolved
    BY DEF VisitInv, Typed
  <2>2. \A i \in fit : resolved[i] \in EntryRecord
    BY <2>1
  <2> HIDE DEF fit
  <2>3. wrote \subseteq {resolved[i] : i \in fit}
    BY <2>1, ChosenIs
  <2> HIDE DEF wrote
  <2>4. \A r \in wrote : r \in EntryRecord
    BY <2>2, <2>3
  <2> QED BY <2>4, EntryFields
<1>4. OwnEvent(e) \in target
  <2>1. OwnEvent(e) = IF e.event # None THEN e.event
                      ELSE IF wrote # {} THEN saved[(CHOOSE r \in wrote : TRUE).id]
                      ELSE IF /\ e.current /\ trackEvent[e.track] # None
                              /\ CanReuse(ledger, e.track, e.reading) THEN trackEvent[e.track]
                      ELSE None
    BY DEF OwnEvent
  <2>2. e.track \in Tracks
    BY <1>0, EntryFields
  <2>3. wrote # {} => (CHOOSE r \in wrote : TRUE) \in wrote
    <3> HIDE DEF wrote
    <3> QED OBVIOUS
  <2> HIDE DEF wrote, target, e
  <2>4. wrote # {} => saved[(CHOOSE r \in wrote : TRUE).id] \in target
    BY <1>2, <1>3, <2>3
  <2>5. None \in target
    BY DEF target
  <2> QED BY <1>1, <2>1, <2>2, <2>4, <2>5
<1>5. UsesBridge(e) => (CHOOSE l \in Bridges(e) : TRUE).event \in target
  <2> SUFFICES ASSUME UsesBridge(e) PROVE (CHOOSE l \in Bridges(e) : TRUE).event \in target
    OBVIOUS
  <2>1. Bridges(e) # {}
    BY FS_EmptySet DEF UsesBridge
  <2>2. (CHOOSE l \in Bridges(e) : TRUE) \in Bridges(e)
    BY <2>1
  <2>3. Bridges(e) \subseteq lineages
    BY DEF Bridges
  <2>4. \A l \in lineages : l.event \in target
    BY DEF VisitInv, Written
  <2> QED BY <2>2, <2>3, <2>4
<1>6. e.pred # None => saved[e.pred] \in target
  BY <1>0, <1>2, EntryFields
<1> HIDE DEF e, target
<1>7. ResolvedEvent(e) \in target
  <2>1. None \in target
    BY DEF target
  <2> QED BY <1>4, <1>5, <1>6, <2>1 DEF ResolvedEvent
<1> QED BY <1>0, <1>7 DEF e, target

\* The event a strict result joins exists, and shows its plate.
LEMMA RecentIs ==
    ASSUME VisitInv, NEW e \in EntryRecord, Recent(e) # None
    PROVE  Recent(e) \in Inserted /\ row[Recent(e)].plate = e.reading.key
<1> DEFINE fit == {v \in EventIds :
                  /\ row[v].at # None /\ row[v].plate = e.reading.key
                  /\ row[v].at >= e.time - Larger(Cooldown, Window)
                  /\ row[v].at =< e.time + Window}
           good(v) == \A w \in fit : row[w].at < row[v].at \/ (row[w].at = row[v].at /\ w =< v)
           times == {row[v].at : v \in fit}
<1>1. fit # {} /\ Recent(e) = CHOOSE v \in fit : good(v)
  BY DEF Recent
<1>2. /\ fit \subseteq EventIds
      /\ \A v \in fit : row[v].at \in 0 .. MaxTime /\ row[v].at # None /\ row[v].plate = e.reading.key
  BY DEF VisitInv, Typed, Time
<1> HIDE DEF fit
<1>3. \E v \in fit : good(v)
  <2>1. times \in SUBSET (0 .. MaxTime) /\ times # {} /\ MaxTime \in Nat /\ MaxEntries \in Nat
    BY <1>1, <1>2, TimesAssumption
  <2> HIDE DEF times
  <2>2. PICK s \in times : \A r \in times : r <= s
    BY <2>1, LargestExists
  <2> DEFINE newest == {v \in fit : row[v].at = s}
  <2>3. newest \in SUBSET (0 .. MaxEntries) /\ newest # {}
    <3>1. PICK v \in fit : row[v].at = s
      BY <2>2 DEF times
    <3>2. EventIds \subseteq 0 .. MaxEntries
      BY <2>1 DEF EventIds
    <3> QED BY <1>2, <3>1, <3>2
  <2>4. \A w \in fit : row[w].at <= s /\ row[w].at \in Int
    BY <1>2, <2>1, <2>2 DEF times
  <2>5. \A v \in newest : v \in fit /\ row[v].at = s
    OBVIOUS
  <2>6. \A w \in fit : row[w].at = s => w \in newest
    OBVIOUS
  <2> HIDE DEF newest
  <2>7. PICK v \in newest : \A w \in newest : w <= v
    BY <2>1, <2>3, LargestExists
  <2>8. s \in Int
    BY <2>1
  <2>9. ASSUME NEW w \in fit PROVE row[w].at < row[v].at \/ (row[w].at = row[v].at /\ w =< v)
    <3>1. row[v].at = s /\ row[w].at <= s /\ row[w].at \in Int
      BY <2>4, <2>5, <2>7
    <3>2. CASE row[w].at = s
      BY <2>6, <2>7, <3>1, <3>2
    <3>3. CASE row[w].at # s
      BY <2>8, <3>1, <3>3
    <3> QED BY <3>2, <3>3
  <2> QED BY <2>5, <2>7, <2>9
<1>4. Recent(e) \in fit
  <2> HIDE DEF good
  <2> QED BY <1>1, <1>3
<1>5. \A v \in EventIds : row[v].at # None => v \in Inserted
  BY DEF VisitInv, Written
<1> QED BY <1>2, <1>4, <1>5

\* What a write makes of the rows: it changes at most the row of the event the
\* entry ends up with, whose plate it leaves alone if there is one; and that
\* event shows the plate of a strict entry, unless it was inserted aside.
LEMMA PersistedIs ==
    ASSUME VisitInv, NEW j \in DOMAIN queue, NEW event \in Inserted \cup {None}
    PROVE  LET e == queue[j]
               r == Persisted(e, event)
           IN  /\ r.event \in EventIds /\ r.event \in Inserted \cup {e.id}
               /\ r.row \in [EventIds -> [plate : Plates \cup {NoPlate}, at : Time]]
               /\ \A v \in EventIds : r.row[v] = row[v] \/ v = r.event
               /\ \A v \in EventIds : row[v].plate # NoPlate => r.row[v].plate = row[v].plate
               /\ e.reading.strict => r.aside \/ r.row[r.event].plate = e.reading.key
<1> DEFINE e        == queue[j]
           target   == IF event = None /\ e.reading.strict /\ e.current
                       THEN Recent(e) ELSE event
           shown    == IF target = None THEN NoPlate ELSE row[target].plate
           incoming == IF e.reading.strict THEN e.reading.key ELSE NoPlate
           conflict == shown \notin {NoPlate, incoming}
           kept     == \/ (conflict /\ incoming = NoPlate)
                       \/ (~conflict /\ shown # NoPlate /\ row[target].at > e.time)
           event2   == IF target = None \/ (conflict /\ ~kept) THEN e.id ELSE target
           plate    == IF conflict THEN NoPlate ELSE incoming
           at       == IF event2 = target THEN Larger(e.time, row[target].at) ELSE e.time
           r        == Persisted(e, event)
<1>1. /\ e \in EntryRecord /\ e.time \in Time /\ e.id \in EventIds /\ e.reading \in Results
      /\ Inserted \subseteq EventIds /\ None \notin EventIds
  <2>1. e \in EntryRecord
    BY DEF VisitInv, Typed
  <2>2. Inserted \subseteq EventIds /\ None \notin EventIds
    BY DEF Inserted, EventIds, None
  <2> QED BY <2>1, <2>2, EntryFields DEF EntryIds, EventIds
<1>2. /\ row \in [EventIds -> [plate : Plates \cup {NoPlate}, at : Time]]
      /\ row[e.id].plate = NoPlate
  <2>1. e.id \notin Inserted
    BY DEF Inserted
  <2> QED BY <1>1, <2>1 DEF VisitInv, Typed, Written
<1>3. target \in Inserted \cup {None}
  BY <1>1, RecentIs
<1>4. incoming \in Plates \cup {NoPlate} /\ (e.reading.strict => incoming = e.reading.key /\ incoming # NoPlate)
  BY <1>1, ReadingKeys
<1>5. /\ r.event = event2 /\ r.aside = (conflict /\ ~kept)
      /\ r.row = IF kept THEN row ELSE [row EXCEPT ![event2] = [plate |-> plate, at |-> at]]
  BY DEF Persisted
<1> HIDE DEF target, incoming, r
<1>6. shown \in Plates \cup {NoPlate} /\ (target = None => shown = NoPlate)
  BY <1>1, <1>2, <1>3
<1>7. event2 \in EventIds /\ event2 \in Inserted \cup {e.id}
  BY <1>1, <1>3
<1>8. plate \in Plates \cup {NoPlate}
  BY <1>4
<1>9. at \in Time
  <2>1. target \in EventIds \/ target = None
    BY <1>1, <1>3
  <2>2. target \in EventIds => row[target].at \in Time
    BY <1>2
  <2>3. \A x, y \in Time : Larger(x, y) \in Time
    BY DEF Larger
  <2> QED BY <1>1, <1>7, <2>1, <2>2, <2>3
<1>10. ~kept => row[event2].plate \in {NoPlate, plate}
  <2> SUFFICES ASSUME ~kept PROVE row[event2].plate \in {NoPlate, plate}
    OBVIOUS
  <2>1. CASE event2 = e.id
    BY <1>2, <2>1
  <2>2. CASE event2 # e.id
    <3>1. event2 = target /\ target # None /\ ~conflict
      BY <2>2
    <3>2. shown = row[event2].plate /\ plate = incoming
      BY <3>1
    <3> QED BY <3>1, <3>2
  <2> QED BY <2>1, <2>2
<1>11. e.reading.strict => r.aside \/ r.row[r.event].plate = e.reading.key
  <2> SUFFICES ASSUME e.reading.strict, ~(conflict /\ ~kept) PROVE r.row[r.event].plate = e.reading.key
    BY <1>5
  <2>1. incoming = e.reading.key /\ incoming # NoPlate
    BY <1>4
  <2>2. ~conflict
    BY <2>1
  <2>3. CASE kept
    <3>1. shown # NoPlate /\ shown = incoming /\ target # None
      BY <1>6, <2>1, <2>2, <2>3
    <3>2. event2 = target /\ shown = row[target].plate
      BY <2>2, <3>1
    <3> QED BY <1>5, <2>1, <2>3, <3>1, <3>2
  <2>4. CASE ~kept
    <3>1. plate = incoming
      BY <2>2
    <3> HIDE DEF event2, plate, at, kept
    <3> QED BY <1>2, <1>5, <1>7, <2>1, <2>4, <3>1
  <2> QED BY <2>3, <2>4
<1> HIDE DEF event2, plate, at, kept, conflict
<1>12. /\ r.row \in [EventIds -> [plate : Plates \cup {NoPlate}, at : Time]]
       /\ \A v \in EventIds : r.row[v] = row[v] \/ v = r.event
  BY <1>2, <1>5, <1>7, <1>8, <1>9
<1>13. \A v \in EventIds : row[v].plate # NoPlate => r.row[v].plate = row[v].plate
  <2>1. CASE kept
    BY <1>5, <2>1
  <2>2. CASE ~kept
    <3>1. r.row[event2].plate = plate /\ \A v \in EventIds : v # event2 => r.row[v] = row[v]
      BY <1>2, <1>5, <1>7, <2>2
    <3> QED BY <1>10, <2>2, <3>1
  <2> QED BY <2>1, <2>2
<1> QED BY <1>5, <1>7, <1>11, <1>12, <1>13 DEF r

\* A write that succeeds: it keeps every plate a row shows, and every confirmed
\* visit that is active.
LEMMA WriteStep ==
    ASSUME VisitInv, Write
    PROVE  VisitInv' /\ RowKeepsPlate /\ ledger.active \cap ledger.confirmed \subseteq ledger'.active
<1>0. Typed /\ Standing /\ ledger \in LedgerRecord /\ Agrees(ledger) /\ todo # <<>>
  BY LedgerOf DEF VisitInv, Write
<1>1. PICK j \in DOMAIN queue : /\ queue[j].id = Head(todo)
                                /\ Entry(Head(todo)) = queue[j] /\ queue[j] \in EntryRecord
  BY <1>0, HeadIs
<1> DEFINE e        == queue[j]
           event    == ResolvedEvent(e)
           result   == Persisted(e, event)
           updates  == e.current /\ (~e.tried \/ e.track \in live)
           registers == updates /\ e.reading.key # NoPlate
           new      == Registered(ledger, e.track, e.reading, result.event, e.time)
           bridge   == [event |-> result.event, track |-> e.track,
                        reading |-> e.reading, time |-> e.time, current |-> TRUE]
<1>2. /\ todo' = Tail(todo)
      /\ queue' = Without(e.id)
      /\ saved' = [saved EXCEPT ![e.id] = result.event]
      /\ row' = result.row
      /\ aside' = IF result.aside THEN aside \cup {result.event} ELSE aside
      /\ resolved' = Append(resolved, e)
      /\ trackEvent' = IF updates THEN [trackEvent EXCEPT ![e.track] = result.event]
                       ELSE trackEvent
      /\ ledger' = IF registers THEN new ELSE ledger
      /\ unseen' = IF registers THEN [unseen EXCEPT ![new.key[e.track]] = 0] ELSE unseen
      /\ lineages' \subseteq lineages \cup {bridge}
      /\ UNCHANGED <<now, phase, live, gone, leaving, due, observed, retired, failed, nextId, faults>>
  BY <1>1 DEF Write, frame
<1>3. /\ e.id \in EntryIds /\ e.track \in Tracks /\ e.reading \in Results /\ e.time \in Time
  BY <1>1, EntryFields
<1>4. /\ queue' \in Seq(EntryRecord)
      /\ \A i \in DOMAIN queue' : \E k \in DOMAIN queue : queue'[i] = queue[k] /\ k # j
      /\ \A k \in DOMAIN queue : k # j => \E i \in DOMAIN queue' : queue'[i] = queue[k]
      /\ \A i, k \in DOMAIN queue' : queue'[i].id = queue'[k].id => i = k
  <2>1. queue' = Without(queue[j].id)
    BY <1>2
  <2> DEFINE q == Without(queue[j].id)
  <2>2. /\ q \in Seq(EntryRecord)
        /\ \A i \in DOMAIN q : \E k \in DOMAIN queue : q[i] = queue[k] /\ k # j
        /\ \A k \in DOMAIN queue : k # j => \E i \in DOMAIN q : q[i] = queue[k]
        /\ \A i, k \in DOMAIN q : q[i].id = q[k].id => i = k
    BY <1>0, WithoutIs, Zenon
  <2> HIDE DEF q
  <2> QED BY <2>1, <2>2 DEF q
<1>5. event \in Inserted \cup {None}
  BY ResolvedIs
<1>6. /\ result.event \in EventIds /\ result.event \in Inserted \cup {e.id}
      /\ result.row \in [EventIds -> [plate : Plates \cup {NoPlate}, at : Time]]
      /\ \A v \in EventIds : result.row[v] = row[v] \/ v = result.event
      /\ \A v \in EventIds : row[v].plate # NoPlate => result.row[v].plate = row[v].plate
      /\ e.reading.strict => result.aside \/ result.row[result.event].plate = e.reading.key
  BY <1>5, PersistedIs
<1> HIDE DEF event, result, e
<1>7. RowKeepsPlate
  BY <1>2, <1>6 DEF RowKeepsPlate
<1>8. Inserted \subseteq Inserted' /\ e.id \in Inserted' /\ result.event \in Inserted'
  <2>1. Inserted \subseteq Inserted'
    BY <1>2, <1>4 DEF Inserted
  <2>2. e.id \in Inserted'
    <3>1. e.id < nextId /\ e.id \in EventIds
      BY <1>0, <1>3 DEF Standing, EntryIds, EventIds, e
    <3>2. \A i \in DOMAIN queue' : queue'[i].id # e.id
      BY <1>0, <1>4 DEF Standing, e
    <3> QED BY <1>2, <3>1, <3>2 DEF Inserted
  <2> QED BY <1>6, <2>1, <2>2
<1>9. Standing'
  <2>1. \A i \in DOMAIN queue' : queue'[i].id < nextId'
    BY <1>0, <1>2, <1>4 DEF Standing
  <2>2. \A i, k \in DOMAIN todo' : todo'[i] = todo'[k] => i = k
    BY <1>0, <1>2, TailIs
  <2>3. ASSUME NEW i \in DOMAIN todo' PROVE \E k \in DOMAIN queue' : queue'[k].id = todo'[i]
    <3>1. i + 1 \in DOMAIN todo /\ todo'[i] = todo[i + 1] /\ todo'[i] # Head(todo)
      BY <1>0, <1>2, <2>3, TailIs
    <3>2. PICK k \in DOMAIN queue : queue[k].id = todo[i + 1]
      BY <1>0, <3>1 DEF Standing
    <3>3. k # j
      BY <1>1, <3>1, <3>2
    <3> QED BY <1>4, <3>1, <3>2, <3>3
  <2> QED BY <1>4, <2>1, <2>2, <2>3 DEF Standing
<1> DEFINE k == new.key[e.track]
<1>10. ASSUME registers
       PROVE  /\ new \in LedgerRecord /\ Agrees(new) /\ k \in Plates
              /\ new.ref[k] = result.event
              /\ \A i \in Plates \ {k} : new.ref[i] \in {None, ledger.ref[i]}
              /\ \A i \in Plates : new.missing[i] = IF i = k THEN 0 ELSE
                                     IF ledger.ref[i] = result.event THEN 0 ELSE ledger.missing[i]
              /\ ledger.active \cap ledger.confirmed \subseteq new.active
              /\ \A i \in new.confirmed :
                   \/ i \in ledger.confirmed /\ new.ref[i] = ledger.ref[i]
                   \/ e.reading.strict /\ i = e.reading.key /\ new.ref[i] = result.event
  BY <1>0, <1>3, <1>6, <1>10, RegisteredIs
<1> HIDE DEF new, k
<1>11. ledger' \in LedgerRecord /\ LedgerAgrees'
  BY <1>0, <1>2, <1>10 DEF LedgerAgrees, Agrees
<1>12. unseen' \in [Plates -> Nat] /\ Counted'
  <2>0. unseen \in [Plates -> Nat] /\ \A i \in Plates : ledger.missing[i] <= unseen[i]
    BY DEF VisitInv, Typed, Counted
  <2>1. CASE registers
    <3>1. ledger' = new /\ unseen' = [unseen EXCEPT ![k] = 0]
      BY <1>2, <2>1 DEF k
    <3>2. unseen' \in [Plates -> Nat] /\ \A i \in Plates : unseen'[i] = IF i = k THEN 0 ELSE unseen[i]
      BY <1>10, <2>0, <2>1, <3>1
    <3>3. \A i \in Plates : ledger'.missing[i] = IF i = k THEN 0 ELSE
                              IF ledger.ref[i] = result.event THEN 0 ELSE ledger.missing[i]
      BY <1>10, <2>1, <3>1
    <3>4. \A i \in Plates : ledger'.missing[i] <= unseen'[i]
      BY <2>0, <3>2, <3>3
    <3> QED BY <3>2, <3>4 DEF Counted
  <2>2. CASE ~registers
    BY <1>2, <2>0, <2>2 DEF Counted
  <2> QED BY <2>1, <2>2
<1>13. Typed'
  <2>1. todo' \in Seq(EntryIds)
    BY <1>0, <1>2, TailIs
  <2>2. resolved' \in Seq(EntryRecord)
    BY <1>0, <1>1, <1>2 DEF Typed, e
  <2>3. result.event \in Refs
    BY <1>6 DEF Refs
  <2>4. saved' \in [EntryIds -> Refs] /\ trackEvent' \in [Tracks -> Refs]
    BY <1>0, <1>2, <2>3 DEF Typed
  <2>5. lineages' \subseteq LineageRecord /\ aside' \subseteq EventIds
    <3>1. bridge \in LineageRecord
      BY <1>3, <1>6 DEF LineageRecord
    <3> QED BY <1>0, <1>2, <1>6, <3>1 DEF Typed
  <2> QED BY <1>0, <1>2, <1>4, <1>6, <1>11, <1>12, <2>1, <2>2, <2>4, <2>5 DEF Typed
<1>14. Written'
  <2>0. Written
    BY DEF VisitInv
  <2>1. \A i \in Plates : ledger'.ref[i] # None => ledger'.ref[i] \in Inserted'
    <3>1. \A i \in Plates : ledger.ref[i] # None => ledger.ref[i] \in Inserted'
      BY <1>8, <2>0 DEF Written
    <3>2. CASE registers
      BY <1>2, <1>8, <1>10, <3>1, <3>2
    <3>3. CASE ~registers
      BY <1>2, <3>1, <3>3
    <3> QED BY <3>2, <3>3
  <2>2. \A t \in Tracks : trackEvent'[t] # None => trackEvent'[t] \in Inserted'
    BY <1>0, <1>2, <1>8, <2>0 DEF Written, Typed
  <2>3. \A i \in DOMAIN queue' : queue'[i].event # None => queue'[i].event \in Inserted'
    BY <1>4, <1>8, <2>0 DEF Written
  <2>4. \A l \in lineages' : l.event \in Inserted'
    BY <1>2, <1>8, <2>0 DEF Written
  <2>5. \A i \in EntryIds : saved'[i] # None => saved'[i] \in Inserted'
    BY <1>0, <1>2, <1>8, <2>0 DEF Written, Typed
  <2>6. \A v \in EventIds : row'[v].at # None \/ row'[v].plate # NoPlate => v \in Inserted'
    BY <1>2, <1>6, <1>8, <2>0 DEF Written
  <2> QED BY <2>1, <2>2, <2>3, <2>4, <2>5, <2>6 DEF Written
<1>15. ConfirmedShowsPlate'
  <2>0. \A i \in ledger.confirmed : ledger'.ref[i] = ledger.ref[i] =>
          ledger'.ref[i] \in aside' \/ row'[ledger'.ref[i]].plate = i
    <3> SUFFICES ASSUME NEW i \in ledger.confirmed
                 PROVE  ledger.ref[i] \in aside' \/ row'[ledger.ref[i]].plate = i
      OBVIOUS
    <3>1. ledger.ref[i] \in aside \/ row[ledger.ref[i]].plate = i
      BY DEF VisitInv, ConfirmedShowsPlate
    <3>2. i \in Known(ledger) /\ i \in Plates
      BY <1>0 DEF Agrees, Known
    <3>3. i # NoPlate /\ ledger.ref[i] \in EventIds
      BY <1>0, <3>2, PlatesAssumption DEF Known, LedgerRecord, Refs
    <3>4. row[ledger.ref[i]].plate = i => row'[ledger.ref[i]].plate = i
      BY <1>2, <1>6, <3>3
    <3> QED BY <1>2, <3>1, <3>4
  <2>1. CASE registers
    <3> SUFFICES ASSUME NEW i \in new.confirmed
                 PROVE  ledger'.ref[i] \in aside' \/ row'[ledger'.ref[i]].plate = i
      BY <1>2, <2>1 DEF ConfirmedShowsPlate
    <3>1. CASE i \in ledger.confirmed /\ new.ref[i] = ledger.ref[i]
      BY <1>2, <2>0, <2>1, <3>1
    <3>2. CASE e.reading.strict /\ i = e.reading.key /\ new.ref[i] = result.event
      <4>1. result.aside \/ row'[result.event].plate = i
        BY <1>2, <1>6, <3>2
      <4> QED BY <1>2, <2>1, <3>2, <4>1
    <3> QED BY <1>10, <2>1, <3>1, <3>2
  <2>2. CASE ~registers
    BY <1>2, <2>0, <2>2 DEF ConfirmedShowsPlate
  <2> QED BY <2>1, <2>2
<1>16. ledger.active \cap ledger.confirmed \subseteq ledger'.active
  BY <1>2, <1>10
<1> QED BY <1>7, <1>9, <1>11, <1>12, <1>13, <1>14, <1>15, <1>16 DEF VisitInv

\* A write that fails: the entry stays, and remembers the event it was sent to.
LEMMA WriteFailsStep ==
    ASSUME VisitInv, WriteFails
    PROVE  VisitInv'
<1>0. Typed /\ Standing /\ ledger \in LedgerRecord /\ Agrees(ledger) /\ todo # <<>>
  BY LedgerOf DEF VisitInv, WriteFails
<1>1. PICK j \in DOMAIN queue : /\ queue[j].id = Head(todo)
                                /\ Entry(Head(todo)) = queue[j] /\ queue[j] \in EntryRecord
  BY <1>0, HeadIs
<1> DEFINE e == queue[j]
           v == ResolvedEvent(e)
           mark(p) == [p EXCEPT !.tried = TRUE, !.event = v]
<1>2. /\ todo' = Tail(todo)
      /\ queue' = [i \in DOMAIN queue |-> IF queue[i].id = e.id THEN mark(queue[i]) ELSE queue[i]]
      /\ failed' = failed \cup {e}
      /\ UNCHANGED <<ledger, now, phase, live, gone, leaving, due, observed, retired,
                     trackEvent, resolved, lineages, store, nextId, unseen, aside>>
  BY <1>1 DEF WriteFails, frame, history
<1>3. v \in Refs /\ v \in Inserted \cup {None}
  BY ResolvedIs
<1>4. \A i \in DOMAIN queue : queue[i] \in EntryRecord
  BY <1>0 DEF Typed
<1>5. \A p \in EntryRecord : mark(p) \in EntryRecord /\ mark(p).id = p.id /\ mark(p).event = v
  BY <1>3 DEF EntryRecord
<1> HIDE DEF v, mark, e
<1>6. \A i \in DOMAIN queue : /\ i \in DOMAIN queue' /\ queue'[i] \in EntryRecord
                              /\ queue'[i].id = queue[i].id /\ queue'[i].event \in {queue[i].event, v}
  BY <1>2, <1>4, <1>5
<1>7. queue' \in Seq(EntryRecord) /\ DOMAIN queue' = DOMAIN queue
  <2>1. Len(queue) \in Nat /\ DOMAIN queue = 1 .. Len(queue)
    BY <1>0 DEF Typed
  <2>2. queue' \in [1 .. Len(queue) -> EntryRecord] /\ DOMAIN queue' = DOMAIN queue
    BY <1>2, <1>6, <2>1
  <2> QED BY <2>1, <2>2
<1>8. Standing'
  <2>1. \A i \in DOMAIN todo' : /\ i + 1 \in DOMAIN todo /\ todo'[i] = todo[i + 1]
    BY <1>0, <1>2, TailIs
  <2>2. \A i, k \in DOMAIN todo' : todo'[i] = todo'[k] => i = k
    BY <1>0, <1>2, TailIs
  <2>3. \A i \in DOMAIN todo' : \E k \in DOMAIN queue' : queue'[k].id = todo'[i]
    BY <1>0, <1>6, <2>1 DEF Standing
  <2> QED BY <1>0, <1>2, <1>6, <1>7, <2>2, <2>3 DEF Standing
<1>9. Inserted \subseteq Inserted'
  BY <1>2, <1>6, <1>7 DEF Inserted
<1>10. \A i \in DOMAIN queue' : queue'[i].event # None => queue'[i].event \in Inserted
  BY <1>3, <1>6, <1>7 DEF VisitInv, Written
<1>11. Typed'
  <2>1. todo' \in Seq(EntryIds) /\ failed' \subseteq EntryRecord
    BY <1>0, <1>1, <1>2, TailIs DEF Typed, e
  <2> QED BY <1>0, <1>2, <1>7, <2>1 DEF Typed, store
<1>12. LedgerAgrees' /\ Written' /\ ConfirmedShowsPlate' /\ Counted'
  <2>1. \A k \in Plates : ledger'.missing[k] <= unseen'[k]
    BY <1>2 DEF VisitInv, Counted
  <2> QED BY <1>0, <1>2, <1>9, <1>10, <2>1, QueueStep
<1> QED BY <1>8, <1>11, <1>12 DEF VisitInv

\* An entry that is held back stays as it is, and so does everything else.
LEMMA HoldBackStep ==
    ASSUME VisitInv, HoldBack
    PROVE  VisitInv'
<1>0. Typed /\ Standing /\ todo # <<>>
  BY DEF VisitInv, HoldBack
<1>1. /\ todo' = Tail(todo)
      /\ UNCHANGED <<ledger, now, phase, live, gone, leaving, due, observed, retired, trackEvent,
                     queue, failed, resolved, lineages, saved, row, nextId, faults, unseen, aside>>
  BY DEF HoldBack, frame, store, history
<1>2. Standing'
  <2>1. \A i \in DOMAIN todo' : /\ i + 1 \in DOMAIN todo /\ todo'[i] = todo[i + 1]
    BY <1>0, <1>1, TailIs
  <2>2. \A i, k \in DOMAIN todo' : todo'[i] = todo'[k] => i = k
    BY <1>0, <1>1, TailIs
  <2> QED BY <1>0, <1>1, <2>1, <2>2 DEF Standing
<1>3. Typed'
  <2>1. todo' \in Seq(EntryIds)
    BY <1>0, <1>1, TailIs
  <2> QED BY <1>0, <1>1, <2>1 DEF Typed
<1>4. LedgerAgrees' /\ Written' /\ ConfirmedShowsPlate' /\ Counted'
  BY <1>1 DEF VisitInv, LedgerAgrees, Known, Written, Inserted, ConfirmedShowsPlate, Counted
<1> QED BY <1>2, <1>3, <1>4 DEF VisitInv

\* The end of a drain.
LEMMA DrainEndStep ==
    ASSUME VisitInv, DrainEnd
    PROVE  VisitInv'
<1>1. /\ phase' = "idle" /\ failed' = {} /\ resolved' = <<>>
      /\ \A t \in Tracks : trackEvent'[t] \in {None, trackEvent[t]}
      /\ trackEvent' \in [Tracks -> Refs]
      /\ UNCHANGED <<ledger, now, live, gone, leaving, due, observed, retired, queue, todo,
                     lineages, saved, row, nextId, faults, unseen, aside>>
  BY DEF DrainEnd, store, history, VisitInv, Typed, Refs
<1>2. Typed'
  BY <1>1 DEF VisitInv, Typed
<1>3. Standing' /\ LedgerAgrees' /\ Written' /\ ConfirmedShowsPlate' /\ Counted'
  BY <1>1 DEF VisitInv, Standing, LedgerAgrees, Known, Written, Inserted, ConfirmedShowsPlate, Counted
<1> QED BY <1>2, <1>3 DEF VisitInv

\* A detector model is activated.
LEMMA SwitchModelStep ==
    ASSUME VisitInv, SwitchModel
    PROVE  VisitInv' /\ ledger'.active = ledger.active
<1>0. Typed /\ Standing /\ ledger \in LedgerRecord /\ Agrees(ledger)
  BY LedgerOf DEF VisitInv
<1>1. /\ live' = {} /\ gone' = {} /\ lineages' = {}
      /\ ledger' = [EmptyLedger EXCEPT !.ref = ledger.ref, !.confirmed = ledger.confirmed,
                                       !.active = ledger.active, !.seen = ledger.seen,
                                       !.box = ledger.box]
      /\ trackEvent' = [t \in Tracks |-> None]
      /\ queue' = [i \in DOMAIN queue |-> [queue[i] EXCEPT !.current = FALSE]]
      /\ unseen' = [k \in Plates |-> 0]
      /\ UNCHANGED <<now, phase, leaving, due, observed, retired, todo, failed, resolved, store,
                     nextId, aside>>
  BY DEF SwitchModel, pass
<1>2. EmptyLedger \in LedgerRecord
  <2>1. None \in Refs /\ None \in Time /\ 0 \in Time /\ 0 \in Nat
    BY TimesAssumption DEF Refs, None, Time
  <2> QED BY <2>1 DEF EmptyLedger, LedgerRecord
<1>3. /\ ledger' \in LedgerRecord /\ ledger'.ref = ledger.ref
      /\ ledger'.confirmed = ledger.confirmed /\ ledger'.active = ledger.active
      /\ ledger'.missing = EmptyLedger.missing
      /\ ledger'.key = EmptyLedger.key /\ ledger'.tracks = EmptyLedger.tracks
  BY <1>0, <1>1, <1>2 DEF LedgerRecord
<1>4. /\ \A k \in Plates : ledger'.missing[k] = 0 /\ ledger'.tracks[k] = {}
      /\ \A t \in Tracks : ledger'.key[t] = NoPlate
  BY <1>3 DEF EmptyLedger
<1>5. Agrees(ledger')
  <2>1. Known(ledger') = Known(ledger)
    BY <1>3 DEF Known
  <2> QED BY <1>0, <1>3, <1>4, <2>1, PlatesAssumption DEF Agrees
<1>6. \A i \in DOMAIN queue : /\ queue'[i] \in EntryRecord
                              /\ queue'[i].id = queue[i].id /\ queue'[i].event = queue[i].event
  <2>1. \A p \in EntryRecord : LET q == [p EXCEPT !.current = FALSE]
                               IN  q \in EntryRecord /\ q.id = p.id /\ q.event = p.event
    BY DEF EntryRecord
  <2>2. \A i \in DOMAIN queue : queue[i] \in EntryRecord
    BY <1>0 DEF Typed
  <2> QED BY <1>1, <2>1, <2>2
<1>7. queue' \in Seq(EntryRecord) /\ DOMAIN queue' = DOMAIN queue
  <2>1. Len(queue) \in Nat /\ DOMAIN queue = 1 .. Len(queue)
    BY <1>0 DEF Typed
  <2>2. queue' \in [1 .. Len(queue) -> EntryRecord] /\ DOMAIN queue' = DOMAIN queue
    BY <1>1, <1>6, <2>1
  <2> QED BY <2>1, <2>2
<1>8. Standing'
  <2>1. \A i, k \in DOMAIN queue' : queue'[i].id = queue'[k].id => i = k
    BY <1>0, <1>6, <1>7 DEF Standing
  <2>2. \A i \in DOMAIN queue' : queue'[i].id < nextId'
    BY <1>0, <1>1, <1>6, <1>7 DEF Standing
  <2>3. \A i \in DOMAIN todo' : \E k \in DOMAIN queue' : queue'[k].id = todo'[i]
    BY <1>0, <1>1, <1>6, <1>7 DEF Standing
  <2>4. \A i, k \in DOMAIN todo' : todo'[i] = todo'[k] => i = k
    BY <1>0, <1>1 DEF Standing
  <2> QED BY <2>1, <2>2, <2>3, <2>4 DEF Standing
<1>9. Inserted \subseteq Inserted'
  BY <1>1, <1>6, <1>7 DEF Inserted
<1>10. \A i \in DOMAIN queue' : queue'[i].event # None => queue'[i].event \in Inserted
  BY <1>6, <1>7 DEF VisitInv, Written
<1>11. Typed'
  <2>1. trackEvent' \in [Tracks -> Refs] /\ unseen' \in [Plates -> Nat]
    BY <1>1 DEF Refs
  <2> QED BY <1>0, <1>1, <1>3, <1>7, <2>1 DEF Typed, store
<1>12. LedgerAgrees' /\ Written' /\ ConfirmedShowsPlate' /\ Counted'
  <2>1. \A k \in Plates : ledger'.missing[k] <= unseen'[k]
    BY <1>1, <1>4
  <2>2. \A t \in Tracks : trackEvent'[t] \in {None, trackEvent[t]}
    BY <1>1
  <2>3. \A k \in Plates : ledger'.ref[k] \in {None, ledger.ref[k]}
    BY <1>3
  <2> QED BY <1>1, <1>3, <1>5, <1>9, <1>10, <2>1, <2>2, <2>3, QueueStep
<1> QED BY <1>3, <1>8, <1>11, <1>12 DEF VisitInv

-----------------------------------------------------------------------------
(* The theorems                                                             *)

\* The program starts with an empty ledger and nothing written.
LEMMA InitVisit == Init => VisitInv
<1> SUFFICES ASSUME Init PROVE VisitInv
  OBVIOUS
<1>1. None \in Refs /\ None \in Time /\ 0 \in Time /\ 0 \in Nat /\ 1 \in 1 .. MaxEntries + 1
  BY TimesAssumption DEF Refs, None, Time
<1>2. EmptyLedger \in LedgerRecord
  BY <1>1 DEF EmptyLedger, LedgerRecord
<1>3. Typed
  BY <1>1, <1>2 DEF Init, Typed
<1>4. LedgerAgrees
  BY <1>1, PlatesAssumption DEF Init, LedgerAgrees, EmptyLedger, Known
<1>5. Standing /\ ConfirmedShowsPlate /\ Counted
  BY DEF Init, Standing, ConfirmedShowsPlate, Counted, EmptyLedger
<1>6. Written
  BY DEF Init, Written, EmptyLedger
<1> QED BY <1>3, <1>4, <1>5, <1>6 DEF VisitInv

\* Every step keeps VisitInv, what the rows show, and the confirmed visits that are
\* active until their absence ends them.
LEMMA NextVisit ==
    ASSUME VisitInv, [Next]_vars
    PROVE  VisitInv' /\ RowKeepsPlate /\ VisitStep
<1>1. ASSUME NEW tick \in Ticks, NEW kept \in SUBSET live,
             NEW new \in SUBSET (Tracks \ (live \cup gone)), StartFrame(tick, kept, new)
      PROVE  VisitInv' /\ RowKeepsPlate /\ VisitStep
  <2>1. VisitInv' /\ ledger'.active = ledger.active
    BY <1>1, StartFrameStep
  <2>2. row' = row
    BY <1>1 DEF StartFrame, store
  <2> QED BY <2>1, <2>2 DEF RowKeepsPlate, VisitStep
<1>2. ASSUME NEW t \in Tracks, NEW reading \in At(t, Rows), ObserveRow(t, reading)
      PROVE  VisitInv' /\ RowKeepsPlate /\ VisitStep
  <2>1. VisitInv' /\ ledger.active \subseteq ledger'.active
    BY <1>2, ObserveRowStep
  <2>2. row' = row
    BY <1>2 DEF ObserveRow, store
  <2> QED BY <2>1, <2>2 DEF RowKeepsPlate, VisitStep
<1>3. CASE ObserveEnd
  <2>1. /\ VisitInv'
        /\ \A k \in ledger.confirmed \cap ledger.active :
             k \in ledger'.active \/ unseen'[k] >= AbsenceObservations
    BY <1>3, ObserveEndStep
  <2>2. row' = row /\ phase = "rows"
    BY <1>3 DEF ObserveEnd, store
  <2> QED BY <2>1, <2>2 DEF RowKeepsPlate, VisitStep
<1>4. ASSUME NEW t \in Tracks, NEW reading \in At(t, Results), Emit(t, reading)
      PROVE  VisitInv' /\ RowKeepsPlate /\ VisitStep
  <2>1. VisitInv' /\ ledger.active \subseteq ledger'.active
    BY <1>4, EmitStep DEF At
  <2>2. row' = row
    BY <1>4 DEF Emit, store
  <2> QED BY <2>1, <2>2 DEF RowKeepsPlate, VisitStep
<1>5. CASE Drain
  BY <1>5, DrainStep DEF Drain, store, RowKeepsPlate, VisitStep
<1>6. CASE Write
  BY <1>6, WriteStep DEF VisitStep
<1>7. CASE WriteFails
  BY <1>7, WriteFailsStep DEF WriteFails, store, RowKeepsPlate, VisitStep
<1>8. CASE HoldBack
  BY <1>8, HoldBackStep DEF HoldBack, store, RowKeepsPlate, VisitStep
<1>9. CASE DrainEnd
  BY <1>9, DrainEndStep DEF DrainEnd, store, RowKeepsPlate, VisitStep
<1>10. CASE SwitchModel
  BY <1>10, SwitchModelStep DEF SwitchModel, store, RowKeepsPlate, VisitStep
<1>11. CASE UNCHANGED vars
  <2>1. UNCHANGED <<ledger, now, phase, live, gone, leaving, due, observed, retired, trackEvent,
                    queue, todo, failed, resolved, lineages, saved, row, nextId, unseen, aside>>
    BY <1>11 DEF vars, frame, pass, store, history
  <2>2. Typed' /\ Standing'
    BY <2>1 DEF VisitInv, Typed, Standing
  <2>3. LedgerAgrees' /\ Written' /\ ConfirmedShowsPlate' /\ Counted'
    BY <2>1 DEF VisitInv, LedgerAgrees, Known, Written, Inserted, ConfirmedShowsPlate, Counted
  <2> QED BY <2>1, <2>2, <2>3 DEF VisitInv, RowKeepsPlate, VisitStep
<1> QED BY <1>1, <1>2, <1>3, <1>4, <1>5, <1>6, <1>7, <1>8, <1>9, <1>10, <1>11 DEF Next

\* VisitInv is an invariant: what an event refers to was inserted, an id stands for
\* one entry, and the ledger, the rows and the counts agree.
THEOREM VisitInvariant == Spec => []VisitInv
<1>1. Init => VisitInv
  BY InitVisit
<1>2. VisitInv /\ [Next]_vars => VisitInv'
  BY NextVisit
<1> QED BY <1>1, <1>2, PTL DEF Spec

\* The variables have their types: a bound track, a counted absence, a queued entry
\* and a stored row are what the drain and the frame expect them to be.
THEOREM TypeCorrect == Spec => []TypeOK
<1>1. Typed => TypeOK
  <2> SUFFICES ASSUME Typed PROVE TypeOK
    OBVIOUS
  <2>1. \A e \in Queued : e \in EntryRecord
    BY DEF Queued, Typed
  <2>2. \A e \in Queued : e.id \in EntryIds /\ e.track \in Tracks /\ e.reading \in Results
    BY <2>1, EntryFields
  <2> QED BY <2>2 DEF Typed, TypeOK, LedgerRecord
<1>2. VisitInv => TypeOK
  BY <1>1 DEF VisitInv
<1> QED BY <1>2, VisitInvariant, PTL

\* However observations, delayed registrations, migrations and model switches
\* follow each other, the ledger's maps agree: bindings are inverse to each other,
\* what is bound, active or confirmed has an event, and no event has two owners.
THEOREM LedgerAlwaysAgrees == Spec => []LedgerAgrees
<1>1. VisitInv => LedgerAgrees
  BY DEF VisitInv
<1> QED BY <1>1, VisitInvariant, PTL

\* The row of a confirmed visit's event shows the visit's plate, unless the write
\* inserted it to put an identity conflict aside.
THEOREM ConfirmedRowsShowTheirPlate == Spec => []ConfirmedShowsPlate
<1>1. VisitInv => ConfirmedShowsPlate
  BY DEF VisitInv
<1> QED BY <1>1, VisitInvariant, PTL

\* No write takes the plate of a row away, whatever event it was sent to and
\* however late it comes.
THEOREM WrittenRowsKeepTheirPlates == Spec => RowsKeepPlates
<1>1. VisitInv /\ [Next]_vars => [RowKeepsPlate]_vars
  BY NextVisit
<1> QED BY <1>1, VisitInvariant, PTL DEF Spec, RowsKeepPlates

\* A confirmed visit stops being active only at the end of the rows of a frame, and
\* after as many frames that did not show it as the ledger is told to wait.
THEOREM ConfirmedVisitsEndByAbsence == Spec => VisitEndsByAbsence
<1>1. VisitInv /\ [Next]_vars => [VisitStep]_vars
  BY NextVisit
<1> QED BY <1>1, VisitInvariant, PTL DEF Spec, VisitEndsByAbsence

=============================================================================
