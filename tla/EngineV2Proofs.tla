---------------------------- MODULE EngineV2Proofs ----------------------------
(***************************************************************************)
(* Theorems about EngineV2, for any number of frames, lifecycles, tracks,   *)
(* attempts, audits and faults.                                             *)
(*                                                                         *)
(* EngineInv is what the steps keep.  Its core is WorldFits: every episode  *)
(* is of the camera's epoch and has evidence of that lifecycle only, every  *)
(* task of the epoch reads frames of it, and whoever is waited for has a    *)
(* task in the queue or among H, the keys of the tasks that left it.  The   *)
(* operations of the model map worlds to worlds; each has a lemma that it   *)
(* keeps WorldFits and does not reopen an episode that is over (Goes).      *)
(* Applying or reconciling a task takes its key out of H, which is what     *)
(* lets the task go afterwards.  The rest of EngineInv says what readers,   *)
(* packets and the finalizer carry: nothing newer than the camera's epoch,  *)
(* and of that epoch only frames of its lifecycle.                          *)
(***************************************************************************)
EXTENDS EngineV2, TLAPS

-----------------------------------------------------------------------------
(* Types, as sets of records                                                *)

Key     == Nat \X Nat \X Track
Tasks   == [key : Key, crops : SUBSET Nat, finalize : BOOLEAN]
Results == [task : Tasks, good : BOOLEAN]
Packets == [frame : Nat, epoch : Nat]
Episodes ==
    [key : Key, first : Nat, done : BOOLEAN, submitted : BOOLEAN, attempts : Int, audits : Int,
     inflight : BOOLEAN, rec : {"open", "locked", "final", "closed"}, emitted : BOOLEAN,
     gone : BOOLEAN, pending : Results \cup {None}, crops : SUBSET Nat, seen : SUBSET Nat,
     read : SUBSET Nat]
Cameras  == [phase : {"idle", "active", "done"}, epoch : Nat, number : Nat, source : Nat,
             final : BOOLEAN, complete : BOOLEAN, life : Nat]
Trackers == [live : SUBSET Track, next : Nat]
Runs     == [at : {"idle", "detect", "pop", "read", "reconcile", "apply"},
             frame : Packets \cup {None}, rested : BOOLEAN, task : Tasks \cup {None},
             good : BOOLEAN, left : SUBSET Tasks]
Owners   == [key : Key, how : {"cancelled", "observed", "finished"}, what : Tasks \cup Results \cup {None}]
Fins     == [at : {"idle", "cancel", "drain"}, keys : SUBSET Key, own : SUBSET Owners,
             results : SUBSET Results, tasks : SUBSET Tasks, failed : SUBSET Key]

-----------------------------------------------------------------------------
(* The invariant.  Epoch c, and F the frames of the lifecycle it stands for. *)

\* A reading of the present epoch is of frames of its lifecycle.
Fits(k, c, F) == /\ k \in Tasks
                 /\ k.key[1] <= c
                 /\ k.key[1] = c => k.crops \subseteq F

EpisodeFits(e, c, t, F) ==
    /\ e \in Episodes /\ e.key[1] = c /\ e.key[3] = t
    /\ e.done => ~e.submitted
    /\ e.emitted => e.done
    /\ e.crops \subseteq F /\ e.read \subseteq F
    /\ e.pending # None => e.pending \in Results /\ Fits(e.pending.task, c, F)

WorldTyped(w) ==
    /\ w = [cam |-> w.cam, eps |-> w.eps, tracker |-> w.tracker, queue |-> w.queue]
    /\ w.cam \in Cameras /\ w.tracker \in Trackers /\ w.queue \subseteq Tasks
    /\ DOMAIN w.eps \subseteq Track /\ w.eps \in [DOMAIN w.eps -> Episodes]

\* H: the keys of tasks that are somewhere else than in the queue.
Backed(w, H) == \A t \in DOMAIN w.eps : w.eps[t].submitted =>
                   w.eps[t].key \in H \/ \E q \in w.queue : q.key = w.eps[t].key

WorldFits(w, F, H) ==
    /\ WorldTyped(w)
    /\ \A t \in DOMAIN w.eps : EpisodeFits(w.eps[t], w.cam.epoch, t, F)
    /\ \A k \in w.queue : Fits(k, w.cam.epoch, F)
    /\ Backed(w, H)

\* What an operation on tracks may do.
SameCamera(w, v) == /\ v.cam.epoch = w.cam.epoch /\ v.cam.life = w.cam.life
                    /\ v.cam.source = w.cam.source /\ v.cam.final = w.cam.final
Decided(w, v) == /\ DOMAIN w.eps \subseteq DOMAIN v.eps
                 /\ \A t \in DOMAIN w.eps : w.eps[t].done =>
                       v.eps[t].done /\ v.eps[t].emitted = w.eps[t].emitted

\* The frames of the camera's present lifecycle.
Frames == {n \in 1 .. Len(born) : born[n] = cam.life}

\* Tasks that left the queue and were not applied yet, and all there are.
Hands(r) == r.left \cup ({r.task} \ {None})
Waiting  == abandoned \cup UNION {Hands(run[p]) : p \in Processor}
Loose    == Waiting \cup {c.task : c \in completed} \cup fin.tasks \cup {r.task : r \in fin.results}

\* A finalizer answers for every episode there is; for the keys the central
\* thread forgot nobody does.
Hold     == IF fin.at = "idle" THEN {k.key : k \in Waiting} \cup lost ELSE Key

Typed == /\ fusion \in BOOLEAN /\ explicit \in BOOLEAN /\ life \in Nat \ {0} /\ born \in Seq(Nat)
         /\ abandoned \subseteq Tasks /\ completed \subseteq Results
         /\ run \in [Processor -> Runs] /\ fin \in Fins

RunFits(r) ==
    /\ r.at \in {"idle", "detect", "pop"} => r.task = None
    /\ r.at \notin {"read", "reconcile"} => r.left = {}
    /\ r.at \in {"read", "apply"} => r.task # None
    /\ r.at = "detect" => r.frame # None

\* The central thread drains the abandoned tasks after it has read.
RunsFit == /\ \A p \in Processor : RunFits(run[p])
           /\ run["central"].at = "read" => run["central"].left = {}

PacketFits(f, c, F) ==
    f # None => f \in Packets /\ f.epoch <= c /\ (f.epoch = c => f.frame \in F)

\* What the finalizer has been told of the owners of a key.
OwnerFits(o, c, F) ==
    /\ o.how = "cancelled" => Fits(o.what, c, F)
    /\ o.how = "finished" /\ o.what # None => o.what \in Results /\ Fits(o.what.task, c, F)

\* Whose frames the camera's present epoch takes.
Modes == /\ ~explicit => cam.life = life
         /\ explicit /\ cam.source = 0 => born = <<>>
         /\ explicit /\ cam.source # 0 => cam.life = cam.source

\* While the finalizer works the central thread rests; a camera that was
\* reopened meanwhile has no track.
Finalizing == fin.at # "idle" => /\ run["central"].at = "idle"
                                 /\ ~cam.final => DOMAIN eps = {} /\ tracker.live = {}

EngineInv ==
    /\ Typed
    /\ WorldFits(World, Frames, Hold)
    /\ \A k \in Loose : Fits(k, cam.epoch, Frames)
    /\ PacketFits(packet, cam.epoch, Frames)
    /\ PacketFits(run["central"].frame, cam.epoch, Frames)
    /\ RunsFit
    /\ \A o \in fin.own : OwnerFits(o, cam.epoch, Frames)
    /\ Modes /\ Finalizing

-----------------------------------------------------------------------------
(* Episodes                                                                 *)

\* A task or a result is told from None by its fields.
LEMMA SomethingIsNotNone == \A k : k \in Tasks \cup Results => k # None
<1>1. ASSUME NEW k \in Tasks PROVE k # None
  BY <1>1 DEF Tasks, None
<1>2. ASSUME NEW k \in Results PROVE k # None
  BY <1>2 DEF Results, None
<1> QED BY <1>1, <1>2

\* A new episode is of the present epoch, and nothing was read for it.
LEMMA NewEpisodeFits ==
    ASSUME NEW c \in Cameras, NEW t \in Track, NEW n \in Nat, NEW F
    PROVE  /\ EpisodeFits(NewEpisode(c, t, n), c.epoch, t, F)
           /\ ~NewEpisode(c, t, n).submitted /\ ~NewEpisode(c, t, n).done
<1>1. <<c.epoch, c.number, t>> \in Key BY DEF Cameras, Key
<1>2. NewEpisode(c, t, n) \in Episodes
  BY <1>1 DEF NewEpisode, Episodes
<1> QED BY <1>1, <1>2 DEF NewEpisode, EpisodeFits, None

\* What is done to an episode keeps its key, and ends what has ended.
SameEpisode(e, x) == x.key = e.key /\ (e.done => x.done /\ x.emitted = e.emitted)

\* A retryable release takes back what the attempt counted.
LEMMA ReleasedFits ==
    ASSUME NEW c, NEW t, NEW F, NEW e, EpisodeFits(e, c, t, F)
    PROVE  EpisodeFits(Released(e), c, t, F) /\ SameEpisode(e, Released(e)) /\ ~Released(e).submitted
<1>1. Released(e) \in Episodes
  <2> DEFINE a == IF e.attempts > 0 THEN e.attempts - 1 ELSE 0
             b == IF e.inflight /\ e.rec = "locked" THEN e.audits - 1 ELSE e.audits
  <2>1. e \in Episodes /\ a \in Int /\ b \in Int BY DEF EpisodeFits, Episodes
  <2>2. Released(e) = [e EXCEPT !.submitted = FALSE, !.inflight = FALSE, !.attempts = a, !.audits = b]
    BY <2>1 DEF Released, Episodes
  <2> HIDE DEF a, b
  <2> QED BY <2>1, <2>2 DEF Episodes
<1>2. /\ Released(e).key = e.key /\ Released(e).done = e.done /\ Released(e).emitted = e.emitted
      /\ Released(e).crops = e.crops /\ Released(e).read = e.read /\ Released(e).pending = e.pending
      /\ Released(e).submitted = FALSE
  BY DEF EpisodeFits, Released, Episodes
<1> QED BY <1>1, <1>2 DEF EpisodeFits, SameEpisode

\* An attempt on an episode that waits for none.
LEMMA AttemptFits ==
    ASSUME NEW c, NEW t, NEW F, NEW e, EpisodeFits(e, c, t, F), fusion \in BOOLEAN,
           ~e.done, NEW C, C \subseteq e.crops
    PROVE  /\ EpisodeFits(Attempt(e, C).e, c, t, F) /\ SameEpisode(e, Attempt(e, C).e)
           /\ ~Attempt(e, C).e.done
           /\ Fits(Attempt(e, C).task, c, F) /\ Attempt(e, C).task.key = e.key
           /\ Attempt(e, C).task.crops \subseteq F
<1> DEFINE x == Attempt(e, C).e
           k == Attempt(e, C).task
<1>1. x = [e EXCEPT !.submitted = TRUE, !.attempts = @ + 1, !.inflight = fusion,
                    !.audits = IF e.rec = "locked" THEN @ + 1 ELSE @]
      /\ k = [key |-> e.key, crops |-> C, finalize |-> FALSE]
  BY DEF Attempt, Task
<1> HIDE DEF x, k
<1>2. x \in Episodes
  <2> DEFINE a == e.attempts + 1
             b == IF e.rec = "locked" THEN e.audits + 1 ELSE e.audits
  <2>1. e \in Episodes /\ a \in Int /\ b \in Int BY DEF EpisodeFits, Episodes
  <2>2. x = [e EXCEPT !.submitted = TRUE, !.inflight = fusion, !.attempts = a, !.audits = b]
    BY <1>1, <2>1 DEF Episodes
  <2> HIDE DEF a, b
  <2> QED BY <2>1, <2>2 DEF Episodes
<1>3. /\ x.key = e.key /\ x.done = e.done /\ x.emitted = e.emitted
      /\ x.crops = e.crops /\ x.read = e.read /\ x.pending = e.pending
  BY <1>1 DEF EpisodeFits, Episodes
<1>4. k \in Tasks /\ k.key = e.key /\ k.crops = C
  BY <1>1 DEF EpisodeFits, Episodes, Tasks
<1>5. C \subseteq F /\ e.key[1] = c /\ c <= c BY DEF EpisodeFits, Episodes, Key
<1> QED BY <1>2, <1>3, <1>4, <1>5 DEF EpisodeFits, SameEpisode, Fits, x, k

\* The last step of a locked episode.
LEMMA FinalizeFits ==
    ASSUME NEW c, NEW t, NEW F, NEW e, EpisodeFits(e, c, t, F), ~e.done
    PROVE  /\ EpisodeFits(Finalize(e).e, c, t, F) /\ SameEpisode(e, Finalize(e).e)
           /\ ~Finalize(e).e.done
           /\ Fits(Finalize(e).task, c, F) /\ Finalize(e).task.key = e.key
           /\ Finalize(e).task.crops \subseteq F
<1> DEFINE x == Finalize(e).e
           k == Finalize(e).task
<1>1. x = [e EXCEPT !.submitted = TRUE] /\ k = [key |-> e.key, crops |-> {}, finalize |-> TRUE]
  BY DEF Finalize, Task
<1> HIDE DEF x, k
<1>2. x \in Episodes
  BY <1>1 DEF EpisodeFits, Episodes
<1>3. /\ x.key = e.key /\ x.done = e.done /\ x.emitted = e.emitted
      /\ x.crops = e.crops /\ x.read = e.read /\ x.pending = e.pending
  BY <1>1 DEF EpisodeFits, Episodes
<1>4. k \in Tasks /\ k.key = e.key /\ k.crops = {}
  BY <1>1 DEF EpisodeFits, Episodes, Tasks
<1>5. e.key[1] = c /\ c <= c BY DEF EpisodeFits, Episodes, Key
<1> QED BY <1>2, <1>3, <1>4, <1>5 DEF EpisodeFits, SameEpisode, Fits, x, k

\* What _prepare_ocr_task decides: a task goes with an episode that is not over.
LEMMA PreparedFits ==
    ASSUME NEW c, NEW t, NEW F, NEW e, EpisodeFits(e, c, t, F), fusion \in BOOLEAN,
           NEW force \in BOOLEAN, NEW p \in Prepared(e, force)
    PROVE  /\ EpisodeFits(p.e, c, t, F) /\ SameEpisode(e, p.e)
           /\ p.task = None => p.e.submitted = e.submitted
           /\ p.task # None => /\ ~e.done /\ ~p.e.done
                               /\ Fits(p.task, c, F) /\ p.task.key = e.key /\ p.task.crops \subseteq F
<1>1. CASE p = Nothing(e)
  BY <1>1 DEF Nothing, SameEpisode
<1>2. CASE ~e.submitted /\ p = Nothing([e EXCEPT !.done = TRUE]) /\ ~e.done
  <2> DEFINE x == [e EXCEPT !.done = TRUE]
  <2>1. /\ x \in Episodes /\ x.key = e.key /\ x.crops = e.crops /\ x.read = e.read
        /\ x.pending = e.pending /\ x.submitted = e.submitted /\ x.done
    BY DEF EpisodeFits, Episodes
  <2>2. p.e = x /\ p.task = None BY <1>2 DEF Nothing
  <2> HIDE DEF x
  <2> QED BY <2>1, <2>2, <1>2 DEF EpisodeFits, SameEpisode
<1>3. CASE ~e.done /\ \E C \in SUBSET e.crops : p = Attempt(e, C)
  <2>1. PICK C \in SUBSET e.crops : p = Attempt(e, C) BY <1>3
  <2>2. Fits(p.task, c, F) => p.task # None BY SomethingIsNotNone DEF Fits
  <2> QED BY <2>1, <2>2, <1>3, AttemptFits
<1>4. CASE ~e.done /\ p = Finalize(e)
  <2>2. Fits(p.task, c, F) => p.task # None BY SomethingIsNotNone DEF Fits
  <2> QED BY <2>2, <1>4, FinalizeFits
<1> QED BY <1>1, <1>2, <1>3, <1>4 DEF Prepared

-----------------------------------------------------------------------------
(* Worlds                                                                   *)

\* What an operation on the tracks comes to: it does not touch the camera's
\* lifecycle, and episodes that are over stay as they are.
Goes(w, v) == SameCamera(w, v) /\ Decided(w, v)

LEMMA GoesOn ==
    ASSUME NEW u, NEW v, NEW w, Goes(u, v), Goes(v, w)
    PROVE  Goes(u, w)
<1>1. SameCamera(u, w) BY DEF Goes, SameCamera
<1>2. DOMAIN u.eps \subseteq DOMAIN w.eps BY DEF Goes, Decided
<1>3. ASSUME NEW t \in DOMAIN u.eps, u.eps[t].done
      PROVE  w.eps[t].done /\ w.eps[t].emitted = u.eps[t].emitted
  <2>1. t \in DOMAIN v.eps /\ v.eps[t].done /\ v.eps[t].emitted = u.eps[t].emitted
    BY <1>3 DEF Goes, Decided
  <2> QED BY <2>1 DEF Goes, Decided
<1> QED BY <1>1, <1>2, <1>3 DEF Goes, Decided

LEMMA GoesNowhere == \A w : Goes(w, w)
  BY DEF Goes, SameCamera, Decided

\* Frames of an earlier lifecycle are of an earlier epoch.
LEMMA FitsLater ==
    ASSUME NEW k, NEW c \in Nat, NEW F, NEW d \in Nat, NEW G, Fits(k, c, F),
           c < d \/ (c = d /\ F \subseteq G)
    PROVE  Fits(k, d, G)
<1>1. k.key[1] \in Nat BY DEF Fits, Tasks, Key
<1> QED BY <1>1 DEF Fits

LEMMA WorldFitsMore ==
    ASSUME NEW w, NEW F, NEW H, NEW G, NEW J, WorldFits(w, F, H), F \subseteq G, H \subseteq J
    PROVE  WorldFits(w, G, J)
<1>1. w.cam.epoch \in Nat BY DEF WorldFits, WorldTyped, Cameras
<1>2. ASSUME NEW t \in DOMAIN w.eps PROVE EpisodeFits(w.eps[t], w.cam.epoch, t, G)
  <2>1. EpisodeFits(w.eps[t], w.cam.epoch, t, F) BY DEF WorldFits
  <2>2. w.eps[t].pending # None => Fits(w.eps[t].pending.task, w.cam.epoch, G)
    BY <2>1, <1>1, FitsLater DEF EpisodeFits
  <2> QED BY <2>1, <2>2 DEF EpisodeFits
<1>3. \A k \in w.queue : Fits(k, w.cam.epoch, G) BY <1>1, FitsLater DEF WorldFits
<1>4. Backed(w, J) BY DEF WorldFits, Backed
<1> QED BY <1>2, <1>3, <1>4 DEF WorldFits

\* Nobody waits for a key that no submitted episode has.
LEMMA Unawaited ==
    ASSUME NEW w, NEW F, NEW H, WorldFits(w, F, H), NEW K,
           \A t \in DOMAIN w.eps : w.eps[t].key = K => ~w.eps[t].submitted
    PROVE  WorldFits(w, F, H \ {K})
  BY DEF WorldFits, Backed

\* The episode of a track is written back.
LEMMA WithRecord ==
    ASSUME NEW w, WorldTyped(w), NEW t, NEW e
    PROVE  LET x == [u \in DOMAIN w.eps \cup {t} |-> IF u = t THEN e ELSE w.eps[u]]
           IN  With(w, t, e) = [cam |-> w.cam, eps |-> x, tracker |-> w.tracker, queue |-> w.queue]
<1> DEFINE x == [u \in DOMAIN w.eps \cup {t} |-> IF u = t THEN e ELSE w.eps[u]]
<1>1. With(w, t, e) = [w EXCEPT !.eps = x] BY DEF With, WorldTyped
<1> HIDE DEF x
<1>2. With(w, t, e) = [cam |-> w.cam, eps |-> x, tracker |-> w.tracker, queue |-> w.queue]
  BY <1>1 DEF WorldTyped
<1> QED BY <1>2 DEF x

LEMMA WithEffect ==
    ASSUME NEW w, WorldTyped(w), NEW t, NEW e
    PROVE  LET v == With(w, t, e) IN
           /\ v.cam = w.cam /\ v.tracker = w.tracker /\ v.queue = w.queue
           /\ DOMAIN v.eps = DOMAIN w.eps \cup {t} /\ v.eps[t] = e
           /\ \A u \in DOMAIN w.eps \ {t} : v.eps[u] = w.eps[u]
<1> DEFINE v == With(w, t, e)
           x == [u \in DOMAIN w.eps \cup {t} |-> IF u = t THEN e ELSE w.eps[u]]
<1>0. v = [w EXCEPT !.eps = x] BY DEF With, WorldTyped
<1>1. v = [cam |-> w.cam, eps |-> x, tracker |-> w.tracker, queue |-> w.queue]
  <2> HIDE DEF x, v
  <2> QED BY <1>0 DEF WorldTyped
<1>2. DOMAIN x = DOMAIN w.eps \cup {t} /\ x[t] = e /\ \A u \in DOMAIN w.eps \ {t} : x[u] = w.eps[u]
  OBVIOUS
<1> HIDE DEF x, v
<1>3. /\ v.cam = w.cam /\ v.tracker = w.tracker /\ v.queue = w.queue
      /\ DOMAIN v.eps = DOMAIN w.eps \cup {t} /\ v.eps[t] = e
      /\ \A u \in DOMAIN w.eps \ {t} : v.eps[u] = w.eps[u]
  BY <1>1, <1>2
<1> QED BY <1>3 DEF v

LEMMA WithFits ==
    ASSUME NEW w, NEW F, NEW H, WorldFits(w, F, H), NEW t \in Track, NEW e,
           EpisodeFits(e, w.cam.epoch, t, F),
           e.submitted => e.key \in H \/ \E q \in w.queue : q.key = e.key
    PROVE  WorldFits(With(w, t, e), F, H)
<1> DEFINE v == With(w, t, e)
<1>0. WorldTyped(w) BY DEF WorldFits
<1>1. /\ v.cam = w.cam /\ v.tracker = w.tracker /\ v.queue = w.queue
      /\ DOMAIN v.eps = DOMAIN w.eps \cup {t} /\ v.eps[t] = e
      /\ \A u \in DOMAIN w.eps \ {t} : v.eps[u] = w.eps[u]
      /\ v = [cam |-> w.cam, eps |-> v.eps, tracker |-> w.tracker, queue |-> w.queue]
      /\ v.eps = [u \in DOMAIN w.eps \cup {t} |-> IF u = t THEN e ELSE w.eps[u]]
  <2> DEFINE x == [u \in DOMAIN w.eps \cup {t} |-> IF u = t THEN e ELSE w.eps[u]]
  <2>1. v = [cam |-> w.cam, eps |-> x, tracker |-> w.tracker, queue |-> w.queue]
    BY <1>0, WithRecord
  <2>2. v.eps = x /\ v = [cam |-> w.cam, eps |-> v.eps, tracker |-> w.tracker, queue |-> w.queue]
    <3> HIDE DEF v, x
    <3> QED BY <2>1
  <2>3. /\ v.cam = w.cam /\ v.tracker = w.tracker /\ v.queue = w.queue
        /\ DOMAIN v.eps = DOMAIN w.eps \cup {t} /\ v.eps[t] = e
        /\ \A u \in DOMAIN w.eps \ {t} : v.eps[u] = w.eps[u]
    BY <1>0, WithEffect
  <2> QED BY <2>2, <2>3
<1> HIDE DEF v
<1>2. e \in Episodes BY DEF EpisodeFits
<1>3. v.eps \in [DOMAIN v.eps -> Episodes] /\ DOMAIN v.eps \subseteq Track
  <2>1. w.eps \in [DOMAIN w.eps -> Episodes] /\ DOMAIN w.eps \subseteq Track BY <1>0 DEF WorldTyped
  <2>2. \A u \in DOMAIN w.eps \cup {t} : (IF u = t THEN e ELSE w.eps[u]) \in Episodes
    BY <2>1, <1>2
  <2> QED BY <2>1, <2>2, <1>1
<1>4. WorldTyped(v)
  BY <1>0, <1>1, <1>3 DEF WorldTyped
<1>5. \A u \in DOMAIN v.eps : EpisodeFits(v.eps[u], v.cam.epoch, u, F)
  BY <1>1 DEF WorldFits
<1>6. \A k \in v.queue : Fits(k, v.cam.epoch, F) BY <1>1 DEF WorldFits
<1>7. Backed(v, H)
  BY <1>1 DEF WorldFits, Backed
<1> QED BY <1>4, <1>5, <1>6, <1>7 DEF WorldFits, v

LEMMA WithGoes ==
    ASSUME NEW w, WorldTyped(w), NEW t, NEW e,
           t \in DOMAIN w.eps => SameEpisode(w.eps[t], e)
    PROVE  Goes(w, With(w, t, e))
<1> DEFINE v == With(w, t, e)
<1>1. /\ v.cam = w.cam
      /\ DOMAIN v.eps = DOMAIN w.eps \cup {t} /\ v.eps[t] = e
      /\ \A u \in DOMAIN w.eps \ {t} : v.eps[u] = w.eps[u]
  BY WithEffect
<1> HIDE DEF v
<1>2. SameCamera(w, v) BY <1>1 DEF SameCamera
<1>3. Decided(w, v) BY <1>1 DEF Decided, SameEpisode
<1> QED BY <1>2, <1>3 DEF Goes, v

\* The phase says nothing of tracks and tasks.
LEMMA PhaseFits ==
    ASSUME NEW w, NEW F, NEW H, WorldFits(w, F, H), NEW x \in {"idle", "active", "done"}
    PROVE  LET v == [w EXCEPT !.cam.phase = x]
           IN  /\ WorldFits(v, F, H) /\ Goes(w, v)
               /\ v.eps = w.eps /\ v.tracker = w.tracker /\ v.queue = w.queue
               /\ v.cam.number = w.cam.number
<1> DEFINE v == [w EXCEPT !.cam.phase = x]
           c == [w.cam EXCEPT !.phase = x]
<1>0. WorldTyped(w) BY DEF WorldFits
<1>1. v = [w EXCEPT !.cam = c] BY <1>0 DEF WorldTyped
<1>2. /\ c \in Cameras /\ c.epoch = w.cam.epoch /\ c.life = w.cam.life
      /\ c.source = w.cam.source /\ c.final = w.cam.final /\ c.number = w.cam.number
  BY <1>0 DEF WorldTyped, Cameras
<1>3. /\ v.cam = c /\ v.eps = w.eps /\ v.tracker = w.tracker /\ v.queue = w.queue
      /\ v = [cam |-> c, eps |-> w.eps, tracker |-> w.tracker, queue |-> w.queue]
  <2> HIDE DEF c, v
  <2> QED BY <1>0, <1>1 DEF WorldTyped
<1> HIDE DEF v, c
<1>4. WorldTyped(v) BY <1>0, <1>2, <1>3 DEF WorldTyped
<1>5. WorldFits(v, F, H) BY <1>2, <1>3, <1>4 DEF WorldFits, Backed
<1>6. Goes(w, v) BY <1>2, <1>3 DEF Goes, SameCamera, Decided
<1> QED BY <1>2, <1>3, <1>5, <1>6 DEF v

LEMMA AwakeFits ==
    ASSUME NEW w, NEW F, NEW H, WorldFits(w, F, H)
    PROVE  /\ WorldFits(Awake(w), F, H) /\ Goes(w, Awake(w))
           /\ Awake(w).eps = w.eps /\ Awake(w).tracker = w.tracker /\ Awake(w).queue = w.queue
           /\ Awake(w).cam.number = w.cam.number
<1>1. "active" \in {"idle", "active", "done"} OBVIOUS
<1> QED BY <1>1, PhaseFits DEF Awake

LEMMA RestedFits ==
    ASSUME NEW w, NEW F, NEW H, WorldFits(w, F, H)
    PROVE  /\ WorldFits(Rested(w), F, H) /\ Goes(w, Rested(w))
           /\ Rested(w).eps = w.eps /\ Rested(w).tracker = w.tracker /\ Rested(w).queue = w.queue
<1>1. (IF AllDone(w) THEN "done" ELSE "active") \in {"idle", "active", "done"} OBVIOUS
<1> QED BY <1>1, PhaseFits DEF Rested

\* A task in the queue stands for the readings that are waited for under its key.
LEMMA QueueFits ==
    ASSUME NEW w, NEW F, NEW H, NEW k, Fits(k, w.cam.epoch, F), WorldFits(w, F, H \cup {k.key})
    PROVE  LET v == [w EXCEPT !.queue = @ \cup {k}]
           IN  WorldFits(v, F, H) /\ Goes(w, v) /\ v.eps = w.eps
<1> DEFINE v == [w EXCEPT !.queue = @ \cup {k}]
           Q == w.queue \cup {k}
<1>0. WorldTyped(w) BY DEF WorldFits
<1>1. /\ v.cam = w.cam /\ v.eps = w.eps /\ v.tracker = w.tracker /\ v.queue = Q
      /\ v = [cam |-> w.cam, eps |-> w.eps, tracker |-> w.tracker, queue |-> Q]
  <2>1. v = [w EXCEPT !.queue = Q] BY <1>0 DEF WorldTyped
  <2> HIDE DEF v, Q
  <2> QED BY <1>0, <2>1 DEF WorldTyped
<1> HIDE DEF v
<1>2. k \in Tasks BY DEF Fits
<1>3. WorldTyped(v) BY <1>0, <1>1, <1>2 DEF WorldTyped
<1>4. Backed(v, H) BY <1>1 DEF WorldFits, Backed
<1>5. WorldFits(v, F, H) BY <1>1, <1>3, <1>4 DEF WorldFits
<1>6. Goes(w, v) BY <1>1 DEF Goes, SameCamera, Decided
<1> QED BY <1>1, <1>5, <1>6 DEF v

-----------------------------------------------------------------------------
(* Small changes of an episode                                              *)

LEMMA SeenFits ==
    ASSUME NEW c, NEW t, NEW F, NEW e, EpisodeFits(e, c, t, F), NEW X \in SUBSET Nat
    PROVE  LET x == [e EXCEPT !.seen = @ \cup X]
           IN  EpisodeFits(x, c, t, F) /\ SameEpisode(e, x) /\ x.submitted = e.submitted
<1> DEFINE x == [e EXCEPT !.seen = @ \cup X]
<1>1. /\ x \in Episodes /\ x.key = e.key /\ x.crops = e.crops /\ x.read = e.read
      /\ x.pending = e.pending /\ x.submitted = e.submitted /\ x.done = e.done /\ x.emitted = e.emitted
  BY DEF EpisodeFits, Episodes
<1> HIDE DEF x
<1> QED BY <1>1 DEF EpisodeFits, SameEpisode, x

LEMMA UnsubmittedFits ==
    ASSUME NEW c, NEW t, NEW F, NEW e, EpisodeFits(e, c, t, F)
    PROVE  LET x == [e EXCEPT !.submitted = FALSE]
           IN  EpisodeFits(x, c, t, F) /\ SameEpisode(e, x) /\ ~x.submitted /\ x.done = e.done
<1> DEFINE x == [e EXCEPT !.submitted = FALSE]
<1>1. /\ x \in Episodes /\ x.key = e.key /\ x.crops = e.crops /\ x.read = e.read
      /\ x.pending = e.pending /\ ~x.submitted /\ x.done = e.done /\ x.emitted = e.emitted
  BY DEF EpisodeFits, Episodes
<1> HIDE DEF x
<1> QED BY <1>1 DEF EpisodeFits, SameEpisode, x

LEMMA CropFits ==
    ASSUME NEW c, NEW t, NEW F, NEW e, EpisodeFits(e, c, t, F), NEW n \in Nat, n \in F
    PROVE  LET x == [e EXCEPT !.crops = @ \cup {n}]
           IN  EpisodeFits(x, c, t, F) /\ SameEpisode(e, x) /\ x.submitted = e.submitted
<1> DEFINE x == [e EXCEPT !.crops = @ \cup {n}]
<1>1. /\ x \in Episodes /\ x.key = e.key /\ x.crops = e.crops \cup {n} /\ x.read = e.read
      /\ x.pending = e.pending /\ x.submitted = e.submitted /\ x.done = e.done /\ x.emitted = e.emitted
  BY DEF EpisodeFits, Episodes
<1> HIDE DEF x
<1> QED BY <1>1 DEF EpisodeFits, SameEpisode, x

LEMMA GoneFits ==
    ASSUME NEW c, NEW t, NEW F, NEW e, EpisodeFits(e, c, t, F)
    PROVE  LET x == [e EXCEPT !.gone = TRUE]
           IN  EpisodeFits(x, c, t, F) /\ SameEpisode(e, x) /\ x.submitted = e.submitted
<1> DEFINE x == [e EXCEPT !.gone = TRUE]
<1>1. /\ x \in Episodes /\ x.key = e.key /\ x.crops = e.crops /\ x.read = e.read
      /\ x.pending = e.pending /\ x.submitted = e.submitted /\ x.done = e.done /\ x.emitted = e.emitted
  BY DEF EpisodeFits, Episodes
<1> HIDE DEF x
<1> QED BY <1>1 DEF EpisodeFits, SameEpisode, x

LEMMA DoneFits ==
    ASSUME NEW c, NEW t, NEW F, NEW e, EpisodeFits(e, c, t, F), ~e.submitted
    PROVE  LET x == [e EXCEPT !.done = TRUE]
           IN  EpisodeFits(x, c, t, F) /\ SameEpisode(e, x) /\ ~x.submitted
<1> DEFINE x == [e EXCEPT !.done = TRUE]
<1>1. /\ x \in Episodes /\ x.key = e.key /\ x.crops = e.crops /\ x.read = e.read
      /\ x.pending = e.pending /\ x.submitted = e.submitted /\ x.done /\ x.emitted = e.emitted
  BY DEF EpisodeFits, Episodes
<1> HIDE DEF x
<1> QED BY <1>1 DEF EpisodeFits, SameEpisode, x

-----------------------------------------------------------------------------
(* Operations on tracks                                                     *)

\* The episode of a track that has one.
LEMMA EpisodeOf ==
    ASSUME NEW w, NEW F, NEW H, WorldFits(w, F, H), NEW t \in DOMAIN w.eps
    PROVE  /\ t \in Track /\ EpisodeFits(w.eps[t], w.cam.epoch, t, F)
           /\ w.eps[t].submitted => w.eps[t].key \in H \/ \E q \in w.queue : q.key = w.eps[t].key
  BY DEF WorldFits, WorldTyped, Backed

\* Writing back an episode that only went on.
LEMMA WithNext ==
    ASSUME NEW w, NEW F, NEW H, WorldFits(w, F, H), NEW t \in DOMAIN w.eps, NEW e,
           EpisodeFits(e, w.cam.epoch, t, F), SameEpisode(w.eps[t], e),
           e.submitted => w.eps[t].submitted
    PROVE  WorldFits(With(w, t, e), F, H) /\ Goes(w, With(w, t, e))
<1>1. t \in Track /\ (e.submitted => e.key \in H \/ \E q \in w.queue : q.key = e.key)
  BY EpisodeOf DEF SameEpisode
<1>2. WorldTyped(w) BY DEF WorldFits
<1> QED BY <1>1, <1>2, WithFits, WithGoes

\* A task that is put in the queue, or refused, leaves nobody waiting in vain.
LEMMA SubmittedFits ==
    ASSUME fusion \in BOOLEAN, NEW w, NEW F, NEW H, WorldFits(w, F, H), NEW t \in DOMAIN w.eps,
           NEW force \in BOOLEAN, NEW v \in Submitted(w, t, force)
    PROVE  WorldFits(v, F, H) /\ Goes(w, v)
<1> DEFINE c == w.cam.epoch
<1>1. t \in Track /\ EpisodeFits(w.eps[t], c, t, F) BY EpisodeOf
<1>2. WorldTyped(w) BY DEF WorldFits
<1>3. PICK p \in Prepared(w.eps[t], force) :
         v \in IF p.task = None THEN {With(w, t, p.e)}
               ELSE {Awake([With(w, t, [p.e EXCEPT !.seen = @ \cup p.task.crops])
                              EXCEPT !.queue = @ \cup {p.task}])}
                    \cup {Awake(With(w, t, IF p.task.finalize THEN [p.e EXCEPT !.submitted = FALSE]
                                           ELSE Released(p.e)))}
  BY DEF Submitted
<1>4. /\ EpisodeFits(p.e, c, t, F) /\ SameEpisode(w.eps[t], p.e)
      /\ p.task = None => p.e.submitted = w.eps[t].submitted
      /\ p.task # None => /\ ~w.eps[t].done /\ ~p.e.done
                          /\ Fits(p.task, c, F) /\ p.task.key = w.eps[t].key /\ p.task.crops \subseteq F
  BY <1>1, PreparedFits
<1>5. CASE p.task = None
  <2>1. v = With(w, t, p.e) BY <1>3, <1>5
  <2> QED BY <2>1, <1>4, <1>5, WithNext
<1>6. CASE /\ p.task # None
           /\ v = Awake([With(w, t, [p.e EXCEPT !.seen = @ \cup p.task.crops]) EXCEPT !.queue = @ \cup {p.task}])
  <2> DEFINE x == [p.e EXCEPT !.seen = @ \cup p.task.crops]
             u == With(w, t, x)
             q == [u EXCEPT !.queue = @ \cup {p.task}]
  <2>1. p.task.crops \in SUBSET Nat BY <1>4, <1>6 DEF Fits, Tasks
  <2>2. EpisodeFits(x, c, t, F) /\ SameEpisode(p.e, x) BY <1>4, <2>1, SeenFits
  <2>3. x.key = p.task.key /\ SameEpisode(w.eps[t], x) BY <2>2, <1>4, <1>6 DEF SameEpisode
  <2> HIDE DEF x
  <2>4. WorldFits(w, F, H \cup {p.task.key}) BY WorldFitsMore
  <2>5. WorldFits(u, F, H \cup {p.task.key}) BY <2>2, <2>3, <2>4, <1>1, WithFits
  <2>6. Goes(w, u) BY <1>2, <2>3, WithGoes
  <2>7. Fits(p.task, u.cam.epoch, F)
    <3>1. u.cam = w.cam BY <1>2, WithEffect
    <3> QED BY <3>1, <1>4, <1>6
  <2> HIDE DEF u
  <2>8. WorldFits(q, F, H) /\ Goes(u, q) BY <2>5, <2>7, QueueFits
  <2> HIDE DEF q
  <2>9. v = Awake(q) BY <1>6 DEF q, u, x
  <2>10. WorldFits(v, F, H) /\ Goes(q, v) BY <2>8, <2>9, AwakeFits
  <2> QED BY <2>6, <2>8, <2>10, GoesOn
<1>7. CASE /\ p.task # None
           /\ v = Awake(With(w, t, IF p.task.finalize THEN [p.e EXCEPT !.submitted = FALSE]
                                   ELSE Released(p.e)))
  <2> DEFINE x == IF p.task.finalize THEN [p.e EXCEPT !.submitted = FALSE] ELSE Released(p.e)
  <2>1. EpisodeFits(x, c, t, F) /\ SameEpisode(p.e, x) /\ ~x.submitted
    <3>1. CASE p.task.finalize BY <3>1, <1>4, UnsubmittedFits
    <3>2. CASE ~p.task.finalize BY <3>2, <1>4, ReleasedFits
    <3> QED BY <3>1, <3>2
  <2>2. v = Awake(With(w, t, x)) BY <1>7
  <2> HIDE DEF x
  <2>3. SameEpisode(w.eps[t], x) BY <2>1, <1>4, <1>7 DEF SameEpisode
  <2>4. WorldFits(With(w, t, x), F, H) /\ Goes(w, With(w, t, x)) BY <2>1, <2>3, WithNext
  <2>5. WorldFits(v, F, H) /\ Goes(With(w, t, x), v) BY <2>2, <2>4, AwakeFits
  <2> QED BY <2>4, <2>5, GoesOn
<1> QED BY <1>3, <1>5, <1>6, <1>7

\* A frame adds evidence of its own lifecycle.
LEMMA HarvestedFits ==
    ASSUME fusion \in BOOLEAN, NEW w, NEW F, NEW H, WorldFits(w, F, H), NEW n \in Nat, n \in F,
           NEW t \in Track, NEW v \in Harvested(w, n, t)
    PROVE  WorldFits(v, F, H) /\ Goes(w, v)
<1> DEFINE c == w.cam.epoch
           e == IF t \in DOMAIN w.eps THEN w.eps[t] ELSE NewEpisode(w.cam, t, n)
           x == [e EXCEPT !.crops = @ \cup {n}]
           kept == With(w, t, x)
<1>1. WorldTyped(w) BY DEF WorldFits
<1>2. /\ EpisodeFits(e, c, t, F)
      /\ e.submitted => e.key \in H \/ \E q \in w.queue : q.key = e.key
      /\ t \in DOMAIN w.eps => SameEpisode(w.eps[t], e)
  <2>1. CASE t \in DOMAIN w.eps BY <2>1, EpisodeOf DEF SameEpisode
  <2>2. CASE t \notin DOMAIN w.eps
    <3>1. w.cam \in Cameras BY <1>1 DEF WorldTyped
    <3> QED BY <2>2, <3>1, NewEpisodeFits
  <2> QED BY <2>1, <2>2
<1>3. v = w \/ v = With(w, t, e) \/ v = kept \/ v \in Submitted(Awake(kept), t, FALSE)
  BY DEF Harvested
<1> HIDE DEF e
<1>4. EpisodeFits(x, c, t, F) /\ SameEpisode(e, x) /\ x.submitted = e.submitted
  BY <1>2, CropFits
<1> HIDE DEF x
<1>5. CASE v = w BY <1>5, GoesNowhere
<1>6. CASE v = With(w, t, e) BY <1>1, <1>2, <1>6, WithFits, WithGoes
<1>7. WorldFits(kept, F, H) /\ Goes(w, kept)
  <2>1. t \in DOMAIN w.eps => SameEpisode(w.eps[t], x) BY <1>2, <1>4 DEF SameEpisode
  <2>2. x.submitted => x.key \in H \/ \E q \in w.queue : q.key = x.key
    BY <1>2, <1>4 DEF SameEpisode
  <2> QED BY <1>1, <1>4, <2>1, <2>2, WithFits, WithGoes
<1>8. t \in DOMAIN kept.eps
  <2>1. DOMAIN kept.eps = DOMAIN w.eps \cup {t} BY <1>1, WithEffect
  <2> QED BY <2>1
<1> HIDE DEF kept
<1>9. CASE v \in Submitted(Awake(kept), t, FALSE)
  <2>1. /\ WorldFits(Awake(kept), F, H) /\ Goes(kept, Awake(kept)) /\ t \in DOMAIN Awake(kept).eps
    BY <1>7, <1>8, AwakeFits
  <2>2. WorldFits(v, F, H) /\ Goes(Awake(kept), v) BY <1>9, <2>1, SubmittedFits
  <2> QED BY <1>7, <2>1, <2>2, GoesOn
<1> QED BY <1>3, <1>5, <1>6, <1>7, <1>9

\* So does giving a track up.
LEMMA ExitedFits ==
    ASSUME fusion \in BOOLEAN, NEW w, NEW F, NEW H, WorldFits(w, F, H), NEW t, NEW v \in Exited(w, t)
    PROVE  WorldFits(v, F, H) /\ Goes(w, v)
<1>1. CASE t \notin DOMAIN w.eps BY <1>1, GoesNowhere DEF Exited
<1>2. CASE t \in DOMAIN w.eps
  <2> DEFINE x == [w.eps[t] EXCEPT !.gone = TRUE]
             u == With(w, t, x)
  <2>1. EpisodeFits(w.eps[t], w.cam.epoch, t, F) BY <1>2, EpisodeOf
  <2>2. EpisodeFits(x, w.cam.epoch, t, F) /\ SameEpisode(w.eps[t], x) /\ x.submitted = w.eps[t].submitted
    BY <2>1, GoneFits
  <2>3. PICK s \in Submitted(u, t, TRUE) :
           v = IF s.eps[t].submitted THEN s ELSE With(s, t, [s.eps[t] EXCEPT !.done = TRUE])
    BY <1>2 DEF Exited
  <2> HIDE DEF x
  <2>4. WorldFits(u, F, H) /\ Goes(w, u) BY <1>2, <2>2, WithNext
  <2>5. t \in DOMAIN u.eps BY <1>2, <2>4 DEF Goes, Decided
  <2> HIDE DEF u
  <2>6. WorldFits(s, F, H) /\ Goes(u, s) BY <2>3, <2>4, <2>5, SubmittedFits
  <2>7. t \in DOMAIN s.eps /\ Goes(w, s) BY <2>4, <2>5, <2>6, GoesOn DEF Goes, Decided
  <2>8. CASE s.eps[t].submitted BY <2>3, <2>6, <2>7, <2>8
  <2>9. CASE ~s.eps[t].submitted
    <3> DEFINE y == [s.eps[t] EXCEPT !.done = TRUE]
    <3>1. EpisodeFits(s.eps[t], s.cam.epoch, t, F) BY <2>6, <2>7, EpisodeOf
    <3>2. EpisodeFits(y, s.cam.epoch, t, F) /\ SameEpisode(s.eps[t], y) /\ ~y.submitted
      BY <2>9, <3>1, DoneFits
    <3>3. v = With(s, t, y) BY <2>3, <2>9
    <3> HIDE DEF y
    <3>4. WorldFits(v, F, H) /\ Goes(s, v) BY <2>6, <2>7, <3>2, <3>3, WithNext
    <3> QED BY <2>7, <3>4, GoesOn
  <2> QED BY <2>8, <2>9
<1> QED BY <1>1, <1>2

-----------------------------------------------------------------------------
(* Outcomes of a reading                                                    *)

\* An episode that waits no more is written back: nobody waits for its key.
LEMMA WithAnswered ==
    ASSUME NEW w, NEW F, NEW H, WorldFits(w, F, H), NEW t \in DOMAIN w.eps, NEW e,
           EpisodeFits(e, w.cam.epoch, t, F), SameEpisode(w.eps[t], e), ~e.submitted
    PROVE  WorldFits(With(w, t, e), F, H \ {e.key}) /\ Goes(w, With(w, t, e))
<1> DEFINE v == With(w, t, e)
<1>1. WorldFits(v, F, H) /\ Goes(w, v) BY WithNext
<1>2. WorldTyped(w) BY DEF WorldFits
<1>3. v.eps[t] = e BY <1>2, WithEffect
<1> HIDE DEF v
<1>4. \A u \in DOMAIN v.eps : v.eps[u].key = e.key => ~v.eps[u].submitted
  BY <1>1, <1>3 DEF WorldFits, EpisodeFits
<1>5. WorldFits(v, F, H \ {e.key}) BY <1>1, <1>4, Unawaited
<1> QED BY <1>1, <1>5 DEF v

\* Ending an episode, with an event or without, or going on with it.
LEMMA ConcludedFits ==
    ASSUME NEW w, NEW F, NEW H, WorldFits(w, F, H), NEW t \in DOMAIN w.eps, NEW e,
           EpisodeFits(e, w.cam.epoch, t, F), e.key = w.eps[t].key, ~e.submitted, ~w.eps[t].done,
           NEW v \in Claimed(w, t, e) \cup Closed(w, t, e) \cup Kept(w, t, e)
    PROVE  WorldFits(v, F, H \ {e.key}) /\ Goes(w, v)
<1>1. ASSUME NEW x, EpisodeFits(x, w.cam.epoch, t, F), x.key = e.key, ~x.submitted,
             v = Rested(With(w, t, x)) \/ v = Awake(With(w, t, x))
      PROVE  WorldFits(v, F, H \ {e.key}) /\ Goes(w, v)
  <2> DEFINE u == With(w, t, x)
  <2>1. SameEpisode(w.eps[t], x) BY <1>1 DEF SameEpisode
  <2>2. WorldFits(u, F, H \ {e.key}) /\ Goes(w, u) BY <1>1, <2>1, WithAnswered
  <2> HIDE DEF u
  <2>3. WorldFits(v, F, H \ {e.key}) /\ Goes(u, v)
    <3>1. v = Rested(u) \/ v = Awake(u) BY <1>1 DEF u
    <3> QED BY <2>2, <3>1, AwakeFits, RestedFits
  <2> QED BY <2>2, <2>3, GoesOn
<1>2. ASSUME NEW b \in BOOLEAN, v = Rested(With(w, t, [e EXCEPT !.done = TRUE, !.emitted = b]))
      PROVE  WorldFits(v, F, H \ {e.key}) /\ Goes(w, v)
  <2> DEFINE x == [e EXCEPT !.done = TRUE, !.emitted = b]
  <2>1. /\ x \in Episodes /\ x.key = e.key /\ x.crops = e.crops /\ x.read = e.read
        /\ x.pending = e.pending /\ x.submitted = e.submitted /\ x.done
    BY DEF EpisodeFits, Episodes
  <2>2. v = Rested(With(w, t, x)) BY <1>2
  <2> HIDE DEF x
  <2>3. EpisodeFits(x, w.cam.epoch, t, F) BY <2>1 DEF EpisodeFits
  <2> QED BY <1>1, <2>1, <2>2, <2>3
<1>3. ASSUME v = Rested(With(w, t, [e EXCEPT !.done = TRUE]))
      PROVE  WorldFits(v, F, H \ {e.key}) /\ Goes(w, v)
  <2> DEFINE x == [e EXCEPT !.done = TRUE]
  <2>1. EpisodeFits(x, w.cam.epoch, t, F) /\ SameEpisode(e, x) /\ ~x.submitted BY DoneFits
  <2>2. v = Rested(With(w, t, x)) BY <1>3
  <2> HIDE DEF x
  <2> QED BY <1>1, <2>1, <2>2 DEF SameEpisode
<1>4. ASSUME v = Awake(With(w, t, e))
      PROVE  WorldFits(v, F, H \ {e.key}) /\ Goes(w, v)
  BY <1>1, <1>4
<1> QED BY <1>2, <1>3, <1>4 DEF Claimed, Closed, Kept

LEMMA FusedFits ==
    ASSUME NEW w, NEW F, NEW H, WorldFits(w, F, H), NEW k, Fits(k, w.cam.epoch, F), Live(w, k),
           NEW good \in BOOLEAN, NEW v \in Fused(w, k, good)
    PROVE  WorldFits(v, F, H \ {k.key}) /\ Goes(w, v)
<1> DEFINE t == k.key[3]
           g == IF k.finalize THEN "final" ELSE IF good THEN "locked" ELSE "open"
           e == [w.eps[t] EXCEPT !.submitted = FALSE, !.inflight = FALSE, !.read = @ \cup k.crops, !.rec = g]
<1>1. t \in DOMAIN w.eps /\ w.eps[t].key = k.key /\ ~w.eps[t].done /\ k.crops \subseteq F
      /\ k.crops \in SUBSET Nat
  BY DEF Live, Same, Fits, Tasks
<1>2. EpisodeFits(w.eps[t], w.cam.epoch, t, F) BY <1>1, EpisodeOf
<1>3. EpisodeFits(e, w.cam.epoch, t, F) /\ e.key = k.key /\ ~e.submitted
  <2>1. g \in {"open", "locked", "final", "closed"} OBVIOUS
  <2> HIDE DEF g, t
  <2>2. /\ e \in Episodes /\ e.key = k.key /\ e.crops = w.eps[t].crops
        /\ e.read = w.eps[t].read \cup k.crops /\ e.pending = w.eps[t].pending
        /\ e.submitted = FALSE /\ e.done = w.eps[t].done /\ e.emitted = w.eps[t].emitted
    BY <1>1, <1>2, <2>1 DEF EpisodeFits, Episodes
  <2> HIDE DEF e
  <2> QED BY <1>1, <1>2, <2>2 DEF EpisodeFits
<1>4. \/ v = With(w, t, e)
      \/ v \in Claimed(w, t, e) \/ v \in Claimed(w, t, [e EXCEPT !.rec = "final"])
      \/ v \in Kept(w, t, e) \/ v \in Closed(w, t, [e EXCEPT !.rec = "closed"])
  BY DEF Fused
<1> HIDE DEF e, t
<1>5. CASE v = With(w, t, e)
  <2>1. SameEpisode(w.eps[t], e) BY <1>1, <1>3 DEF SameEpisode
  <2> QED BY <1>1, <1>3, <1>5, <2>1, WithAnswered
<1>6. CASE v \in Claimed(w, t, e) \/ v \in Kept(w, t, e)
  BY <1>1, <1>3, <1>6, ConcludedFits
<1>7. CASE v \in Claimed(w, t, [e EXCEPT !.rec = "final"]) \/ v \in Closed(w, t, [e EXCEPT !.rec = "closed"])
  <2>1. PICK f \in {"final", "closed"} :
           v \in Claimed(w, t, [e EXCEPT !.rec = f]) \cup Closed(w, t, [e EXCEPT !.rec = f])
    BY <1>7
  <2> DEFINE x == [e EXCEPT !.rec = f]
  <2>2. EpisodeFits(x, w.cam.epoch, t, F) /\ x.key = k.key /\ ~x.submitted
    <3>1. /\ x \in Episodes /\ x.key = e.key /\ x.crops = e.crops /\ x.read = e.read
          /\ x.pending = e.pending /\ x.submitted = e.submitted /\ x.done = e.done
          /\ x.emitted = e.emitted
      BY <1>3, <2>1 DEF EpisodeFits, Episodes
    <3> HIDE DEF x
    <3> QED BY <1>3, <3>1 DEF EpisodeFits
  <2>3. v \in Claimed(w, t, x) \cup Closed(w, t, x) BY <2>1
  <2> HIDE DEF x
  <2> QED BY <1>1, <2>2, <2>3, ConcludedFits
<1> QED BY <1>4, <1>5, <1>6, <1>7

LEMMA VotedFits ==
    ASSUME NEW w, NEW F, NEW H, WorldFits(w, F, H), NEW k, Fits(k, w.cam.epoch, F), Live(w, k),
           NEW good \in BOOLEAN, NEW v \in Voted(w, k, good)
    PROVE  WorldFits(v, F, H \ {k.key}) /\ Goes(w, v)
<1> DEFINE t == k.key[3]
           e == [w.eps[t] EXCEPT !.submitted = FALSE, !.read = @ \cup k.crops]
<1>1. t \in DOMAIN w.eps /\ w.eps[t].key = k.key /\ ~w.eps[t].done /\ k.crops \subseteq F
      /\ k.crops \in SUBSET Nat
  BY DEF Live, Same, Fits, Tasks
<1>2. EpisodeFits(w.eps[t], w.cam.epoch, t, F) BY <1>1, EpisodeOf
<1>3. EpisodeFits(e, w.cam.epoch, t, F) /\ e.key = k.key /\ ~e.submitted
  <2> HIDE DEF t
  <2>1. /\ e \in Episodes /\ e.key = k.key /\ e.crops = w.eps[t].crops
        /\ e.read = w.eps[t].read \cup k.crops /\ e.pending = w.eps[t].pending
        /\ e.submitted = FALSE /\ e.done = w.eps[t].done /\ e.emitted = w.eps[t].emitted
    BY <1>1, <1>2 DEF EpisodeFits, Episodes
  <2> HIDE DEF e
  <2> QED BY <1>1, <1>2, <2>1 DEF EpisodeFits
<1>4. v \in Claimed(w, t, e) \cup Closed(w, t, e) \cup Kept(w, t, e)
  BY DEF Voted
<1> HIDE DEF e, t
<1> QED BY <1>1, <1>3, <1>4, ConcludedFits

\* Whether a result is taken or refused, no episode waits for it afterwards.
LEMMA AppliedFits ==
    ASSUME NEW w, NEW F, NEW H, WorldFits(w, F, H), NEW k, Fits(k, w.cam.epoch, F),
           NEW good \in BOOLEAN, NEW v \in Applied(w, k, good)
    PROVE  WorldFits(v, F, H \ {k.key}) /\ Goes(w, v)
<1>1. CASE ~Live(w, k)
  <2>1. v = w BY <1>1 DEF Applied
  <2>2. ASSUME NEW t \in DOMAIN w.eps, w.eps[t].key = k.key PROVE ~w.eps[t].submitted
    <3>1. EpisodeFits(w.eps[t], w.cam.epoch, t, F) BY EpisodeOf
    <3>2. Same(w, k) BY <2>2, <3>1 DEF Same, EpisodeFits
    <3> QED BY <1>1, <2>2, <3>1, <3>2 DEF Live, EpisodeFits
  <2> QED BY <2>1, <2>2, Unawaited, GoesNowhere
<1>2. CASE Live(w, k)
  <2>1. v \in Fused(w, k, good) \/ v \in Voted(w, k, good) BY <1>2 DEF Applied
  <2> QED BY <1>2, <2>1, FusedFits, VotedFits
<1> QED BY <1>1, <1>2

\* The same for a task that was given up.
LEMMA ReconciledFits ==
    ASSUME NEW w, NEW F, NEW H, WorldFits(w, F, H), NEW k, Fits(k, w.cam.epoch, F),
           NEW v \in Reconciled(w, k)
    PROVE  WorldFits(v, F, H \ {k.key}) /\ Goes(w, v)
<1> DEFINE t == k.key[3]
<1>1. CASE k.finalize
  BY <1>1, AppliedFits DEF Reconciled
<1>2. CASE ~k.finalize /\ ~(Same(w, k) /\ w.eps[t].submitted)
  <2>1. v = w BY <1>2 DEF Reconciled
  <2>2. ASSUME NEW u \in DOMAIN w.eps, w.eps[u].key = k.key PROVE ~w.eps[u].submitted
    <3>1. EpisodeFits(w.eps[u], w.cam.epoch, u, F) BY EpisodeOf
    <3>2. Same(w, k) /\ u = t BY <2>2, <3>1 DEF Same, EpisodeFits
    <3> QED BY <1>2, <3>2
  <2> QED BY <2>1, <2>2, Unawaited, GoesNowhere
<1>3. CASE ~k.finalize /\ Same(w, k) /\ w.eps[t].submitted
  <2> DEFINE r == Released(w.eps[t])
             e == IF fusion THEN [r EXCEPT !.seen = @ \ k.crops]
                  ELSE [w.eps[t] EXCEPT !.submitted = FALSE]
  <2>1. t \in DOMAIN w.eps /\ w.eps[t].key = k.key BY <1>3 DEF Same
  <2>2. v \in Closed(w, t, e) \cup Kept(w, t, e) BY <1>3 DEF Reconciled
  <2> HIDE DEF t
  <2>3. EpisodeFits(w.eps[t], w.cam.epoch, t, F) BY <2>1, EpisodeOf
  <2>4. ~w.eps[t].done BY <1>3, <2>3 DEF EpisodeFits
  <2>5. EpisodeFits(e, w.cam.epoch, t, F) /\ e.key = k.key /\ ~e.submitted
    <3>1. CASE fusion
      <4>1. EpisodeFits(r, w.cam.epoch, t, F) /\ r.key = k.key /\ ~r.submitted
        BY <2>1, <2>3, ReleasedFits DEF SameEpisode
      <4> DEFINE x == [r EXCEPT !.seen = @ \ k.crops]
      <4>2. e = x BY <3>1
      <4> HIDE DEF r, e
      <4>3. /\ x \in Episodes /\ x.key = r.key /\ x.crops = r.crops /\ x.read = r.read
            /\ x.pending = r.pending /\ x.submitted = r.submitted /\ x.done = r.done /\ x.emitted = r.emitted
        BY <4>1 DEF EpisodeFits, Episodes
      <4> HIDE DEF x
      <4> QED BY <4>1, <4>2, <4>3 DEF EpisodeFits
    <3>2. CASE ~fusion
      <4>1. e = [w.eps[t] EXCEPT !.submitted = FALSE] BY <3>2
      <4> HIDE DEF e
      <4> QED BY <2>1, <2>3, <4>1, UnsubmittedFits DEF SameEpisode
    <3> QED BY <3>1, <3>2
  <2> HIDE DEF e
  <2> QED BY <2>1, <2>2, <2>4, <2>5, ConcludedFits
<1> QED BY <1>1, <1>2, <1>3

-----------------------------------------------------------------------------
(* The camera as a whole                                                    *)

\* No episode, no track that is followed.
Bare(w) == DOMAIN w.eps = {} /\ w.tracker.live = {}

\* What a step of a detector or a producer comes to: the camera goes on, or all
\* its episodes are put aside.
Moves(w, v) == SameCamera(w, v) /\ (Decided(w, v) \/ DOMAIN v.eps = {})

LEMMA NoTrackerIsOne == NoTracker \in Trackers /\ NoTracker.live = {}
  BY DEF NoTracker, Trackers

LEMMA NoEpisodeIsOne == NoEpisode \in [{} -> Episodes] /\ DOMAIN NoEpisode = {}
  BY DEF NoEpisode

LEMMA TrackerFits ==
    ASSUME NEW w, NEW F, NEW H, WorldFits(w, F, H), NEW L \in Trackers
    PROVE  LET v == [w EXCEPT !.tracker = L]
           IN  /\ WorldFits(v, F, H) /\ Goes(w, v)
               /\ v.cam = w.cam /\ v.eps = w.eps /\ v.tracker = L /\ v.queue = w.queue
<1> DEFINE v == [w EXCEPT !.tracker = L]
<1>0. WorldTyped(w) BY DEF WorldFits
<1>1. /\ v.cam = w.cam /\ v.eps = w.eps /\ v.tracker = L /\ v.queue = w.queue
      /\ v = [cam |-> w.cam, eps |-> w.eps, tracker |-> L, queue |-> w.queue]
  BY <1>0 DEF WorldTyped
<1> HIDE DEF v
<1>2. WorldTyped(v) BY <1>0, <1>1 DEF WorldTyped
<1>3. WorldFits(v, F, H) BY <1>1, <1>2 DEF WorldFits, Backed
<1>4. Goes(w, v) BY <1>1 DEF Goes, SameCamera, Decided
<1> QED BY <1>1, <1>3, <1>4 DEF v

\* The camera is put in a state, and its episodes aside.
LEMMA ClearedFits ==
    ASSUME NEW w, NEW F, NEW H, WorldFits(w, F, H)
    PROVE  /\ WorldFits(Cleared(w), F, H) /\ SameCamera(w, Cleared(w)) /\ Bare(Cleared(w))
           /\ Cleared(w).queue = w.queue /\ Cleared(w).cam.phase = "idle"
<1> DEFINE v == Cleared(w)
           c == [w.cam EXCEPT !.phase = "idle"]
<1>0. WorldTyped(w) BY DEF WorldFits
<1>1. v = [[w EXCEPT !.cam = c] EXCEPT !.eps = NoEpisode, !.tracker = NoTracker]
  BY <1>0 DEF Cleared, WorldTyped
<1>2. /\ c \in Cameras /\ c.epoch = w.cam.epoch /\ c.life = w.cam.life /\ c.phase = "idle"
      /\ c.source = w.cam.source /\ c.final = w.cam.final
  BY <1>0 DEF WorldTyped, Cameras
<1> HIDE DEF c
<1>3. /\ v.cam = c /\ v.eps = NoEpisode /\ v.tracker = NoTracker /\ v.queue = w.queue
      /\ v = [cam |-> c, eps |-> NoEpisode, tracker |-> NoTracker, queue |-> w.queue]
  <2> HIDE DEF v
  <2> QED BY <1>0, <1>1 DEF WorldTyped
<1> HIDE DEF v
<1>4. WorldTyped(v) BY <1>0, <1>2, <1>3, NoTrackerIsOne, NoEpisodeIsOne DEF WorldTyped
<1>5. WorldFits(v, F, H) BY <1>2, <1>3, <1>4, NoEpisodeIsOne DEF WorldFits, Backed
<1> QED BY <1>2, <1>3, <1>5, NoTrackerIsOne, NoEpisodeIsOne DEF SameCamera, Bare, v

LEMMA WokenFits ==
    ASSUME NEW w, NEW F, NEW H, WorldFits(w, F, H)
    PROVE  /\ WorldFits(Woken(w), F, H) /\ Goes(w, Woken(w))
           /\ Woken(w).eps = w.eps /\ Woken(w).tracker = w.tracker /\ Woken(w).queue = w.queue
<1> DEFINE u == Awake(w)
           v == [u EXCEPT !.cam.number = @ + 1]
           c == [u.cam EXCEPT !.number = @ + 1]
<1>1. /\ WorldFits(u, F, H) /\ Goes(w, u)
      /\ u.eps = w.eps /\ u.tracker = w.tracker /\ u.queue = w.queue
  BY AwakeFits
<1>2. v = Woken(w) BY DEF Woken
<1> HIDE DEF u
<1>0. WorldTyped(u) BY <1>1 DEF WorldFits
<1>3. v = [u EXCEPT !.cam = c] BY <1>0 DEF WorldTyped
<1>4. /\ c \in Cameras /\ c.epoch = u.cam.epoch /\ c.life = u.cam.life
      /\ c.source = u.cam.source /\ c.final = u.cam.final
  BY <1>0 DEF WorldTyped, Cameras
<1> HIDE DEF c
<1>5. /\ v.cam = c /\ v.eps = u.eps /\ v.tracker = u.tracker /\ v.queue = u.queue
      /\ v = [cam |-> c, eps |-> u.eps, tracker |-> u.tracker, queue |-> u.queue]
  <2> HIDE DEF v
  <2> QED BY <1>0, <1>3 DEF WorldTyped
<1> HIDE DEF v
<1>6. WorldTyped(v) BY <1>0, <1>4, <1>5 DEF WorldTyped
<1>7. WorldFits(v, F, H) BY <1>1, <1>4, <1>5, <1>6 DEF WorldFits, Backed
<1>8. Goes(u, v) BY <1>4, <1>5 DEF Goes, SameCamera, Decided
<1> QED BY <1>1, <1>2, <1>5, <1>7, <1>8, GoesOn

\* Of an earlier lifecycle nothing is waited for, and every task is too old.
LEMMA RestartedFits ==
    ASSUME NEW w, NEW F, NEW H, WorldFits(w, F, H), NEW G, NEW J
    PROVE  LET v == Restarted(w)
           IN  /\ WorldFits(v, G, J) /\ Bare(v) /\ v.cam.epoch = w.cam.epoch + 1
               /\ v.cam.life = w.cam.life /\ v.cam.source = w.cam.source
               /\ v.cam.final = w.cam.final /\ v.cam.phase = "idle"
<1> DEFINE v == Restarted(w)
           u == Cleared(w)
           c == [u.cam EXCEPT !.epoch = @ + 1]
           Q == {k \in u.queue : k.key \notin Keys(w.eps)}
<1>1. /\ WorldFits(u, F, H) /\ SameCamera(w, u) /\ Bare(u) /\ u.cam.phase = "idle"
      /\ u.queue = w.queue
  BY ClearedFits
<1>2. v = [u EXCEPT !.cam.epoch = @ + 1, !.queue = {k \in @ : k.key \notin Keys(w.eps)}]
  BY DEF Restarted
<1>0. WorldTyped(u) BY <1>1 DEF WorldFits
<1> HIDE DEF u, v
<1>3. v = [u EXCEPT !.cam = c, !.queue = Q] BY <1>0, <1>2 DEF WorldTyped
<1>4. /\ c \in Cameras /\ c.epoch = u.cam.epoch + 1 /\ c.life = u.cam.life
      /\ c.source = u.cam.source /\ c.final = u.cam.final /\ c.phase = u.cam.phase
  BY <1>0 DEF WorldTyped, Cameras
<1>5. Q \subseteq u.queue OBVIOUS
<1> HIDE DEF c, Q
<1>6. /\ v.cam = c /\ v.eps = u.eps /\ v.tracker = u.tracker /\ v.queue = Q
      /\ v = [cam |-> c, eps |-> u.eps, tracker |-> u.tracker, queue |-> Q]
  BY <1>0, <1>3 DEF WorldTyped
<1>7. WorldTyped(v) BY <1>0, <1>4, <1>5, <1>6 DEF WorldTyped
<1>8. ASSUME NEW k \in v.queue PROVE Fits(k, v.cam.epoch, G)
  <2>1. Fits(k, u.cam.epoch, F) /\ u.cam.epoch \in Nat /\ v.cam.epoch = u.cam.epoch + 1
    BY <1>0, <1>1, <1>4, <1>5, <1>6, <1>8 DEF WorldFits, WorldTyped, Cameras
  <2> QED BY <2>1, FitsLater
<1>9. DOMAIN v.eps = {} BY <1>1, <1>6 DEF Bare
<1>10. WorldFits(v, G, J) BY <1>7, <1>8, <1>9 DEF WorldFits, Backed
<1> QED BY <1>1, <1>4, <1>6, <1>10 DEF Bare, SameCamera, v

LEMMA MaxOne == \A t \in Int : Max({t}) = t
  BY DEF Max

\* A detection is of a track that is followed or of a new one.
LEMMA ObservedFits ==
    ASSUME fusion \in BOOLEAN, NEW w, NEW F, NEW H, WorldFits(w, F, H), NEW n \in Nat, n \in F,
           NEW seen \in SUBSET Track, NEW gone \in SUBSET Track,
           seen = {} \/ \E t \in Track : seen = {t},
           NEW v \in Observed(w, n, seen, gone)
    PROVE  WorldFits(v, F, H) /\ Goes(w, v)
<1> DEFINE L == [w.tracker EXCEPT !.live = (@ \ gone) \cup seen,
                                  !.next = IF seen = {@} THEN @ + 1 ELSE @]
           s == [w EXCEPT !.tracker = L]
           V == IF seen = {} THEN {s} ELSE Harvested(Awake(s), n, Max(seen))
<1>0. WorldTyped(w) BY DEF WorldFits
<1>1. L \in Trackers
  <2> DEFINE a == (w.tracker.live \ gone) \cup seen
             m == IF seen = {w.tracker.next} THEN w.tracker.next + 1 ELSE w.tracker.next
  <2>1. w.tracker \in Trackers BY <1>0 DEF WorldTyped
  <2>2. a \in SUBSET Track /\ m \in Nat BY <2>1 DEF Trackers
  <2>3. L = [w.tracker EXCEPT !.live = a, !.next = m] BY <2>1 DEF Trackers
  <2> HIDE DEF a, m, L
  <2> QED BY <2>1, <2>2, <2>3 DEF Trackers
<1>2. s = [w EXCEPT !.tracker.live = (@ \ gone) \cup seen,
                    !.tracker.next = IF seen = {@} THEN @ + 1 ELSE @]
  BY <1>0 DEF WorldTyped, Trackers
<1>3. v \in IF gone = {} THEN V ELSE UNION {Exited(u, Max(gone)) : u \in V}
  BY <1>2 DEF Observed
<1> HIDE DEF L
<1>4. WorldFits(s, F, H) /\ Goes(w, s) BY <1>1, TrackerFits
<1> HIDE DEF s
<1>5. ASSUME NEW u \in V PROVE WorldFits(u, F, H) /\ Goes(w, u)
  <2>1. CASE seen = {} BY <1>4, <1>5, <2>1
  <2>2. CASE seen # {}
    <3>0. PICK t \in Track : seen = {t} BY <2>2
    <3>1. Max(seen) \in Track
      <4>1. t \in Int BY DEF Track
      <4>2. Max({t}) = t BY <4>1, MaxOne
      <4> QED BY <3>0, <4>2
    <3>2. WorldFits(Awake(s), F, H) /\ Goes(s, Awake(s)) BY <1>4, AwakeFits
    <3>3. u \in Harvested(Awake(s), n, Max(seen)) BY <1>5, <2>2
    <3>4. WorldFits(u, F, H) /\ Goes(Awake(s), u) BY <3>1, <3>2, <3>3, HarvestedFits
    <3> QED BY <1>4, <3>2, <3>4, GoesOn
  <2> QED BY <2>1, <2>2
<1> HIDE DEF V
<1>6. CASE gone = {} BY <1>3, <1>5, <1>6
<1>7. CASE gone # {}
  <2>1. PICK u \in V : v \in Exited(u, Max(gone)) BY <1>3, <1>7
  <2>2. WorldFits(u, F, H) /\ Goes(w, u) BY <1>5
  <2>3. WorldFits(v, F, H) /\ Goes(u, v) BY <2>1, <2>2, ExitedFits
  <2> QED BY <2>2, <2>3, GoesOn
<1> QED BY <1>6, <1>7

LEMMA SettledFits ==
    ASSUME NEW w, NEW F, NEW H, WorldFits(w, F, H), NEW wasDone, NEW seen,
           NEW v \in Settled(w, wasDone, seen)
    PROVE  WorldFits(v, F, H) /\ Moves(w, v)
<1>1. PICK u \in {w, [w EXCEPT !.cam.phase = "done"]} : v = u \/ v = Cleared(u)
  BY DEF Settled
<1>2. WorldFits(u, F, H) /\ Goes(w, u)
  <2>1. CASE u = w BY <2>1, GoesNowhere
  <2>2. CASE u = [w EXCEPT !.cam.phase = "done"]
    <3>1. "done" \in {"idle", "active", "done"} OBVIOUS
    <3> QED BY <2>2, <3>1, PhaseFits
  <2> QED BY <1>1, <2>1, <2>2
<1>3. CASE v = u BY <1>2, <1>3 DEF Goes, Moves
<1>4. CASE v = Cleared(u)
  <2>1. WorldFits(v, F, H) /\ SameCamera(u, v) /\ DOMAIN v.eps = {}
    BY <1>2, <1>4, ClearedFits DEF Bare
  <2> QED BY <1>2, <2>1 DEF Goes, Moves, SameCamera
<1> QED BY <1>1, <1>3, <1>4

-----------------------------------------------------------------------------
(* The invariant, from one state to the next                                *)

LEMMA InvFacts ==
    ASSUME EngineInv
    PROVE  /\ fusion \in BOOLEAN /\ explicit \in BOOLEAN /\ cam \in Cameras /\ cam.epoch \in Nat
           /\ tracker \in Trackers /\ queue \subseteq Tasks /\ DOMAIN eps \subseteq Track
           /\ World.cam = cam /\ World.eps = eps /\ World.tracker = tracker /\ World.queue = queue
           /\ \A t \in DOMAIN eps : EpisodeFits(eps[t], cam.epoch, t, Frames)
           /\ \A k \in queue : Fits(k, cam.epoch, Frames)
  BY DEF EngineInv, Typed, WorldFits, WorldTyped, World, Cameras

\* The lifecycle is the same before and after.
SameLife(w, v) == /\ v.cam.epoch = w.cam.epoch /\ v.cam.life = w.cam.life
                  /\ v.cam.source = w.cam.source

\* What a step within a lifecycle has to show.
LEMMA LifeStepFits ==
    ASSUME EngineInv, NEW v, Become(v), UNCHANGED <<mode, past>>, Typed',
           WorldFits(v, Frames, Hold'), SameLife(World, v),
           \A k \in Loose' : Fits(k, cam.epoch, Frames),
           PacketFits(packet', cam.epoch, Frames),
           PacketFits(run'["central"].frame, cam.epoch, Frames),
           RunsFit', \A o \in fin'.own : OwnerFits(o, cam.epoch, Frames), Finalizing'
    PROVE  EngineInv' /\ World' = v
<1>1. World' = v BY DEF WorldFits, WorldTyped, World, Become
<1>2. /\ cam'.epoch = cam.epoch /\ cam'.source = cam.source
      /\ cam'.life = cam.life /\ born' = born
  BY <1>1 DEF SameLife, World, past
<1>3. Frames' = Frames BY <1>2 DEF Frames
<1>4. WorldFits(World', Frames', Hold') BY <1>1, <1>3
<1>5. Modes' BY <1>2 DEF Modes, EngineInv, mode, past
<1> QED BY <1>1, <1>2, <1>3, <1>4, <1>5 DEF EngineInv

LEMMA StepFits ==
    ASSUME EngineInv, NEW v, Become(v), UNCHANGED <<mode, past>>, Typed',
           WorldFits(v, Frames, Hold'), SameCamera(World, v),
           \A k \in Loose' : Fits(k, cam.epoch, Frames),
           PacketFits(packet', cam.epoch, Frames),
           PacketFits(run'["central"].frame, cam.epoch, Frames),
           RunsFit', \A o \in fin'.own : OwnerFits(o, cam.epoch, Frames), Finalizing'
    PROVE  EngineInv' /\ World' = v
<1>1. SameLife(World, v) BY DEF SameLife, SameCamera
<1> QED BY <1>1, LifeStepFits

\* Where a processor goes next with what it has in its hands.
LEMMA OnwardFits ==
    ASSUME NEW r \in Runs
    PROVE  /\ Onward(r) \in Runs /\ RunFits(Onward(r)) /\ Onward(r).at # "read"
           /\ Onward(r).left = r.left /\ Onward(r).task = r.task
           /\ Onward(r).frame = r.frame \/ Onward(r).frame = None
<1>1. CASE r.left # {}
  <2>1. Onward(r) = [r EXCEPT !.at = "reconcile"] BY <1>1 DEF Onward
  <2> QED BY <1>1, <2>1 DEF Runs, RunFits
<1>2. CASE r.left = {} /\ r.task = None
  <2>1. Onward(r) = IdleRun BY <1>2 DEF Onward
  <2> QED BY <1>2, <2>1 DEF Runs, RunFits, IdleRun
<1>3. CASE r.left = {} /\ r.task # None
  <2>1. Onward(r) = [r EXCEPT !.at = "apply"] BY <1>3 DEF Onward
  <2> QED BY <1>3, <2>1 DEF Runs, RunFits
<1> QED BY <1>1, <1>2, <1>3

LEMMA IdleRunFits ==
    /\ IdleRun \in Runs /\ RunFits(IdleRun) /\ IdleRun.at = "idle" /\ Hands(IdleRun) = {}
    /\ IdleRun.frame = None
  BY DEF IdleRun, Runs, RunFits, Hands

\* A processor's record is replaced.
LEMMA RunStep ==
    ASSUME EngineInv, NEW p \in Processor, NEW r \in Runs, run' = [run EXCEPT ![p] = r], RunFits(r),
           p = "central" /\ r.at = "read" => r.left = {}
    PROVE  /\ run' \in [Processor -> Runs] /\ RunsFit' /\ run'[p] = r
           /\ \A q \in Processor \ {p} : run'[q] = run[q]
<1>1. run \in [Processor -> Runs] BY DEF EngineInv, Typed
<1>2. /\ run' \in [Processor -> Runs] /\ run'[p] = r
      /\ \A q \in Processor \ {p} : run'[q] = run[q]
  BY <1>1
<1>3. "central" \in Processor BY DEF Processor
<1>4. RunsFit' BY <1>2, <1>3 DEF RunsFit, EngineInv
<1> QED BY <1>2, <1>4

LEMMA LooseFits ==
    ASSUME EngineInv
    PROVE  /\ \A k \in abandoned : Fits(k, cam.epoch, Frames)
           /\ \A c \in completed : c \in Results /\ Fits(c.task, cam.epoch, Frames)
           /\ \A p \in Processor : \A k \in Hands(run[p]) : Fits(k, cam.epoch, Frames)
           /\ \A k \in fin.tasks : Fits(k, cam.epoch, Frames)
           /\ \A r \in fin.results : r \in Results /\ Fits(r.task, cam.epoch, Frames)
  BY DEF EngineInv, Loose, Waiting, Typed, Fins

\* Nothing happened to the tracks, and what left the queue is in somebody's hands.
LEMMA HandedOver ==
    ASSUME EngineInv, NEW H, NEW Q, Q \subseteq queue,
           \A k \in queue \ Q : k.key \in H, Hold \subseteq H
    PROVE  LET v == [World EXCEPT !.queue = Q]
           IN  /\ WorldFits(v, Frames, H) /\ Goes(World, v)
               /\ v.cam = cam /\ v.eps = eps /\ v.tracker = tracker /\ v.queue = Q
<1> DEFINE v == [World EXCEPT !.queue = Q]
<1>1. /\ v.cam = cam /\ v.eps = eps /\ v.tracker = tracker /\ v.queue = Q
      /\ v = [cam |-> cam, eps |-> eps, tracker |-> tracker, queue |-> Q]
  BY DEF World
<1>2. WorldFits(World, Frames, Hold) /\ World.cam = cam /\ World.eps = eps
      /\ World.tracker = tracker /\ World.queue = queue
  BY InvFacts DEF EngineInv
<1> HIDE DEF v
<1>3. WorldTyped(v) BY <1>1, <1>2 DEF WorldFits, WorldTyped
<1>4. Backed(v, H) BY <1>1, <1>2 DEF WorldFits, Backed
<1>5. WorldFits(v, Frames, H) BY <1>1, <1>2, <1>3, <1>4 DEF WorldFits
<1>6. Goes(World, v) BY <1>1, <1>2 DEF Goes, SameCamera, Decided
<1> QED BY <1>1, <1>5, <1>6 DEF v

-----------------------------------------------------------------------------
(* The processors                                                           *)

\* An operation on nothing comes to nothing.
LEMMA BareStays ==
    ASSUME NEW w, DOMAIN w.eps = {}, NEW k
    PROVE  /\ \A good : Applied(w, k, good) = {w}
           /\ Reconciled(w, k) = {w}
<1>1. ~Same(w, k) BY DEF Same
<1>2. \A good : Applied(w, k, good) = {w} BY <1>1 DEF Applied, Live
<1> QED BY <1>1, <1>2 DEF Reconciled

LEMMA TakePacketFits ==
    ASSUME EngineInv, TakePacket
    PROVE  EngineInv' /\ World' = World
<1> DEFINE r == run["central"]
<1>1. "central" \in Processor /\ r \in Runs /\ r.at = "idle" /\ RunFits(r)
  BY DEF EngineInv, Typed, RunsFit, TakePacket, At, Processor
<1>2. PICK s \in Runs : /\ run' = [run EXCEPT !["central"] = s]
                        /\ s.left = r.left /\ s.task = r.task /\ s.at \in {"pop", "detect"}
                        /\ s.frame = r.frame \/ (s.frame = packet /\ packet # None)
                        /\ s.at = "detect" => s.frame # None
  <2>1. CASE run' = [run EXCEPT !["central"].at = "pop"]
    <3>1. run' = [run EXCEPT !["central"] = [r EXCEPT !.at = "pop"]] BY <2>1
    <3>2. [r EXCEPT !.at = "pop"] \in Runs BY <1>1 DEF Runs
    <3> QED BY <1>1, <3>1, <3>2 DEF Runs
  <2>2. CASE packet # None /\ run' = [run EXCEPT !["central"].at = "detect",
                     !["central"].rested = (cam.phase = "done"), !["central"].frame = packet]
    <3> DEFINE s == [r EXCEPT !.at = "detect", !.rested = (cam.phase = "done"), !.frame = packet]
    <3>1. run' = [run EXCEPT !["central"] = s]
      <4>1. run \in [Processor -> Runs] BY DEF EngineInv, Typed
      <4> QED BY <2>2, <1>1, <4>1 DEF Runs
    <3>2. packet \in Packets BY <2>2 DEF EngineInv, PacketFits
    <3>3. s \in Runs BY <1>1, <3>2 DEF Runs
    <3>4. s.left = r.left /\ s.task = r.task /\ s.at = "detect" /\ s.frame = packet
      BY <1>1 DEF Runs
    <3> HIDE DEF s
    <3> QED BY <2>2, <3>1, <3>3, <3>4
  <2> QED BY <2>1, <2>2 DEF TakePacket
<1>3. RunFits(s) BY <1>1, <1>2 DEF RunFits
<1>4. /\ run' \in [Processor -> Runs] /\ RunsFit' /\ run'["central"] = s
      /\ \A q \in Processor \ {"central"} : run'[q] = run[q]
  BY <1>1, <1>2, <1>3, RunStep
<1>5. \A q \in Processor : Hands(run'[q]) = Hands(run[q]) BY <1>2, <1>4 DEF Hands
<1>6. Waiting' = Waiting /\ Loose' = Loose /\ Hold' = Hold
  <2>1. Waiting' = Waiting BY <1>5 DEF Waiting, TakePacket
  <2> QED BY <2>1 DEF Loose, Hold, TakePacket
<1>7. Become(World) BY DEF Become, World, TakePacket
<1>8. WorldFits(World, Frames, Hold') /\ SameCamera(World, World)
  BY <1>6 DEF EngineInv, SameCamera
<1>9. PacketFits(packet', cam.epoch, Frames) BY DEF TakePacket, PacketFits
<1>10. PacketFits(run'["central"].frame, cam.epoch, Frames) BY <1>2, <1>4 DEF EngineInv, PacketFits
<1>11. Typed' BY <1>4 DEF Typed, EngineInv, TakePacket, mode, past
<1>12. Finalizing' BY DEF Finalizing, TakePacket
<1>13. \A o \in fin'.own : OwnerFits(o, cam.epoch, Frames) BY DEF EngineInv, TakePacket
<1>14. UNCHANGED <<mode, past>> BY DEF TakePacket
<1>15. \A k \in Loose' : Fits(k, cam.epoch, Frames) BY <1>6 DEF EngineInv
<1> QED BY <1>4, <1>7, <1>8, <1>9, <1>10, <1>11, <1>12, <1>13, <1>14, <1>15, StepFits

LEMMA CommitDetectionFits ==
    ASSUME EngineInv, CommitDetection
    PROVE  EngineInv' /\ Moves(World, World')
<1> DEFINE r == run["central"]
           f == r.frame
           s == [IdleRun EXCEPT !.at = "pop"]
<1>1. "central" \in Processor /\ r \in Runs /\ r.at = "detect" /\ RunFits(r)
  BY DEF EngineInv, Typed, RunsFit, CommitDetection, At, Processor
<1>2. s \in Runs /\ RunFits(s) /\ s.at = "pop" /\ Hands(s) = {} /\ s.frame = None
  BY DEF IdleRun, Runs, RunFits, Hands
<1>3. run' = [run EXCEPT !["central"] = s] BY DEF CommitDetection
<1> HIDE DEF s
<1>4. /\ run' \in [Processor -> Runs] /\ RunsFit' /\ run'["central"] = s
      /\ \A q \in Processor \ {"central"} : run'[q] = run[q]
  BY <1>1, <1>2, <1>3, RunStep
<1>5. \A q \in Processor : Hands(run'[q]) = Hands(run[q])
  <2>1. Hands(r) = {} BY <1>1 DEF Hands, RunFits
  <2> QED BY <1>2, <1>4, <2>1
<1>6. Waiting' = Waiting /\ Loose' = Loose /\ Hold' = Hold
  <2>1. Waiting' = Waiting BY <1>5 DEF Waiting, CommitDetection
  <2> QED BY <2>1 DEF Loose, Hold, CommitDetection
<1>7. fin.at = "idle" BY <1>1 DEF EngineInv, Finalizing
<1>8. PICK v : Become(v) /\ WorldFits(v, Frames, Hold) /\ Moves(World, v)
  <2>0. WorldFits(World, Frames, Hold) BY DEF EngineInv
  <2>1. CASE ~Current(f)
    <3>1. Become(World) BY <2>1 DEF CommitDetection, Become, World
    <3> QED BY <2>0, <3>1, GoesNowhere DEF Goes, Moves
  <2>2. CASE Current(f)
    <3>1. f.frame \in Nat /\ f.frame \in Frames
      BY <1>1, <2>2 DEF EngineInv, PacketFits, Packets, Current, RunFits
    <3>2. PICK seen \in {{}} \cup {{t} : t \in tracker.live \cup ({tracker.next} \cap Track)},
               gone \in {{}} \cup {{t} : t \in tracker.live} :
              \E v \in Observed(World, f.frame, seen, gone) :
                 \E u \in Settled(v, r.rested, seen) : Become(u)
      BY <2>2 DEF CommitDetection
    <3>3. PICK v \in Observed(World, f.frame, seen, gone) :
                 \E u \in Settled(v, r.rested, seen) : Become(u)
      BY <3>2
    <3>9. PICK u \in Settled(v, r.rested, seen) : Become(u) BY <3>3
    <3>4. tracker.live \subseteq Track BY InvFacts DEF Trackers
    <3>5. /\ seen \in SUBSET Track /\ gone \in SUBSET Track /\ (seen = {} \/ \E t \in Track : seen = {t})
      BY <3>4
    <3>6. WorldFits(v, Frames, Hold) /\ Goes(World, v) BY <2>0, <3>1, <3>5, InvFacts, ObservedFits
    <3>7. WorldFits(u, Frames, Hold) /\ Moves(v, u) BY <3>6, SettledFits
    <3>8. Moves(World, u)
      <4>1. SameCamera(World, u) BY <3>6, <3>7 DEF Moves, Goes, SameCamera
      <4>2. CASE DOMAIN u.eps = {} BY <4>1, <4>2 DEF Moves
      <4>3. CASE Decided(v, u)
        <5>1. Goes(v, u) BY <4>3, <3>7 DEF Goes, Moves
        <5> QED BY <5>1, <3>6, GoesOn DEF Goes, Moves
      <4> QED BY <3>7, <4>2, <4>3 DEF Moves
    <3> QED BY <3>7, <3>8, <3>9
  <2> QED BY <2>1, <2>2
<1>9. PacketFits(packet', cam.epoch, Frames) BY DEF CommitDetection, EngineInv
<1>10. PacketFits(run'["central"].frame, cam.epoch, Frames) BY <1>2, <1>4 DEF PacketFits
<1>11. Typed' BY <1>4 DEF Typed, EngineInv, CommitDetection, mode, past
<1>12. Finalizing' BY <1>7 DEF Finalizing, CommitDetection
<1>13. \A o \in fin'.own : OwnerFits(o, cam.epoch, Frames) BY DEF EngineInv, CommitDetection
<1>14. UNCHANGED <<mode, past>> BY DEF CommitDetection
<1>15. \A k \in Loose' : Fits(k, cam.epoch, Frames) BY <1>6 DEF EngineInv
<1>16. WorldFits(v, Frames, Hold') /\ SameCamera(World, v) BY <1>6, <1>8 DEF Moves
<1>17. EngineInv' /\ World' = v
  BY <1>4, <1>8, <1>9, <1>10, <1>11, <1>12, <1>13, <1>14, <1>15, <1>16, StepFits
<1> QED BY <1>8, <1>17

LEMMA EvictFits ==
    ASSUME EngineInv, Evict
    PROVE  EngineInv' /\ Goes(World, World')
<1>1. PICK k \in queue : queue' = queue \ {k} /\ abandoned' = abandoned \cup {k}
  BY DEF Evict
<1>2. k \in Tasks /\ Fits(k, cam.epoch, Frames) BY InvFacts
<1>3. Waiting' = Waiting \cup {k} /\ Loose' = Loose \cup {k}
  <2>1. Waiting' = Waiting \cup {k} BY <1>1 DEF Waiting, Evict
  <2> QED BY <2>1 DEF Loose, Evict
<1>4. Hold \subseteq Hold' /\ k.key \in Hold'
  BY <1>2, <1>3 DEF Hold, Evict, Tasks
<1> DEFINE v == [World EXCEPT !.queue = queue \ {k}]
<1>5. /\ WorldFits(v, Frames, Hold') /\ Goes(World, v)
      /\ v.cam = cam /\ v.eps = eps /\ v.tracker = tracker /\ v.queue = queue \ {k}
  BY <1>4, HandedOver
<1> HIDE DEF v
<1>6. Become(v) BY <1>1, <1>5 DEF Become, Evict
<1>7. Typed' BY <1>1, <1>2 DEF Typed, EngineInv, Evict, mode, past
<1>8. /\ RunsFit' /\ Finalizing' /\ UNCHANGED <<mode, past>>
      /\ PacketFits(packet', cam.epoch, Frames)
      /\ PacketFits(run'["central"].frame, cam.epoch, Frames)
      /\ \A o \in fin'.own : OwnerFits(o, cam.epoch, Frames)
  BY DEF Evict, EngineInv, RunsFit, Finalizing
<1>9. \A j \in Loose' : Fits(j, cam.epoch, Frames) BY <1>2, <1>3 DEF EngineInv
<1> QED BY <1>5, <1>6, <1>7, <1>8, <1>9, StepFits DEF Goes

LEMMA PopFits ==
    ASSUME EngineInv, NEW p \in Processor, Pop(p)
    PROVE  EngineInv' /\ Goes(World, World')
<1>1. /\ run \in [Processor -> Runs] /\ run[p] \in Runs /\ RunFits(run[p])
      /\ run[p].at \in {"idle", "pop"} /\ Hands(run[p]) = {}
      /\ p = "central" => run[p].at = "pop"
      /\ abandoned \subseteq Tasks
  <2>1. run \in [Processor -> Runs] /\ run[p] \in Runs /\ RunFits(run[p]) /\ abandoned \subseteq Tasks
    BY DEF EngineInv, Typed, RunsFit
  <2>2. run[p].at \in {"idle", "pop"} /\ (p = "central" => run[p].at = "pop") BY DEF Pop, At
  <2>3. Hands(run[p]) = {} BY <2>1, <2>2 DEF Hands, RunFits
  <2> QED BY <2>1, <2>2, <2>3
<1>2. PICK old \in SUBSET queue, k \in queue \cup {None} :
         /\ k \notin old /\ (k = None => old = queue)
         /\ queue' = queue \ (old \cup {k})
         /\ LET drain == p = "worker" \/ k = None
                r == [IdleRun EXCEPT !.at = "read", !.task = k,
                                     !.left = IF drain THEN abandoned \cup old ELSE {}]
            IN  /\ run' = [run EXCEPT ![p] = IF k = None THEN Onward(r) ELSE r]
                /\ abandoned' = IF drain THEN {} ELSE abandoned \cup old
  BY DEF Pop
<1> DEFINE drain == p = "worker" \/ k = None
           left == IF drain THEN abandoned \cup old ELSE {}
           r == [IdleRun EXCEPT !.at = "read", !.task = k, !.left = left]
           s == IF k = None THEN Onward(r) ELSE r
<1>3. k \in Tasks \cup {None} /\ old \subseteq Tasks /\ (k \in queue => k # None)
  BY InvFacts, SomethingIsNotNone
<1>4. left \in SUBSET Tasks BY <1>1, <1>3
<1>5. abandoned' = (IF drain THEN {} ELSE abandoned \cup old) /\ run' = [run EXCEPT ![p] = s]
  BY <1>2
<1>6. left \cup abandoned' = abandoned \cup old /\ (drain \/ left = {}) BY <1>5
<1> HIDE DEF left
<1>7. /\ r \in Runs /\ r.at = "read" /\ r.task = k /\ r.left = left /\ r.frame = None
  BY <1>3, <1>4 DEF IdleRun, Runs
<1> HIDE DEF r
<1>8. /\ s \in Runs /\ RunFits(s) /\ s.left = left /\ s.task = k /\ s.frame = None
      /\ s.at = "read" => k # None
  <2>1. CASE k = None BY <2>1, <1>7, OnwardFits
  <2>2. CASE k # None BY <2>2, <1>7 DEF RunFits
  <2> QED BY <2>1, <2>2
<1>9. p = "central" /\ s.at = "read" => s.left = {} BY <1>6, <1>8
<1> HIDE DEF s
<1>10. /\ run' \in [Processor -> Runs] /\ RunsFit' /\ run'[p] = s
       /\ \A q \in Processor \ {p} : run'[q] = run[q]
  BY <1>5, <1>8, <1>9, RunStep
<1>11. Hands(s) = left \cup ({k} \ {None}) BY <1>8 DEF Hands
<1>12. Waiting' = Waiting \cup old \cup ({k} \ {None})
  <2>1. ASSUME NEW x PROVE x \in Waiting' <=> x \in Waiting \/ x \in old \/ x \in {k} \ {None}
    <3>1. x \in Waiting' <=> x \in abandoned' \/ \E q \in Processor : x \in Hands(run'[q])
      BY DEF Waiting
    <3>2. x \in Waiting <=> x \in abandoned \/ \E q \in Processor : x \in Hands(run[q])
      BY DEF Waiting
    <3>3. (\E q \in Processor : x \in Hands(run'[q]))
             <=> x \in Hands(s) \/ \E q \in Processor : x \in Hands(run[q])
      BY <1>1, <1>10
    <3> QED BY <3>1, <3>2, <3>3, <1>6, <1>11
  <2> QED BY <2>1
<1>13. Loose' = Loose \cup old \cup ({k} \ {None}) BY <1>12 DEF Loose, Pop
<1>14. Hold \subseteq Hold' /\ \A x \in queue \ queue' : x.key \in Hold'
  <2>1. \A x \in queue \ queue' : x \in Waiting' /\ x.key \in Key
    BY <1>2, <1>3, <1>12, InvFacts DEF Tasks
  <2> QED BY <2>1, <1>12 DEF Hold, Pop
<1> DEFINE v == [World EXCEPT !.queue = queue']
<1>15. /\ WorldFits(v, Frames, Hold') /\ Goes(World, v)
       /\ v.cam = cam /\ v.eps = eps /\ v.tracker = tracker /\ v.queue = queue'
  <2>1. queue' \subseteq queue BY <1>2
  <2> QED BY <1>14, <2>1, HandedOver
<1> HIDE DEF v
<1>16. Become(v) BY <1>15 DEF Become, Pop
<1>17. Typed'
  <2>1. abandoned' \subseteq Tasks BY <1>1, <1>3, <1>6
  <2> QED BY <2>1, <1>10 DEF Typed, EngineInv, Pop, mode, past
<1>18. /\ UNCHANGED <<mode, past>> /\ PacketFits(packet', cam.epoch, Frames)
       /\ \A o \in fin'.own : OwnerFits(o, cam.epoch, Frames)
  BY DEF Pop, EngineInv
<1>19. Finalizing'
  <2>1. CASE p = "central" BY <2>1, <1>1 DEF Finalizing, EngineInv, Pop
  <2>2. CASE p # "central"
    <3>1. run'["central"] = run["central"] BY <2>2, <1>10 DEF Processor
    <3> QED BY <3>1 DEF Finalizing, EngineInv, Pop
  <2> QED BY <2>1, <2>2
<1>20. PacketFits(run'["central"].frame, cam.epoch, Frames)
  <2>1. CASE p = "central" BY <2>1, <1>8, <1>10 DEF PacketFits
  <2>2. CASE p # "central"
    <3>1. run'["central"] = run["central"] BY <2>2, <1>10 DEF Processor
    <3> QED BY <3>1 DEF EngineInv
  <2> QED BY <2>1, <2>2
<1>21. \A j \in Loose' : Fits(j, cam.epoch, Frames)
  BY <1>13, InvFacts DEF EngineInv
<1> QED BY <1>10, <1>15, <1>16, <1>17, <1>18, <1>19, <1>20, <1>21, StepFits DEF Goes

\* What has been finished is a result of a task that was read.
LEMMA FinishFits ==
    ASSUME EngineInv, NEW k \in Tasks, NEW good \in BOOLEAN, Finish(k, good)
    PROVE  /\ completed' \subseteq Results
           /\ \A c \in completed' : c \in completed \/ c.task = k
<1>1. [task |-> k, good |-> good] \in Results /\ [task |-> k, good |-> good].task = k
  BY DEF Results
<1>2. completed \subseteq Results BY DEF EngineInv, Typed
<1> QED BY <1>1, <1>2 DEF Finish

\* A processor's step that is its own: the central thread does not run while a
\* finalizer does.
LEMMA FinalizingSteps ==
    ASSUME EngineInv, NEW p \in Processor, run[p].at # "idle", fin' = fin,
           \A q \in Processor \ {p} : run'[q] = run[q],
           cam'.final = cam.final, Bare(World) => Bare(World')
    PROVE  Finalizing'
<1>1. CASE fin.at = "idle" BY <1>1 DEF Finalizing
<1>2. CASE fin.at # "idle"
  <2>1. run["central"].at = "idle" /\ (~cam.final => Bare(World))
    BY <1>2 DEF EngineInv, Finalizing, Bare, World
  <2>2. run'["central"] = run["central"] BY <2>1 DEF Processor
  <2> QED BY <2>1, <2>2 DEF Finalizing, Bare, World
<1> QED BY <1>1, <1>2

LEMMA ReadFits ==
    ASSUME EngineInv, NEW p \in Processor, Read(p)
    PROVE  EngineInv' /\ World' = World
<1>1. /\ run \in [Processor -> Runs] /\ run[p] \in Runs /\ RunFits(run[p]) /\ run[p].at = "read"
      /\ run[p].task # None /\ run[p].task \in Tasks /\ abandoned \subseteq Tasks
      /\ p = "central" => run[p].left = {}
  <2>1. run \in [Processor -> Runs] /\ run[p] \in Runs /\ RunFits(run[p]) /\ run[p].at = "read"
        /\ abandoned \subseteq Tasks /\ (p = "central" => run[p].left = {})
    BY DEF EngineInv, Typed, RunsFit, Read, At
  <2> QED BY <2>1 DEF RunFits, Runs
<1> DEFINE k == run[p].task
<1>2. PICK good \in BOOLEAN :
         IF p = "central"
         THEN /\ Finish(k, good)
              /\ abandoned' = {}
              /\ run' = [run EXCEPT ![p] = Onward([run[p] EXCEPT !.good = good, !.left = abandoned])]
         ELSE /\ run' = [run EXCEPT ![p] = Onward([run[p] EXCEPT !.good = good])]
              /\ UNCHANGED <<abandoned, completed>>
  BY <1>1 DEF Read
<1>3. PICK r \in Runs : /\ run' = [run EXCEPT ![p] = Onward(r)] /\ r.task = k
                        /\ r.frame = run[p].frame
                        /\ r.left \cup abandoned' = run[p].left \cup abandoned
                        /\ abandoned' \subseteq Tasks
  <2>1. CASE p = "central"
    <3> DEFINE r == [run[p] EXCEPT !.good = good, !.left = abandoned]
    <3>1. /\ r \in Runs /\ r.task = k /\ r.frame = run[p].frame /\ r.left = abandoned
      BY <1>1 DEF Runs
    <3>2. run' = [run EXCEPT ![p] = Onward(r)] /\ abandoned' = {} BY <1>2, <2>1
    <3> HIDE DEF r
    <3> QED BY <2>1, <3>1, <3>2, <1>1
  <2>2. CASE p # "central"
    <3> DEFINE r == [run[p] EXCEPT !.good = good]
    <3>1. /\ r \in Runs /\ r.task = k /\ r.frame = run[p].frame /\ r.left = run[p].left
      BY <1>1 DEF Runs
    <3>2. run' = [run EXCEPT ![p] = Onward(r)] /\ abandoned' = abandoned BY <1>2, <2>2
    <3> HIDE DEF r
    <3> QED BY <3>1, <3>2, <1>1
  <2> QED BY <2>1, <2>2
<1> DEFINE s == Onward(r)
<1>4. /\ s \in Runs /\ RunFits(s) /\ s.left = r.left /\ s.task = k /\ s.at # "read"
      /\ s.frame = r.frame \/ s.frame = None
  BY <1>3, OnwardFits
<1> HIDE DEF s
<1>5. run' = [run EXCEPT ![p] = s] BY <1>3 DEF s
<1>6. /\ run' \in [Processor -> Runs] /\ RunsFit' /\ run'[p] = s
      /\ \A q \in Processor \ {p} : run'[q] = run[q]
  BY <1>4, <1>5, RunStep
<1>7. Waiting' = Waiting
  <2>1. ASSUME NEW x PROVE x \in Waiting' <=> x \in Waiting
    <3>1. x \in Waiting' <=> x \in abandoned' \/ \E q \in Processor : x \in Hands(run'[q])
      BY DEF Waiting
    <3>2. x \in Waiting <=> x \in abandoned \/ \E q \in Processor : x \in Hands(run[q])
      BY DEF Waiting
    <3>3. x \in abandoned' \cup Hands(s) <=> x \in abandoned \cup Hands(run[p])
      BY <1>3, <1>4 DEF Hands
    <3> QED BY <3>1, <3>2, <3>3, <1>6
  <2> QED BY <2>1
<1>8. /\ completed' \subseteq Results /\ \A c \in completed' : c \in completed \/ c.task = k
  <2>1. completed \subseteq Results BY DEF EngineInv, Typed
  <2> QED BY <2>1, <1>1, <1>2, FinishFits
<1>9. Fits(k, cam.epoch, Frames) BY <1>1, LooseFits DEF Hands
<1>10. \A j \in Loose' : Fits(j, cam.epoch, Frames)
  <2>1. \A c \in completed' : Fits(c.task, cam.epoch, Frames) BY <1>8, <1>9, LooseFits
  <2>2. \A j \in Waiting' \cup fin'.tasks \cup {x.task : x \in fin'.results} : Fits(j, cam.epoch, Frames)
    BY <1>7 DEF EngineInv, Loose, Read
  <2> QED BY <2>1, <2>2 DEF Loose
<1>11. Hold' = Hold BY <1>7 DEF Hold, Read
<1>12. Become(World) BY DEF Become, World, Read
<1>13. WorldFits(World, Frames, Hold') /\ SameCamera(World, World)
  BY <1>11 DEF EngineInv, SameCamera
<1>14. Typed' BY <1>3, <1>6, <1>8 DEF Typed, EngineInv, Read, mode, past
<1>15. Finalizing'
  <2>1. World' = World /\ cam' = cam /\ fin' = fin BY DEF World, Read
  <2> QED BY <2>1, <1>1, <1>6, FinalizingSteps DEF Bare
<1>16. /\ UNCHANGED <<mode, past>> /\ PacketFits(packet', cam.epoch, Frames)
       /\ \A o \in fin'.own : OwnerFits(o, cam.epoch, Frames)
  BY DEF Read, EngineInv
<1>17. PacketFits(run'["central"].frame, cam.epoch, Frames)
  <2>1. run'["central"].frame = run["central"].frame \/ run'["central"].frame = None
    <3>1. "central" \in Processor BY DEF Processor
    <3> QED BY <3>1, <1>3, <1>4, <1>6
  <2> QED BY <2>1 DEF EngineInv, PacketFits
<1> QED BY <1>6, <1>10, <1>12, <1>13, <1>14, <1>15, <1>16, <1>17, StepFits

\* A task is taken from a processor's hands and its episode told: nobody waits
\* for it any more.  What else leaves its hands is forgotten.
LEMMA AnsweredStep ==
    ASSUME EngineInv, NEW p \in Processor, run[p].at # "idle", NEW k \in Hands(run[p]),
           NEW v, Become(v), WorldFits(v, Frames, Hold \ {k.key}), Goes(World, v),
           Bare(World) => v = World,
           NEW s \in Runs, run' = [run EXCEPT ![p] = s], RunFits(s), s.at # "read",
           \A x \in Hands(run[p]) \ {k} : x \in Hands(s) \/ x.key \in lost', lost \subseteq lost',
           Hands(s) \subseteq Hands(run[p]),
           s.frame = run[p].frame \/ s.frame = None,
           completed' \subseteq Results, \A c \in completed' : c \in completed \/ c.task = k,
           UNCHANGED <<mode, past, packet, abandoned, fin>>
    PROVE  EngineInv' /\ Goes(World, World')
<1>1. /\ run' \in [Processor -> Runs] /\ RunsFit' /\ run'[p] = s
      /\ \A q \in Processor \ {p} : run'[q] = run[q]
  BY RunStep
<1>2. /\ Waiting' \subseteq Waiting
      /\ \A x \in Waiting \ {k} : x \in Waiting' \/ x.key \in lost'
  <2>1. ASSUME NEW x
        PROVE  /\ x \in Waiting' => x \in Waiting
               /\ x \in Waiting /\ x # k => x \in Waiting' \/ x.key \in lost'
    <3>1. x \in Waiting' <=> x \in abandoned \/ \E q \in Processor : x \in Hands(run'[q])
      BY DEF Waiting
    <3>2. x \in Waiting <=> x \in abandoned \/ \E q \in Processor : x \in Hands(run[q])
      BY DEF Waiting
    <3> QED BY <3>1, <3>2, <1>1
  <2> QED BY <2>1
<1>3. Hold \ {k.key} \subseteq Hold'
  <2>1. CASE fin.at = "idle"
    <3>1. ASSUME NEW x \in Waiting, x.key # k.key PROVE x.key \in {y.key : y \in Waiting'} \cup lost'
      BY <1>2, <3>1
    <3> QED BY <2>1, <3>1 DEF Hold
  <2>2. CASE fin.at # "idle" BY <2>2 DEF Hold
  <2> QED BY <2>1, <2>2
<1>4. WorldFits(v, Frames, Hold') BY <1>3, WorldFitsMore
<1>5. Fits(k, cam.epoch, Frames) BY LooseFits
<1>6. \A j \in Loose' : Fits(j, cam.epoch, Frames)
  <2>1. \A c \in completed' : Fits(c.task, cam.epoch, Frames) BY <1>5, LooseFits
  <2>2. \A j \in Waiting' \cup fin'.tasks \cup {x.task : x \in fin'.results} : Fits(j, cam.epoch, Frames)
    BY <1>2 DEF EngineInv, Loose
  <2> QED BY <2>1, <2>2 DEF Loose
<1>7. Typed' BY <1>1 DEF Typed, EngineInv, mode, past
<1>8. World' = v BY <1>4 DEF WorldFits, WorldTyped, World, Become
<1>9. Finalizing'
  <2>1. cam'.final = cam.final BY <1>8 DEF Goes, SameCamera, World
  <2>2. Bare(World) => Bare(World') BY <1>8
  <2> QED BY <2>1, <2>2, <1>1, FinalizingSteps
<1>10. /\ UNCHANGED <<mode, past>> /\ PacketFits(packet', cam.epoch, Frames)
       /\ \A o \in fin'.own : OwnerFits(o, cam.epoch, Frames)
  BY DEF EngineInv
<1>11. PacketFits(run'["central"].frame, cam.epoch, Frames)
  <2>1. run'["central"].frame = run["central"].frame \/ run'["central"].frame = None
    <3>1. "central" \in Processor BY DEF Processor
    <3> QED BY <3>1, <1>1
  <2> QED BY <2>1 DEF EngineInv, PacketFits
<1>12. SameCamera(World, v) BY DEF Goes
<1> QED BY <1>1, <1>4, <1>6, <1>7, <1>8, <1>9, <1>10, <1>11, <1>12, StepFits

\* The callback of the central thread may raise: then it forgets its tasks.
LEMMA ReconcileFits ==
    ASSUME EngineInv, NEW p \in Processor, Reconcile(p)
    PROVE  EngineInv' /\ Goes(World, World')
<1>1. /\ run \in [Processor -> Runs] /\ run[p] \in Runs /\ run[p].at = "reconcile"
  BY DEF EngineInv, Typed, Reconcile, At
<1>0. PICK k \in run[p].left : \E w \in Reconciled(World, k) :
         /\ Become(w)
         /\ \/ /\ run' = [run EXCEPT ![p] = Onward([run[p] EXCEPT !.left = @ \ {k}])]
               /\ UNCHANGED lost
            \/ /\ run' = [run EXCEPT ![p] = IdleRun]
               /\ lost' = lost \cup {q.key : q \in (run[p].left \cup {run[p].task}) \ {k, None}}
  BY <1>1 DEF Reconcile
<1>2. PICK v \in Reconciled(World, k) :
         /\ Become(v)
         /\ \/ /\ run' = [run EXCEPT ![p] = Onward([run[p] EXCEPT !.left = @ \ {k}])]
               /\ UNCHANGED lost
            \/ /\ run' = [run EXCEPT ![p] = IdleRun]
               /\ lost' = lost \cup {q.key : q \in (run[p].left \cup {run[p].task}) \ {k, None}}
  BY <1>0
<1>3. k \in Hands(run[p]) BY DEF Hands
<1> DEFINE Left(s) ==
         /\ run' = [run EXCEPT ![p] = s] /\ RunFits(s) /\ s.at # "read"
         /\ \A x \in Hands(run[p]) \ {k} : x \in Hands(s) \/ x.key \in lost'
         /\ lost \subseteq lost' /\ Hands(s) \subseteq Hands(run[p])
         /\ s.frame = run[p].frame \/ s.frame = None
<1>4. PICK s \in Runs : Left(s)
  <2>1. ASSUME run' = [run EXCEPT ![p] = Onward([run[p] EXCEPT !.left = @ \ {k}])], UNCHANGED lost
        PROVE  \E s \in Runs : Left(s)
    <3> DEFINE r == [run[p] EXCEPT !.left = @ \ {k}]
               s == Onward(r)
    <3>1. r \in Runs /\ r.left = run[p].left \ {k} /\ r.task = run[p].task /\ r.frame = run[p].frame
      BY <1>1 DEF Runs
    <3> HIDE DEF r
    <3>2. /\ s \in Runs /\ RunFits(s) /\ s.left = r.left /\ s.task = r.task /\ s.at # "read"
          /\ s.frame = r.frame \/ s.frame = None
      BY <3>1, OnwardFits
    <3>3. run' = [run EXCEPT ![p] = s] BY <2>1 DEF r
    <3> HIDE DEF s
    <3>4. Hands(run[p]) \ {k} \subseteq Hands(s) /\ Hands(s) \subseteq Hands(run[p])
      BY <3>1, <3>2 DEF Hands
    <3> QED BY <2>1, <3>1, <3>2, <3>3, <3>4
  <2>2. ASSUME run' = [run EXCEPT ![p] = IdleRun],
               lost' = lost \cup {q.key : q \in (run[p].left \cup {run[p].task}) \ {k, None}}
        PROVE  \E s \in Runs : Left(s)
    <3>1. None \notin run[p].left BY <1>1, SomethingIsNotNone DEF Runs
    <3>2. \A x \in Hands(run[p]) \ {k} : x.key \in lost' BY <2>2, <3>1 DEF Hands
    <3> QED BY <2>2, <3>2, IdleRunFits
  <2> QED BY <1>2, <2>1, <2>2
<1>9. WorldFits(v, Frames, Hold \ {k.key}) /\ Goes(World, v)
  <2>1. Fits(k, World.cam.epoch, Frames) /\ WorldFits(World, Frames, Hold)
    BY <1>3, LooseFits, InvFacts DEF EngineInv
  <2> QED BY <1>2, <2>1, ReconciledFits
<1>10. Bare(World) => v = World BY <1>2, BareStays DEF Bare
<1>11. completed' \subseteq Results /\ \A c \in completed' : c \in completed \/ c.task = k
  BY DEF Reconcile, EngineInv, Typed
<1>12. UNCHANGED <<mode, past, packet, abandoned, fin>> BY DEF Reconcile
<1> QED BY <1>1, <1>2, <1>3, <1>4, <1>9, <1>10, <1>11, <1>12, AnsweredStep

LEMMA ApplyFits ==
    ASSUME EngineInv, NEW p \in Processor, Apply(p)
    PROVE  EngineInv' /\ Goes(World, World')
<1> DEFINE k == run[p].task
           s == IdleRun
<1>1. /\ run \in [Processor -> Runs] /\ run[p] \in Runs /\ run[p].at = "apply" /\ RunFits(run[p])
  BY DEF EngineInv, Typed, Apply, MayApply, At, RunsFit
<1>2. /\ k # None /\ k \in Tasks /\ run[p].good \in BOOLEAN /\ k \in Hands(run[p])
      /\ Hands(run[p]) = {k}
  BY <1>1 DEF RunFits, Runs, Hands
<1>3. PICK v \in Applied(World, k, run[p].good) : Become(v) BY DEF Apply
<1>4. run' = [run EXCEPT ![p] = s] BY DEF Apply
<1>5. s \in Runs /\ RunFits(s) /\ s.at # "read" /\ Hands(s) = {} /\ s.frame = None
  BY IdleRunFits
<1>6. WorldFits(v, Frames, Hold \ {k.key}) /\ Goes(World, v)
  <2>1. Fits(k, World.cam.epoch, Frames) /\ WorldFits(World, Frames, Hold)
    BY <1>2, LooseFits, InvFacts DEF EngineInv
  <2> QED BY <1>2, <1>3, <2>1, AppliedFits
<1>7. Bare(World) => v = World
  <2>1. DOMAIN World.eps = {} => Applied(World, k, run[p].good) = {World} BY BareStays
  <2> QED BY <1>3, <2>1 DEF Bare
<1>8. completed' \subseteq Results /\ \A c \in completed' : c \in completed \/ c.task = k
  <2>1. CASE p = "worker"
    <3>1. Finish(k, run[p].good) BY <2>1 DEF Apply
    <3> QED BY <3>1, <1>2, FinishFits
  <2>2. CASE p # "worker"
    <3>1. completed' = completed BY <2>2 DEF Apply
    <3> QED BY <3>1 DEF EngineInv, Typed
  <2> QED BY <2>1, <2>2
<1>9. UNCHANGED <<mode, past, packet, abandoned, fin>> BY DEF Apply
<1> HIDE DEF s, k
<1>10. /\ \A x \in Hands(run[p]) \ {k} : x \in Hands(s) \/ x.key \in lost'
       /\ lost \subseteq lost' /\ Hands(s) \subseteq Hands(run[p])
  BY <1>2, <1>5 DEF Apply
<1> QED BY <1>1, <1>2, <1>3, <1>4, <1>5, <1>6, <1>7, <1>8, <1>9, <1>10, AnsweredStep

-----------------------------------------------------------------------------
(* The finalizer                                                            *)

\* The episodes are replaced, each by one that goes on from it.
LEMMA EpisodesStep ==
    ASSUME EngineInv, NEW c \in Cameras, c.epoch = cam.epoch, NEW L \in Trackers,
           NEW Q, Q \subseteq queue, NEW E, E = [t \in DOMAIN E |-> E[t]], DOMAIN E = DOMAIN eps,
           \A t \in DOMAIN eps : EpisodeFits(E[t], cam.epoch, t, Frames) /\ SameEpisode(eps[t], E[t]),
           NEW H, H = Key \/ \A t \in DOMAIN eps : ~E[t].submitted
    PROVE  LET v == [cam |-> c, eps |-> E, tracker |-> L, queue |-> Q]
           IN  WorldFits(v, Frames, H) /\ Decided(World, v)
<1> DEFINE v == [cam |-> c, eps |-> E, tracker |-> L, queue |-> Q]
<1>1. /\ v.cam = c /\ v.eps = E /\ v.tracker = L /\ v.queue = Q
      /\ v = [cam |-> v.cam, eps |-> v.eps, tracker |-> v.tracker, queue |-> v.queue]
  OBVIOUS
<1> HIDE DEF v
<1>2. \A t \in DOMAIN E : E[t] \in Episodes /\ E[t].key \in Key BY DEF EpisodeFits, Episodes
<1>3. E \in [DOMAIN E -> Episodes] BY <1>2
<1>4. WorldTyped(v) BY <1>1, <1>3, InvFacts DEF WorldTyped
<1>5. Backed(v, H) BY <1>1, <1>2 DEF Backed
<1>6. WorldFits(v, Frames, H) BY <1>1, <1>4, <1>5, InvFacts DEF WorldFits
<1>7. Decided(World, v) BY <1>1 DEF Decided, World, SameEpisode
<1> QED BY <1>6, <1>7 DEF v

LEMMA CropsGone ==
    ASSUME NEW c, NEW t, NEW F, NEW e, EpisodeFits(e, c, t, F)
    PROVE  LET x == [e EXCEPT !.crops = {}]
           IN  EpisodeFits(x, c, t, F) /\ SameEpisode(e, x)
<1> DEFINE x == [e EXCEPT !.crops = {}]
<1>1. /\ x \in Episodes /\ x.key = e.key /\ x.crops = {} /\ x.read = e.read
      /\ x.pending = e.pending /\ x.submitted = e.submitted /\ x.done = e.done /\ x.emitted = e.emitted
  BY DEF EpisodeFits, Episodes
<1> HIDE DEF x
<1> QED BY <1>1 DEF EpisodeFits, SameEpisode, x

LEMMA PendingFits ==
    ASSUME NEW c, NEW t, NEW F, NEW e, EpisodeFits(e, c, t, F),
           NEW r, r = None \/ (r \in Results /\ Fits(r.task, c, F))
    PROVE  LET x == [e EXCEPT !.pending = r]
           IN  EpisodeFits(x, c, t, F) /\ SameEpisode(e, x) /\ x.submitted = e.submitted
<1> DEFINE x == [e EXCEPT !.pending = r]
<1>1. /\ x \in Episodes /\ x.key = e.key /\ x.crops = e.crops /\ x.read = e.read
      /\ x.pending = r /\ x.submitted = e.submitted /\ x.done = e.done /\ x.emitted = e.emitted
  BY DEF EpisodeFits, Episodes
<1> HIDE DEF x
<1> QED BY <1>1 DEF EpisodeFits, SameEpisode, x

\* However far an application has come before it raised.
LEMMA HalfAppliedFits ==
    ASSUME NEW c, NEW t, NEW F, NEW e, EpisodeFits(e, c, t, F), NEW k, Fits(k, c, F), k.key = e.key,
           NEW good, NEW x \in HalfApplied(e, k, good)
    PROVE  EpisodeFits(x, c, t, F) /\ SameEpisode(e, x)
<1> DEFINE b == [e EXCEPT !.submitted = FALSE]
<1>1. EpisodeFits(b, c, t, F) /\ SameEpisode(e, b)
  BY UnsubmittedFits
<1>2. k.crops \subseteq F /\ k.crops \in SUBSET Nat BY DEF EpisodeFits, Fits, Tasks
<1>3. \/ x = b
      \/ \E z \in {"open", "locked", "final"} :
            x = [b EXCEPT !.inflight = FALSE, !.read = @ \cup k.crops, !.rec = z]
  BY DEF HalfApplied
<1> HIDE DEF b
<1>4. ASSUME NEW z \in {"open", "locked", "final"},
             x = [b EXCEPT !.inflight = FALSE, !.read = @ \cup k.crops, !.rec = z]
      PROVE  EpisodeFits(x, c, t, F) /\ SameEpisode(e, x)
  <2>1. /\ x \in Episodes /\ x.key = b.key /\ x.crops = b.crops /\ x.read = b.read \cup k.crops
        /\ x.pending = b.pending /\ x.submitted = b.submitted /\ x.done = b.done /\ x.emitted = b.emitted
    <3> DEFINE m == b.read \cup k.crops
    <3>1. b \in Episodes /\ m \in SUBSET Nat BY <1>1, <1>2 DEF EpisodeFits, Episodes
    <3>2. x = [b EXCEPT !.inflight = FALSE, !.read = m, !.rec = z] BY <1>4
    <3> HIDE DEF m
    <3>3. /\ x \in Episodes /\ x.key = b.key /\ x.crops = b.crops /\ x.read = m
          /\ x.pending = b.pending /\ x.submitted = b.submitted /\ x.done = b.done /\ x.emitted = b.emitted
      BY <3>1, <3>2 DEF Episodes
    <3> QED BY <3>3 DEF m
  <2> QED BY <1>1, <1>2, <2>1 DEF EpisodeFits, SameEpisode
<1> QED BY <1>1, <1>3, <1>4

LEMMA IdleFinFits == IdleFin \in Fins /\ IdleFin.at = "idle"
  BY DEF IdleFin, Fins

\* While the finalizer works its episodes need no other witness.
LEMMA HoldsAll ==
    ASSUME EngineInv, fin.at # "idle"
    PROVE  /\ WorldFits(World, Frames, Key) /\ run["central"].at = "idle"
           /\ ~cam.final => Bare(World)
  BY DEF EngineInv, Hold, Finalizing, Bare, World

LEMMA FinLatchFits ==
    ASSUME EngineInv, FinLatch
    PROVE  EngineInv' /\ Decided(World, World')
<1> DEFINE c == [cam EXCEPT !.final = TRUE, !.complete = FALSE]
           E == [t \in DOMAIN eps |-> IF eps[t].done THEN [eps[t] EXCEPT !.crops = {}]
                                      ELSE [eps[t] EXCEPT !.gone = TRUE]]
           v == [cam |-> c, eps |-> E, tracker |-> tracker, queue |-> queue]
           K == {eps[t].key : t \in {u \in DOMAIN eps : ~eps[u].done /\ eps[u].submitted}}
<1>1. /\ c \in Cameras /\ c.epoch = cam.epoch /\ c.life = cam.life /\ c.source = cam.source
      /\ c.final = TRUE
  BY InvFacts DEF Cameras
<1>2. ASSUME NEW t \in DOMAIN eps
      PROVE  EpisodeFits(E[t], cam.epoch, t, Frames) /\ SameEpisode(eps[t], E[t])
  <2>1. EpisodeFits(eps[t], cam.epoch, t, Frames) BY InvFacts
  <2>2. CASE eps[t].done
    <3>1. E[t] = [eps[t] EXCEPT !.crops = {}] BY <2>2
    <3> HIDE DEF E
    <3> QED BY <2>1, <3>1, CropsGone
  <2>3. CASE ~eps[t].done
    <3>1. E[t] = [eps[t] EXCEPT !.gone = TRUE] BY <2>3
    <3> HIDE DEF E
    <3> QED BY <2>1, <3>1, GoneFits
  <2> QED BY <2>2, <2>3
<1>3. E = [t \in DOMAIN E |-> E[t]] /\ DOMAIN E = DOMAIN eps OBVIOUS
<1>4. K \subseteq Key BY InvFacts DEF EpisodeFits, Episodes
<1>5. cam' = c /\ eps' = E /\ fin' = [IdleFin EXCEPT !.at = "cancel", !.keys = K] BY DEF FinLatch
<1> HIDE DEF c, E, K
<1>6. /\ fin' \in Fins /\ fin'.at = "cancel" /\ fin'.own = {} /\ fin'.tasks = {} /\ fin'.results = {}
  BY <1>4, <1>5 DEF IdleFin, Fins
<1>7. Hold' = Key BY <1>6 DEF Hold
<1>8. WorldFits(v, Frames, Hold') /\ Decided(World, v)
  BY <1>1, <1>2, <1>3, <1>7, InvFacts, EpisodesStep
<1>9. v.cam = c /\ v.eps = E /\ v.tracker = tracker /\ v.queue = queue OBVIOUS
<1> HIDE DEF v
<1>10. Become(v) BY <1>5, <1>9 DEF Become, FinLatch
<1>11. SameLife(World, v) BY <1>1, <1>9 DEF SameLife, World
<1>12. \A k \in Loose' : Fits(k, cam.epoch, Frames)
  BY <1>6 DEF Loose, Waiting, EngineInv, FinLatch
<1>13. /\ UNCHANGED <<mode, past>> /\ RunsFit' /\ PacketFits(packet', cam.epoch, Frames)
       /\ PacketFits(run'["central"].frame, cam.epoch, Frames)
       /\ \A o \in fin'.own : OwnerFits(o, cam.epoch, Frames)
  BY <1>6 DEF FinLatch, EngineInv, RunsFit, PacketFits
<1>14. Typed' BY <1>6 DEF Typed, EngineInv, FinLatch, mode, past
<1>15. Finalizing' BY <1>1, <1>5 DEF Finalizing, FinLatch, At
<1> QED BY <1>8, <1>10, <1>11, <1>12, <1>13, <1>14, <1>15, LifeStepFits

LEMMA FinCancelFits ==
    ASSUME EngineInv, FinCancel
    PROVE  EngineInv' /\ Goes(World, World')
<1>1. fin \in Fins /\ fin.at = "cancel" /\ run["central"].at = "idle" /\ (~cam.final => Bare(World))
  BY HoldsAll DEF FinCancel, EngineInv, Typed
<1>2. PICK k \in fin.keys, o \in Owners :
         /\ fin' = [fin EXCEPT !.keys = @ \ {k}, !.own = @ \cup {o}]
         /\ OwnerFits(o, cam.epoch, Frames)
         /\ queue' \subseteq queue /\ completed' \subseteq completed
  <2>1. PICK k \in fin.keys :
         LET queued == {q \in queue : q.key = k}
             owned  == {run[p].task : p \in {q \in Processor : run[q].task # None /\ run[q].task.key = k}}
             done   == {c \in completed : c.task.key = k}
             own(how, what) == [fin EXCEPT !.keys = @ \ {k},
                                  !.own = @ \cup {[key |-> k, how |-> how, what |-> what]}]
         IN  CASE queued # {} -> /\ \E q \in queued : fin' = own("cancelled", q)
                                 /\ queue' = queue \ queued
                                 /\ UNCHANGED completed
               [] queued = {} /\ owned # {} -> fin' = own("observed", None) /\ UNCHANGED <<queue, completed>>
               [] OTHER -> /\ \E r \in IF done = {} THEN {None} ELSE done : fin' = own("finished", r)
                           /\ completed' = completed \ done
                           /\ UNCHANGED queue
    BY DEF FinCancel
  <2> DEFINE o(how, what) == [key |-> k, how |-> how, what |-> what]
  <2>2. k \in Key BY <1>1 DEF Fins
  <2>3. \/ \E q \in queue : /\ fin' = [fin EXCEPT !.keys = @ \ {k}, !.own = @ \cup {o("cancelled", q)}]
                            /\ queue' \subseteq queue /\ completed' = completed
        \/ /\ fin' = [fin EXCEPT !.keys = @ \ {k}, !.own = @ \cup {o("observed", None)}]
           /\ queue' = queue /\ completed' = completed
        \/ \E r \in completed \cup {None} :
              /\ fin' = [fin EXCEPT !.keys = @ \ {k}, !.own = @ \cup {o("finished", r)}]
              /\ queue' = queue /\ completed' \subseteq completed
    BY <2>1
  <2>4. CASE \E q \in queue : /\ fin' = [fin EXCEPT !.keys = @ \ {k}, !.own = @ \cup {o("cancelled", q)}]
                              /\ queue' \subseteq queue /\ completed' = completed
    <3>1. PICK q \in queue : /\ fin' = [fin EXCEPT !.keys = @ \ {k}, !.own = @ \cup {o("cancelled", q)}]
                             /\ queue' \subseteq queue /\ completed' = completed
      BY <2>4
    <3>2. q \in Tasks /\ Fits(q, cam.epoch, Frames) BY InvFacts
    <3>3. o("cancelled", q) \in Owners BY <2>2, <3>2 DEF Owners
    <3>4. OwnerFits(o("cancelled", q), cam.epoch, Frames) BY <3>2 DEF OwnerFits
    <3> QED BY <3>1, <3>3, <3>4
  <2>5. CASE /\ fin' = [fin EXCEPT !.keys = @ \ {k}, !.own = @ \cup {o("observed", None)}]
             /\ queue' = queue /\ completed' = completed
    <3>1. o("observed", None) \in Owners BY <2>2 DEF Owners
    <3>2. OwnerFits(o("observed", None), cam.epoch, Frames) BY DEF OwnerFits
    <3> QED BY <2>5, <3>1, <3>2
  <2>6. CASE \E r \in completed \cup {None} :
              /\ fin' = [fin EXCEPT !.keys = @ \ {k}, !.own = @ \cup {o("finished", r)}]
              /\ queue' = queue /\ completed' \subseteq completed
    <3>1. PICK r \in completed \cup {None} :
              /\ fin' = [fin EXCEPT !.keys = @ \ {k}, !.own = @ \cup {o("finished", r)}]
              /\ queue' = queue /\ completed' \subseteq completed
      BY <2>6
    <3>2. r = None \/ (r \in Results /\ Fits(r.task, cam.epoch, Frames)) BY LooseFits
    <3>3. o("finished", r) \in Owners BY <2>2, <3>2 DEF Owners
    <3>4. OwnerFits(o("finished", r), cam.epoch, Frames) BY <3>2 DEF OwnerFits
    <3> QED BY <3>1, <3>3, <3>4
  <2> QED BY <2>3, <2>4, <2>5, <2>6
<1>3. /\ fin' \in Fins /\ fin'.at = "cancel" /\ fin'.own = fin.own \cup {o}
      /\ fin'.tasks = fin.tasks /\ fin'.results = fin.results
  BY <1>1, <1>2 DEF Fins
<1>4. Hold = Key /\ Hold' = Key BY <1>1, <1>3 DEF Hold
<1> DEFINE v == [World EXCEPT !.queue = queue']
<1>5. /\ WorldFits(v, Frames, Hold') /\ Goes(World, v)
      /\ v.cam = cam /\ v.eps = eps /\ v.tracker = tracker /\ v.queue = queue'
  <2>1. \A x \in queue \ queue' : x.key \in Key BY InvFacts DEF Tasks
  <2> QED BY <1>2, <1>4, <2>1, HandedOver
<1> HIDE DEF v
<1>6. Become(v) BY <1>5 DEF Become, FinCancel
<1>7. \A j \in Loose' : Fits(j, cam.epoch, Frames)
  <2>1. Waiting' = Waiting BY DEF Waiting, FinCancel
  <2>2. Loose' = Waiting \cup {c.task : c \in completed'} \cup fin.tasks \cup {r.task : r \in fin.results}
    BY <1>3, <2>1 DEF Loose
  <2>3. Loose' \subseteq Loose BY <1>2, <2>2 DEF Loose
  <2> QED BY <2>3 DEF EngineInv
<1>8. Typed' BY <1>2, <1>3 DEF Typed, EngineInv, FinCancel, mode, past
<1>9. /\ UNCHANGED <<mode, past>> /\ RunsFit' /\ PacketFits(packet', cam.epoch, Frames)
      /\ PacketFits(run'["central"].frame, cam.epoch, Frames)
  BY DEF FinCancel, EngineInv, RunsFit
<1>10. \A x \in fin'.own : OwnerFits(x, cam.epoch, Frames) BY <1>2, <1>3 DEF EngineInv
<1>11. Finalizing' BY <1>1 DEF Finalizing, FinCancel, Bare, World
<1> QED BY <1>5, <1>6, <1>7, <1>8, <1>9, <1>10, <1>11, StepFits DEF Goes

\* What owners have read for a key is fit to be applied.
LEMMA ProcessedFits ==
    ASSUME EngineInv, NEW k, NEW r \in Processed(k)
    PROVE  r \in Results /\ Fits(r.task, cam.epoch, Frames)
<1>1. r \in completed \/ \E o \in fin.own : o.how = "finished" /\ o.what # None /\ r = o.what
  BY DEF Processed
<1> QED BY <1>1, LooseFits DEF EngineInv, OwnerFits

\* An attempt that was cancelled is taken back.
LEMMA TakenBackFits ==
    ASSUME fusion \in BOOLEAN, NEW c, NEW t, NEW F, NEW e, EpisodeFits(e, c, t, F), NEW X,
           NEW y, y \in {e, [e EXCEPT !.attempts = @ - 1], [Released(e) EXCEPT !.seen = @ \ X]}
    PROVE  EpisodeFits(y, c, t, F) /\ SameEpisode(e, y)
<1>1. CASE y = e BY <1>1 DEF SameEpisode
<1>2. CASE y = [e EXCEPT !.attempts = @ - 1]
  <2>1. /\ y \in Episodes /\ y.key = e.key /\ y.crops = e.crops /\ y.read = e.read
        /\ y.pending = e.pending /\ y.submitted = e.submitted /\ y.done = e.done
        /\ y.emitted = e.emitted
    BY <1>2 DEF EpisodeFits, Episodes
  <2> QED BY <2>1 DEF EpisodeFits, SameEpisode
<1>3. CASE y = [Released(e) EXCEPT !.seen = @ \ X]
  <2> DEFINE r == Released(e)
  <2>1. EpisodeFits(r, c, t, F) /\ SameEpisode(e, r) BY ReleasedFits
  <2>2. y = [r EXCEPT !.seen = @ \ X] BY <1>3
  <2> HIDE DEF r
  <2>3. /\ y \in Episodes /\ y.key = r.key /\ y.crops = r.crops /\ y.read = r.read
        /\ y.pending = r.pending /\ y.submitted = r.submitted /\ y.done = r.done
        /\ y.emitted = r.emitted
    BY <2>1, <2>2 DEF EpisodeFits, Episodes
  <2> QED BY <2>1, <2>3 DEF EpisodeFits, SameEpisode
<1> QED BY <1>1, <1>2, <1>3

\* What becomes of one episode when the owners are done.
LEMMA CollectedFits ==
    ASSUME EngineInv, NEW t, NEW e, EpisodeFits(e, cam.epoch, t, Frames), NEW x \in Collected(e)
    PROVE  /\ EpisodeFits(x.e, cam.epoch, t, Frames) /\ SameEpisode(e, x.e)
           /\ x.task # None => Fits(x.task, cam.epoch, Frames)
           /\ x.result # None => x.result \in Results /\ Fits(x.result.task, cam.epoch, Frames)
<1> DEFINE into(y, task, result) == [e |-> y, task |-> task, result |-> result]
           X == UNION {q.crops : q \in Cancelled(e.key)}
           back == CASE Cancelled(e.key) = {} -> e
                     [] ~fusion -> [e EXCEPT !.attempts = @ - 1]
                     [] e.inflight -> [Released(e) EXCEPT !.seen = @ \ X]
                     [] OTHER -> e
           owned == e.submitted /\ \E o \in fin.own : o.key = e.key
           y == IF owned THEN [back EXCEPT !.submitted = FALSE] ELSE e
           ended(z) == [z EXCEPT !.submitted = FALSE, !.done = TRUE, !.crops = {},
                                 !.rec = IF @ = "final" \/ ~fusion THEN @ ELSE "closed"]
<1>0. fusion \in BOOLEAN BY InvFacts
<1>1. \/ x = into([e EXCEPT !.crops = {}], None, None)
      \/ e.pending # None /\ x = into(e, None, e.pending)
      \/ \E r \in Processed(e.key) : x = into(e, None, r)
      \/ ~e.done /\ \E p \in Prepared(y, TRUE) :
            x = IF p.task = None THEN into(ended(p.e), None, None) ELSE into(p.e, p.task, None)
  BY DEF Collected
<1>2. CASE x = into([e EXCEPT !.crops = {}], None, None)
  <2>1. x.e = [e EXCEPT !.crops = {}] /\ x.task = None /\ x.result = None BY <1>2
  <2> QED BY <2>1, CropsGone
<1>3. CASE e.pending # None /\ x = into(e, None, e.pending)
  BY <1>3 DEF EpisodeFits, SameEpisode
<1>4. CASE \E r \in Processed(e.key) : x = into(e, None, r)
  BY <1>4, ProcessedFits DEF SameEpisode
<1>5. CASE ~e.done /\ \E p \in Prepared(y, TRUE) :
            x = IF p.task = None THEN into(ended(p.e), None, None) ELSE into(p.e, p.task, None)
  <2>1. PICK p \in Prepared(y, TRUE) :
            x = IF p.task = None THEN into(ended(p.e), None, None) ELSE into(p.e, p.task, None)
    BY <1>5
  <2>2. back \in {e, [e EXCEPT !.attempts = @ - 1], [Released(e) EXCEPT !.seen = @ \ X]} OBVIOUS
  <2> HIDE DEF back, X, ended
  <2>3. EpisodeFits(back, cam.epoch, t, Frames) /\ SameEpisode(e, back)
    BY <1>0, <2>2, TakenBackFits
  <2>4. EpisodeFits(y, cam.epoch, t, Frames) /\ SameEpisode(e, y)
    <3>1. CASE owned
      <4>1. y = [back EXCEPT !.submitted = FALSE] BY <3>1
      <4> HIDE DEF y, owned
      <4> QED BY <2>3, <4>1, UnsubmittedFits DEF SameEpisode
    <3>2. CASE ~owned BY <3>2 DEF SameEpisode
    <3> QED BY <3>1, <3>2
  <2> HIDE DEF y, owned
  <2>5. /\ EpisodeFits(p.e, cam.epoch, t, Frames) /\ SameEpisode(y, p.e)
        /\ p.task # None => Fits(p.task, cam.epoch, Frames)
    BY <1>0, <2>1, <2>4, PreparedFits
  <2>6. p.e.key = e.key BY <2>4, <2>5 DEF SameEpisode
  <2>7. CASE p.task # None
    <3>1. x.e = p.e /\ x.task = p.task /\ x.result = None BY <2>1, <2>7
    <3> QED BY <1>5, <2>5, <2>6, <2>7, <3>1 DEF SameEpisode
  <2>8. CASE p.task = None
    <3> DEFINE z == p.e
               g == IF z.rec = "final" \/ ~fusion THEN z.rec ELSE "closed"
               u == [z EXCEPT !.submitted = FALSE, !.done = TRUE, !.crops = {}, !.rec = g]
    <3>1. ended(z) = u BY <2>5 DEF ended, EpisodeFits, Episodes
    <3>2. x.e = u /\ x.task = None /\ x.result = None BY <2>1, <2>8, <3>1
    <3>3. z \in Episodes /\ g \in {"open", "locked", "final", "closed"}
      BY <2>5 DEF EpisodeFits, Episodes
    <3> HIDE DEF g
    <3>4. /\ u \in Episodes /\ u.key = z.key /\ u.crops = {} /\ u.read = z.read
          /\ u.pending = z.pending /\ u.submitted = FALSE /\ u.done = TRUE /\ u.emitted = z.emitted
      BY <3>3 DEF Episodes
    <3> HIDE DEF u, z
    <3>5. EpisodeFits(z, cam.epoch, t, Frames) /\ z.key = e.key BY <2>5, <2>6 DEF z
    <3>6. EpisodeFits(u, cam.epoch, t, Frames) BY <3>4, <3>5 DEF EpisodeFits
    <3>7. SameEpisode(e, u) BY <1>5, <3>4, <3>5 DEF SameEpisode
    <3> QED BY <3>2, <3>6, <3>7
  <2> QED BY <2>7, <2>8
<1> QED BY <1>1, <1>2, <1>3, <1>4, <1>5

LEMMA FinCollectFits ==
    ASSUME EngineInv, FinCollect
    PROVE  EngineInv' /\ Decided(World, World')
<1>1. fin \in Fins /\ fin.at = "cancel" /\ run["central"].at = "idle" /\ (~cam.final => Bare(World))
  BY HoldsAll DEF FinCollect, EngineInv, Typed
<1>2. PICK choice \in [DOMAIN eps -> UNION {Collected(eps[t]) : t \in DOMAIN eps}] :
         /\ \A t \in DOMAIN eps : choice[t] \in Collected(eps[t])
         /\ eps' = [t \in DOMAIN eps |-> choice[t].e]
         /\ cam' = IF \E t \in DOMAIN eps : choice[t].task # None
                   THEN [cam EXCEPT !.phase = "active"] ELSE cam
         /\ fin' = [IdleFin EXCEPT !.at = "drain",
                      !.results = {choice[t].result : t \in DOMAIN eps} \ {None},
                      !.tasks = {choice[t].task : t \in DOMAIN eps} \ {None}]
  BY DEF FinCollect
<1>3. ASSUME NEW t \in DOMAIN eps
      PROVE  /\ EpisodeFits(choice[t].e, cam.epoch, t, Frames) /\ SameEpisode(eps[t], choice[t].e)
             /\ choice[t].task # None => Fits(choice[t].task, cam.epoch, Frames)
             /\ choice[t].result # None =>
                   choice[t].result \in Results /\ Fits(choice[t].result.task, cam.epoch, Frames)
  <2>1. EpisodeFits(eps[t], cam.epoch, t, Frames) /\ choice[t] \in Collected(eps[t]) BY <1>2, InvFacts
  <2> QED BY <2>1, CollectedFits
<1> DEFINE R == {choice[t].result : t \in DOMAIN eps} \ {None}
           K == {choice[t].task : t \in DOMAIN eps} \ {None}
           E == [t \in DOMAIN eps |-> choice[t].e]
           v == [cam |-> cam', eps |-> E, tracker |-> tracker, queue |-> queue]
<1>4. /\ \A r \in R : r \in Results /\ Fits(r.task, cam.epoch, Frames)
      /\ \A k \in K : k \in Tasks /\ Fits(k, cam.epoch, Frames)
  BY <1>3 DEF Fits
<1>5. /\ cam' \in Cameras /\ cam'.epoch = cam.epoch /\ cam'.life = cam.life
      /\ cam'.source = cam.source /\ cam'.final = cam.final
  BY <1>2, InvFacts DEF Cameras
<1>6. E = [t \in DOMAIN E |-> E[t]] /\ DOMAIN E = DOMAIN eps
      /\ \A t \in DOMAIN eps : EpisodeFits(E[t], cam.epoch, t, Frames) /\ SameEpisode(eps[t], E[t])
  BY <1>3
<1>7. fin' = [IdleFin EXCEPT !.at = "drain", !.results = R, !.tasks = K] /\ eps' = E BY <1>2
<1> HIDE DEF R, K, E
<1>8. /\ fin' \in Fins /\ fin'.at = "drain" /\ fin'.own = {} /\ fin'.tasks = K /\ fin'.results = R
  <2>1. R \subseteq Results /\ K \subseteq Tasks BY <1>4
  <2> QED BY <1>7, <2>1 DEF IdleFin, Fins
<1>9. Hold' = Key BY <1>8 DEF Hold
<1>10. WorldFits(v, Frames, Hold') /\ Decided(World, v)
  BY <1>5, <1>6, <1>9, InvFacts, EpisodesStep
<1>11. v.cam = cam' /\ v.eps = E /\ v.tracker = tracker /\ v.queue = queue OBVIOUS
<1> HIDE DEF v
<1>12. Become(v) BY <1>7, <1>11 DEF Become, FinCollect
<1>13. SameLife(World, v) BY <1>5, <1>11 DEF SameLife, World
<1>14. \A k \in Loose' : Fits(k, cam.epoch, Frames)
  <2>1. Waiting' = Waiting /\ completed' = completed BY DEF Waiting, FinCollect
  <2>2. Loose' = Waiting \cup {c.task : c \in completed} \cup K \cup {r.task : r \in R}
    BY <1>8, <2>1 DEF Loose
  <2> QED BY <1>4, <2>2 DEF EngineInv, Loose
<1>15. /\ UNCHANGED <<mode, past>> /\ RunsFit' /\ PacketFits(packet', cam.epoch, Frames)
       /\ PacketFits(run'["central"].frame, cam.epoch, Frames)
       /\ \A o \in fin'.own : OwnerFits(o, cam.epoch, Frames)
  BY <1>8 DEF FinCollect, EngineInv, RunsFit
<1>16. Typed' BY <1>8 DEF Typed, EngineInv, FinCollect, mode, past
<1>17. Finalizing'
  <2>1. DOMAIN eps' = DOMAIN eps BY <1>2
  <2> QED BY <1>1, <1>5, <2>1 DEF Finalizing, FinCollect, Bare, World
<1> QED BY <1>10, <1>12, <1>13, <1>14, <1>15, <1>16, <1>17, LifeStepFits

\* A result is applied, or kept for a retry.
LEMMA FinOutcomeFits ==
    ASSUME EngineInv, fin.at = "drain", NEW k, Fits(k, cam.epoch, Frames), NEW good \in BOOLEAN,
           FinApplied(k, good) \/ FinNotApplied(k, good),
           UNCHANGED <<mode, past, packet, abandoned, completed, run>>
    PROVE  EngineInv' /\ Goes(World, World')
<1> DEFINE t == k.key[3]
           r == [task |-> k, good |-> good]
<1>1. /\ fin \in Fins /\ run["central"].at = "idle" /\ (~cam.final => Bare(World))
      /\ WorldFits(World, Frames, Key) /\ k \in Tasks /\ k.key \in Key
  BY HoldsAll DEF EngineInv, Typed, Fits, Tasks
<1>2. PICK v : /\ Become(v) /\ WorldFits(v, Frames, Key) /\ Goes(World, v)
               /\ (Bare(World) => Bare(v))
  <2>1. CASE FinApplied(k, good)
    <3>1. PICK w \in Applied(World, k, good) :
             Become(IF t \in DOMAIN w.eps /\ w.eps[t].key = k.key
                    THEN With(w, t, [w.eps[t] EXCEPT !.pending = None]) ELSE w)
      BY <2>1 DEF FinApplied
    <3>2. WorldFits(w, Frames, Key) /\ Goes(World, w)
      <4>1. Fits(k, World.cam.epoch, Frames) BY InvFacts
      <4>2. WorldFits(w, Frames, Key \ {k.key}) /\ Goes(World, w) BY <1>1, <3>1, <4>1, AppliedFits
      <4> QED BY <4>2, WorldFitsMore
    <3>3. Bare(World) => Bare(w) /\ t \notin DOMAIN w.eps
      <4>1. DOMAIN World.eps = {} => Applied(World, k, good) = {World} BY BareStays
      <4> QED BY <3>1, <4>1 DEF Bare
    <3> HIDE DEF t
    <3>4. CASE t \in DOMAIN w.eps /\ w.eps[t].key = k.key
      <4> DEFINE x == [w.eps[t] EXCEPT !.pending = None]
                 v == With(w, t, x)
      <4>1. EpisodeFits(w.eps[t], w.cam.epoch, t, Frames) BY <3>2, <3>4, EpisodeOf
      <4>2. EpisodeFits(x, w.cam.epoch, t, Frames) /\ SameEpisode(w.eps[t], x)
            /\ x.submitted = w.eps[t].submitted
        BY <4>1, PendingFits
      <4>3. Become(v) BY <3>1, <3>4
      <4> HIDE DEF x
      <4>4. WorldFits(v, Frames, Key) /\ Goes(w, v) BY <3>2, <3>4, <4>2, WithNext
      <4> HIDE DEF v
      <4>5. Goes(World, v) BY <3>2, <4>4, GoesOn
      <4> QED BY <3>3, <3>4, <4>3, <4>4, <4>5
    <3>5. CASE ~(t \in DOMAIN w.eps /\ w.eps[t].key = k.key)
      <4>1. Become(w) BY <3>1, <3>5
      <4> QED BY <3>2, <3>3, <4>1
    <3> QED BY <3>4, <3>5
  <2>2. CASE FinNotApplied(k, good)
    <3>1. /\ t \in DOMAIN eps /\ eps[t].key = k.key /\ UNCHANGED <<cam, tracker, queue>>
          /\ \E h \in HalfApplied(eps[t], k, good) : eps' = [eps EXCEPT ![t] = [h EXCEPT !.pending = r]]
      BY <2>2, InvFacts DEF FinNotApplied, Live, Same
    <3> PICK h \in HalfApplied(eps[t], k, good) : eps' = [eps EXCEPT ![t] = [h EXCEPT !.pending = r]]
      BY <3>1
    <3> DEFINE x == [h EXCEPT !.pending = r]
               E == [eps EXCEPT ![t] = x]
               v == [cam |-> cam, eps |-> E, tracker |-> tracker, queue |-> queue]
    <3>2. eps = [u \in DOMAIN eps |-> eps[u]]
      BY DEF EngineInv, WorldFits, WorldTyped, World
    <3>3. eps' = E OBVIOUS
    <3>4. r \in Results /\ r.task = k BY <1>1 DEF Results
    <3> HIDE DEF t, r
    <3>5. EpisodeFits(x, cam.epoch, t, Frames) /\ SameEpisode(eps[t], x)
      <4>1. EpisodeFits(h, cam.epoch, t, Frames) /\ SameEpisode(eps[t], h)
        BY <3>1, InvFacts, HalfAppliedFits
      <4>2. EpisodeFits(x, cam.epoch, t, Frames) /\ SameEpisode(h, x) BY <3>4, <4>1, PendingFits
      <4> HIDE DEF x
      <4> QED BY <4>1, <4>2 DEF SameEpisode
    <3> HIDE DEF x
    <3>6. E = [u \in DOMAIN E |-> E[u]] /\ DOMAIN E = DOMAIN eps
          /\ \A u \in DOMAIN eps : E[u] = IF u = t THEN x ELSE eps[u]
      BY <3>2
    <3>7. \A u \in DOMAIN eps : EpisodeFits(E[u], cam.epoch, u, Frames) /\ SameEpisode(eps[u], E[u])
      BY <3>5, <3>6, InvFacts DEF SameEpisode
    <3> HIDE DEF E
    <3>8. WorldFits(v, Frames, Key) /\ Decided(World, v) BY <3>6, <3>7, InvFacts, EpisodesStep
    <3>9. v.cam = cam /\ v.eps = E /\ v.tracker = tracker /\ v.queue = queue OBVIOUS
    <3> HIDE DEF v
    <3>10. Become(v) BY <3>1, <3>3, <3>9 DEF Become
    <3>11. Goes(World, v) BY <3>8, <3>9 DEF Goes, SameCamera, World
    <3>12. ~Bare(World) BY <3>1 DEF Bare, World
    <3> QED BY <3>8, <3>10, <3>11, <3>12
  <2> QED BY <2>1, <2>2
<1>3. /\ fin' \in Fins /\ fin'.at = "drain" /\ fin'.own = fin.own
      /\ fin'.tasks \subseteq fin.tasks /\ fin'.results \subseteq fin.results
  <2>1. \/ fin' = [fin EXCEPT !.results = @ \ {r}, !.tasks = @ \ {k}]
        \/ fin' = [fin EXCEPT !.failed = @ \cup {k.key}, !.tasks = @ \ {k}, !.results = @ \ {r}]
    BY DEF FinApplied, FinNotApplied
  <2> HIDE DEF r
  <2>2. CASE fin' = [fin EXCEPT !.results = @ \ {r}, !.tasks = @ \ {k}]
    BY <1>1, <2>2 DEF Fins
  <2>3. CASE fin' = [fin EXCEPT !.failed = @ \cup {k.key}, !.tasks = @ \ {k}, !.results = @ \ {r}]
    BY <1>1, <2>3 DEF Fins
  <2> QED BY <2>1, <2>2, <2>3
<1>4. Hold' = Key BY <1>3 DEF Hold
<1>5. \A j \in Loose' : Fits(j, cam.epoch, Frames)
  <2>1. Waiting' = Waiting BY DEF Waiting
  <2>2. Loose' = Waiting \cup {c.task : c \in completed} \cup fin'.tasks \cup {x.task : x \in fin'.results}
    BY <2>1 DEF Loose
  <2>3. Loose' \subseteq Loose BY <1>3, <2>2 DEF Loose
  <2> QED BY <2>3 DEF EngineInv
<1>6. Typed' BY <1>3 DEF Typed, EngineInv, mode, past
<1>7. /\ RunsFit' /\ PacketFits(packet', cam.epoch, Frames)
      /\ PacketFits(run'["central"].frame, cam.epoch, Frames)
      /\ \A x \in fin'.own : OwnerFits(x, cam.epoch, Frames)
  BY <1>3 DEF EngineInv, RunsFit
<1>8. World' = v BY <1>2 DEF WorldFits, WorldTyped, World, Become
<1>9. Finalizing'
  <2>1. cam'.final = cam.final BY <1>2, <1>8 DEF Goes, SameCamera, World
  <2>2. Bare(World) => Bare(World') BY <1>2, <1>8
  <2> QED BY <1>1, <2>1, <2>2 DEF Finalizing, Bare, World
<1>10. WorldFits(v, Frames, Hold') /\ SameCamera(World, v) BY <1>2, <1>4 DEF Goes
<1> QED BY <1>2, <1>5, <1>6, <1>7, <1>8, <1>9, <1>10, StepFits

LEMMA FinResultFits ==
    ASSUME EngineInv, FinResult
    PROVE  EngineInv' /\ Goes(World, World')
<1>1. PICK r \in fin.results : FinApplied(r.task, r.good) \/ FinNotApplied(r.task, r.good)
  BY DEF FinResult
<1>2. r.good \in BOOLEAN /\ Fits(r.task, cam.epoch, Frames) BY LooseFits DEF Results
<1> QED BY <1>1, <1>2, FinOutcomeFits DEF FinResult

LEMMA FinReadFits ==
    ASSUME EngineInv, FinRead
    PROVE  EngineInv' /\ Goes(World, World')
<1>1. PICK k \in fin.tasks, good \in BOOLEAN : FinApplied(k, good) \/ FinNotApplied(k, good)
  BY DEF FinRead
<1>2. Fits(k, cam.epoch, Frames) BY LooseFits
<1> QED BY <1>1, <1>2, FinOutcomeFits DEF FinRead

\* When the finalizer leaves, nobody waits.
LEMMA FinCloseFits ==
    ASSUME EngineInv, FinClose
    PROVE  EngineInv' /\ Decided(World, World')
<1>1. /\ fin \in Fins /\ run["central"].at = "idle" /\ (~cam.final => Bare(World))
  BY HoldsAll DEF FinClose, EngineInv, Typed
<1>2. PICK v : Become(v) /\ WorldFits(v, Frames, Hold') /\ SameLife(World, v) /\ Decided(World, v)
  <2>1. CASE ~cam.final
    <3>1. Become(World) BY <2>1 DEF FinClose, Become, World
    <3>2. DOMAIN World.eps = {} BY <1>1, <2>1 DEF Bare
    <3>3. WorldFits(World, Frames, Hold') BY <3>2 DEF EngineInv, WorldFits, Backed
    <3> QED BY <3>1, <3>3 DEF SameLife, Decided
  <2>2. CASE cam.final
    <3> DEFINE y(t) == [eps[t] EXCEPT !.submitted = FALSE, !.inflight = FALSE]
               E == [t \in DOMAIN eps |-> IF y(t).key \in fin.failed THEN y(t)
                        ELSE [y(t) EXCEPT !.done = TRUE, !.pending = None, !.crops = {}]]
               v == [cam |-> cam', eps |-> E, tracker |-> NoTracker, queue |-> queue']
    <3>1. /\ eps' = E /\ tracker' = NoTracker /\ queue' = {k \in queue : k.key \notin Keys(eps)}
          /\ cam' = [cam EXCEPT !.complete = (fin.failed = {}),
                       !.phase = IF fin.failed # {} THEN "active"
                                 ELSE IF DOMAIN eps = {} THEN "idle" ELSE "done"]
      BY <2>2 DEF FinClose
    <3>2. /\ cam' \in Cameras /\ cam'.epoch = cam.epoch /\ cam'.life = cam.life
          /\ cam'.source = cam.source
      BY <3>1, InvFacts DEF Cameras
    <3>3. ASSUME NEW t \in DOMAIN eps
          PROVE  /\ EpisodeFits(E[t], cam.epoch, t, Frames) /\ SameEpisode(eps[t], E[t])
                 /\ ~E[t].submitted
      <4> DEFINE e == eps[t]
                 x == y(t)
                 z == [x EXCEPT !.done = TRUE, !.pending = None, !.crops = {}]
      <4>1. EpisodeFits(e, cam.epoch, t, Frames) BY InvFacts
      <4>2. E[t] = x \/ E[t] = z OBVIOUS
      <4>3. x = [e EXCEPT !.submitted = FALSE, !.inflight = FALSE] OBVIOUS
      <4> HIDE DEF e, x, E
      <4>4. /\ x \in Episodes /\ x.key = e.key /\ x.crops = e.crops /\ x.read = e.read
            /\ x.pending = e.pending /\ x.submitted = FALSE /\ x.done = e.done /\ x.emitted = e.emitted
        BY <4>1, <4>3 DEF EpisodeFits, Episodes
      <4>5. EpisodeFits(x, cam.epoch, t, Frames) /\ SameEpisode(e, x) /\ ~x.submitted
        BY <4>1, <4>4 DEF EpisodeFits, SameEpisode
      <4>6. /\ z \in Episodes /\ z.key = x.key /\ z.crops = {} /\ z.read = x.read
            /\ z.pending = None /\ z.submitted = x.submitted /\ z.done = TRUE /\ z.emitted = x.emitted
        BY <4>4 DEF Episodes
      <4> HIDE DEF z
      <4>7. EpisodeFits(z, cam.epoch, t, Frames) /\ SameEpisode(e, z) /\ ~z.submitted
        BY <4>5, <4>6 DEF EpisodeFits, SameEpisode
      <4> QED BY <4>2, <4>5, <4>7 DEF e
    <3>4. E = [t \in DOMAIN E |-> E[t]] /\ DOMAIN E = DOMAIN eps OBVIOUS
    <3> HIDE DEF E
    <3>5. queue' \subseteq queue BY <3>1
    <3>6. WorldFits(v, Frames, Hold') /\ Decided(World, v)
      BY <3>2, <3>3, <3>4, <3>5, NoTrackerIsOne, EpisodesStep
    <3>7. v.cam = cam' /\ v.eps = E /\ v.tracker = NoTracker /\ v.queue = queue' OBVIOUS
    <3> HIDE DEF v
    <3>8. Become(v) BY <3>1, <3>7 DEF Become
    <3>9. SameLife(World, v) BY <3>2, <3>7 DEF SameLife, World
    <3> QED BY <3>6, <3>8, <3>9
  <2> QED BY <2>1, <2>2
<1>3. fin' \in Fins /\ fin'.at = "idle" /\ fin'.own = {} /\ fin'.tasks = {} /\ fin'.results = {}
  BY IdleFinFits DEF FinClose, IdleFin
<1>4. \A j \in Loose' : Fits(j, cam.epoch, Frames)
  <2>0. UNCHANGED <<abandoned, completed, run>> BY DEF FinClose
  <2>1. Waiting' = Waiting /\ completed' = completed BY <2>0 DEF Waiting
  <2>2. Loose' = Waiting \cup {c.task : c \in completed} BY <1>3, <2>1 DEF Loose
  <2> QED BY <2>2 DEF EngineInv, Loose
<1>5. Typed' BY <1>3 DEF Typed, EngineInv, FinClose, mode, past
<1>6. /\ UNCHANGED <<mode, past>> /\ RunsFit' /\ PacketFits(packet', cam.epoch, Frames)
      /\ PacketFits(run'["central"].frame, cam.epoch, Frames)
      /\ \A x \in fin'.own : OwnerFits(x, cam.epoch, Frames)
  BY <1>3 DEF FinClose, EngineInv, RunsFit
<1>7. Finalizing' BY <1>3 DEF Finalizing
<1> QED BY <1>2, <1>4, <1>5, <1>6, <1>7, LifeStepFits

-----------------------------------------------------------------------------
(* The producer                                                             *)

\* What a step that may begin a lifecycle has to show.
LEMMA NewLifeFits ==
    ASSUME EngineInv, NEW v, Become(v), WorldFits(v, Frames', Hold'),
           v.cam.epoch = cam.epoch + 1 \/ (v.cam.epoch = cam.epoch /\ Frames \subseteq Frames'),
           UNCHANGED <<mode, abandoned, completed, run, fin>>,
           life' \in Nat \ {0}, born' \in Seq(Nat), Modes', Finalizing',
           PacketFits(packet', cam'.epoch, Frames')
    PROVE  EngineInv' /\ World' = v
<1>1. World' = v /\ cam' = v.cam BY DEF WorldFits, WorldTyped, World, Become
<1>2. cam.epoch \in Nat /\ cam'.epoch \in Nat
      /\ (cam.epoch < cam'.epoch \/ (cam.epoch = cam'.epoch /\ Frames \subseteq Frames'))
  BY <1>1, InvFacts
<1>3. \A k : Fits(k, cam.epoch, Frames) => Fits(k, cam'.epoch, Frames') BY <1>2, FitsLater
<1>4. \A k \in Loose' : Fits(k, cam'.epoch, Frames')
  BY <1>3 DEF Loose, Waiting, EngineInv
<1>5. PacketFits(run'["central"].frame, cam'.epoch, Frames')
  BY <1>2 DEF EngineInv, PacketFits, Packets
<1>6. \A o \in fin'.own : OwnerFits(o, cam'.epoch, Frames')
  BY <1>3 DEF EngineInv, OwnerFits
<1>7. Typed' /\ RunsFit' BY DEF Typed, RunsFit, EngineInv, mode
<1> QED BY <1>1, <1>4, <1>5, <1>6, <1>7 DEF EngineInv

\* The camera's record is replaced by one of the same epoch.
LEMMA CamFits ==
    ASSUME NEW w, NEW F, NEW H, WorldFits(w, F, H), NEW c \in Cameras, c.epoch = w.cam.epoch
    PROVE  LET v == [w EXCEPT !.cam = c]
           IN  /\ WorldFits(v, F, H) /\ Decided(w, v)
               /\ v.cam = c /\ v.eps = w.eps /\ v.tracker = w.tracker /\ v.queue = w.queue
<1> DEFINE v == [w EXCEPT !.cam = c]
<1>0. WorldTyped(w) BY DEF WorldFits
<1>1. /\ v.cam = c /\ v.eps = w.eps /\ v.tracker = w.tracker /\ v.queue = w.queue
      /\ v = [cam |-> c, eps |-> w.eps, tracker |-> w.tracker, queue |-> w.queue]
  BY <1>0 DEF WorldTyped
<1> HIDE DEF v
<1>2. WorldTyped(v) BY <1>0, <1>1 DEF WorldTyped
<1>3. WorldFits(v, F, H) BY <1>1, <1>2 DEF WorldFits, Backed
<1>4. Decided(w, v) BY <1>1 DEF Decided
<1> QED BY <1>1, <1>3, <1>4 DEF v

\* The camera as a frame of the producer's present lifecycle finds it: as it
\* was, or begun anew.
LEMMA AdoptedFits ==
    ASSUME EngineInv, cam.final => Reopens, NEW G,
           (cam.life = life \/ born = <<>>) => Frames \subseteq G
    PROVE  /\ WorldFits(Adopted, G, Hold)
           /\ Adopted.cam.life = life /\ ~Adopted.cam.final
           /\ Adopted.cam.source = IF explicit THEN life ELSE cam.source
           /\ \/ /\ Adopted.cam.epoch = cam.epoch /\ Frames \subseteq G /\ ~Restarts
                 /\ Decided(World, Adopted) /\ Adopted.eps = eps /\ Adopted.tracker = tracker
                 /\ ~cam.final
              \/ /\ Adopted.cam.epoch = cam.epoch + 1 /\ Bare(Adopted)
                 /\ Adopted.cam.phase = "idle"
<1> DEFINE s == IF explicit THEN life ELSE cam.source
           w == CASE Reopens  -> [Restarted(World) EXCEPT !.cam.number = @ + 1, !.cam.final = FALSE,
                                                          !.cam.complete = FALSE]
                  [] Restarts -> Restarted(World)
                  [] OTHER    -> World
<1>0. WorldFits(World, Frames, Hold) /\ life \in Nat BY DEF EngineInv, Typed
<1>1. Adopted = [w EXCEPT !.cam.source = IF explicit THEN life ELSE @, !.cam.life = life]
  BY DEF Adopted
<1>2. CASE Reopens \/ Restarts
  <2> DEFINE v == Restarted(World)
             b == [v.cam EXCEPT !.number = @ + 1, !.final = FALSE, !.complete = FALSE]
             c == [(IF Reopens THEN b ELSE v.cam) EXCEPT !.source = s, !.life = life]
             x == [v EXCEPT !.cam = c]
  <2>1. /\ WorldFits(v, G, Hold) /\ Bare(v) /\ v.cam.epoch = cam.epoch + 1
        /\ v.cam.source = cam.source /\ v.cam.final = cam.final /\ v.cam.phase = "idle"
    BY <1>0, RestartedFits, InvFacts
  <2>2. v.cam \in Cameras /\ WorldTyped(v) BY <2>1 DEF WorldFits, WorldTyped
  <2>3. s \in Nat BY <1>0, InvFacts DEF Cameras
  <2>4. w = IF Reopens THEN [v EXCEPT !.cam = b] ELSE v
    <3>1. CASE Reopens
      <4>0. ~Restarts BY <3>1 DEF Reopens, Restarts
      <4>1. w = [v EXCEPT !.cam.number = @ + 1, !.cam.final = FALSE, !.cam.complete = FALSE]
        BY <3>1, <4>0
      <4> HIDE DEF w, v
      <4> QED BY <2>2, <3>1, <4>1 DEF WorldTyped, Cameras
    <3>2. CASE ~Reopens
      <4>1. Restarts BY <1>2, <3>2
      <4>2. w = v BY <3>2, <4>1
      <4> HIDE DEF w, v
      <4> QED BY <3>2, <4>2
    <3> QED BY <3>1, <3>2
  <2>5. w.cam.source = cam.source /\ WorldTyped(w) /\ w.cam \in Cameras
        /\ w.cam = (IF Reopens THEN b ELSE v.cam) /\ [w EXCEPT !.cam = c] = [v EXCEPT !.cam = c]
    <3> HIDE DEF v, w, c
    <3>1. CASE Reopens
      <4>1. w = [v EXCEPT !.cam = b] BY <2>4, <3>1
      <4>2. b \in Cameras /\ b.source = cam.source
        <5> DEFINE m == v.cam.number + 1
        <5>1. m \in Nat BY <2>2 DEF Cameras
        <5>2. b = [v.cam EXCEPT !.number = m, !.final = FALSE, !.complete = FALSE]
          BY <2>2 DEF Cameras
        <5> HIDE DEF m, b
        <5> QED BY <2>1, <2>2, <5>1, <5>2 DEF Cameras
      <4> HIDE DEF b
      <4>3. /\ w = [cam |-> b, eps |-> v.eps, tracker |-> v.tracker, queue |-> v.queue]
            /\ w.cam = b /\ w.eps = v.eps /\ w.tracker = v.tracker /\ w.queue = v.queue
        BY <2>2, <4>1 DEF WorldTyped
      <4> QED BY <2>2, <3>1, <4>2, <4>3 DEF WorldTyped
    <3>2. CASE ~Reopens
      <4>1. w = v BY <2>4, <3>2
      <4> QED BY <2>1, <2>2, <3>2, <4>1
    <3> QED BY <3>1, <3>2
  <2>6. Adopted = x
    <3>1. Adopted = [w EXCEPT !.cam = [w.cam EXCEPT !.source = s, !.life = life]]
      <4> HIDE DEF w
      <4> QED BY <1>1, <2>5 DEF WorldTyped, Cameras
    <3> HIDE DEF w, v, b
    <3> QED BY <2>5, <3>1
  <2>7. /\ c \in Cameras /\ c.epoch = v.cam.epoch /\ c.life = life /\ c.source = s
        /\ c.phase = v.cam.phase /\ c.final = IF Reopens THEN FALSE ELSE v.cam.final
    <3> DEFINE d == IF Reopens THEN b ELSE v.cam
    <3>1. d \in Cameras BY <2>5
    <3>2. d.epoch = v.cam.epoch /\ d.phase = v.cam.phase /\ d.final = IF Reopens THEN FALSE ELSE v.cam.final
      <4> HIDE DEF v
      <4> QED BY <2>2 DEF Cameras
    <3>3. c = [d EXCEPT !.source = s, !.life = life] OBVIOUS
    <3> HIDE DEF v, w, s, b, d, c
    <3> QED BY <1>0, <2>3, <3>1, <3>2, <3>3 DEF Cameras
  <2>8. ~c.final BY <2>1, <2>7
  <2> HIDE DEF c, v, w
  <2>9. WorldFits(x, G, Hold) /\ x.cam = c /\ x.eps = v.eps /\ x.tracker = v.tracker
    BY <2>1, <2>7, CamFits
  <2> HIDE DEF x
  <2> QED BY <2>1, <2>6, <2>7, <2>8, <2>9 DEF Bare
<1>3. CASE ~Reopens /\ ~Restarts
  <2> DEFINE c == [cam EXCEPT !.source = s, !.life = life]
             x == [World EXCEPT !.cam = c]
  <2>1. w = World BY <1>3
  <2>2. cam \in Cameras /\ World = [cam |-> cam, eps |-> eps, tracker |-> tracker, queue |-> queue]
    BY InvFacts DEF World
  <2>3. Adopted = x
    <3> HIDE DEF w
    <3> QED BY <1>1, <2>1, <2>2 DEF Cameras
  <2>4. s \in Nat BY <1>0, InvFacts DEF Cameras
  <2>5. c \in Cameras /\ c.epoch = cam.epoch /\ c.life = life /\ c.source = s /\ c.final = cam.final
    <3> HIDE DEF s
    <3> QED BY <1>0, <2>2, <2>4 DEF Cameras
  <2>6. ~cam.final BY <1>3
  <2>7. cam.life = life \/ born = <<>>
    BY <1>3, <2>6 DEF Reopens, Restarts, EngineInv, Modes
  <2>8. WorldFits(World, G, Hold) BY <1>0, <2>7, WorldFitsMore
  <2> HIDE DEF c
  <2>9. WorldFits(x, G, Hold) /\ Decided(World, x) /\ x.cam = c /\ x.eps = eps /\ x.tracker = tracker
    BY <2>5, <2>8, InvFacts, CamFits
  <2> HIDE DEF x
  <2> QED BY <1>3, <2>3, <2>5, <2>6, <2>7, <2>9
<1> QED BY <1>2, <1>3

\* A frame leaves the camera in its lifecycle.
LEMMA IntakeFits ==
    ASSUME EngineInv, NEW G, WorldFits(Adopted, G, Hold), NEW n \in Nat, n \in G,
           NEW i \in Intake(n)
    PROVE  /\ WorldFits(i.w, G, Hold) /\ Moves(Adopted, i.w)
           /\ Bare(Adopted) => Bare(i.w)
<1> DEFINE w == Adopted
           t == [Woken(w) EXCEPT !.tracker = NoTracker]
<1>1. \/ i.w = w \/ i.w = Woken(w) \/ i.w = t \/ i.w = Cleared(w) \/ i.w = Woken(Cleared(w))
      \/ \E u \in w.tracker.live : i.w \in Harvested(w, n, u)
  BY DEF Intake
<1> HIDE DEF w
<1>0. WorldFits(w, G, Hold) BY DEF w
<1>2. CASE i.w = w BY <1>0, <1>2, GoesNowhere DEF Goes, Moves, w
<1>3. WorldFits(Woken(w), G, Hold) /\ Goes(w, Woken(w))
      /\ Woken(w).eps = w.eps /\ Woken(w).tracker = w.tracker
  BY <1>0, WokenFits
<1>4. CASE i.w = Woken(w) BY <1>3, <1>4 DEF Goes, Moves, Bare, w
<1>5. CASE i.w = t
  <2>1. WorldFits(t, G, Hold) /\ Goes(Woken(w), t) /\ t.eps = Woken(w).eps /\ t.tracker = NoTracker
    BY <1>3, NoTrackerIsOne, TrackerFits
  <2> HIDE DEF t
  <2>2. Goes(w, t) BY <1>3, <2>1, GoesOn
  <2> QED BY <1>3, <1>5, <2>1, <2>2, NoTrackerIsOne DEF Goes, Moves, Bare, w
<1>6. WorldFits(Cleared(w), G, Hold) /\ SameCamera(w, Cleared(w)) /\ Bare(Cleared(w))
  BY <1>0, ClearedFits
<1>7. CASE i.w = Cleared(w) BY <1>6, <1>7 DEF Moves, Bare, w
<1>8. CASE i.w = Woken(Cleared(w))
  <2> DEFINE c == Cleared(w)
  <2>1. WorldFits(c, G, Hold) /\ SameCamera(w, c) /\ Bare(c) BY <1>6
  <2> HIDE DEF c
  <2>2. WorldFits(Woken(c), G, Hold) /\ Goes(c, Woken(c)) /\ Woken(c).eps = c.eps
        /\ Woken(c).tracker = c.tracker
    BY <2>1, WokenFits
  <2>3. i.w = Woken(c) BY <1>8 DEF c
  <2> QED BY <2>1, <2>2, <2>3 DEF Moves, Goes, SameCamera, Bare, w
<1>9. CASE \E u \in w.tracker.live : i.w \in Harvested(w, n, u)
  <2>1. PICK u \in w.tracker.live : i.w \in Harvested(w, n, u) BY <1>9
  <2>2. u \in Track /\ fusion \in BOOLEAN /\ ~Bare(w)
    <3>1. w.tracker \in Trackers BY <1>0 DEF WorldFits, WorldTyped
    <3> QED BY <2>1, <3>1, InvFacts DEF Trackers, Bare
  <2>3. WorldFits(i.w, G, Hold) /\ Goes(w, i.w) BY <1>0, <2>1, <2>2, HarvestedFits
  <2> QED BY <2>2, <2>3 DEF Goes, Moves, w
<1> QED BY <1>1, <1>2, <1>4, <1>5, <1>7, <1>8, <1>9

LEMMA SubmitFrameFits ==
    ASSUME EngineInv, SubmitFrame
    PROVE  /\ EngineInv'
           /\ Decided(World, World') \/ DOMAIN World'.eps = {}
<1> DEFINE n == Len(born) + 1
           G == {m \in 1 .. n : Append(born, life)[m] = life}
<1>1. /\ born \in Seq(Nat) /\ life \in Nat \ {0} /\ n \in Nat /\ n \in G
      /\ (cam.life = life \/ born = <<>>) => Frames \subseteq G
  <2>1. born \in Seq(Nat) /\ life \in Nat \ {0} BY DEF EngineInv, Typed
  <2>2. n \in Nat /\ n \in G BY <2>1
  <2>3. CASE born = <<>>
    <3>1. Len(born) = 0 BY <2>3
    <3>2. 1 .. Len(born) = {} BY <3>1
    <3>3. Frames = {} BY <3>2 DEF Frames
    <3> QED BY <2>1, <2>2, <3>3
  <2>4. CASE cam.life = life BY <2>1, <2>4 DEF Frames
  <2> QED BY <2>1, <2>2, <2>3, <2>4
<1>2. /\ born' = Append(born, life)
      /\ cam.final => Reopens
      /\ UNCHANGED <<mode, life, lost, abandoned, completed, run, fin>>
  BY DEF SubmitFrame
<1>3. PICK i \in Intake(n) :
         /\ Become(i.w)
         /\ packet' = IF i.detect THEN [frame |-> n, epoch |-> i.w.cam.epoch] ELSE packet
  BY DEF SubmitFrame
<1> DEFINE w == Adopted
<1>4. /\ WorldFits(w, G, Hold) /\ w.cam.life = life /\ ~w.cam.final
      /\ w.cam.source = IF explicit THEN life ELSE cam.source
      /\ \/ /\ w.cam.epoch = cam.epoch /\ Frames \subseteq G
            /\ Decided(World, w) /\ w.eps = eps /\ w.tracker = tracker /\ ~cam.final
         \/ w.cam.epoch = cam.epoch + 1 /\ Bare(w)
  <2> HIDE DEF G
  <2>1. (cam.life = life \/ born = <<>>) => Frames \subseteq G BY <1>1
  <2>2. cam.final => Reopens BY <1>2
  <2>3. /\ WorldFits(Adopted, G, Hold)
        /\ Adopted.cam.life = life /\ ~Adopted.cam.final
        /\ Adopted.cam.source = IF explicit THEN life ELSE cam.source
        /\ \/ /\ Adopted.cam.epoch = cam.epoch /\ Frames \subseteq G /\ ~Restarts
              /\ Decided(World, Adopted) /\ Adopted.eps = eps /\ Adopted.tracker = tracker
              /\ ~cam.final
           \/ /\ Adopted.cam.epoch = cam.epoch + 1 /\ Bare(Adopted)
              /\ Adopted.cam.phase = "idle"
    BY <2>1, <2>2, AdoptedFits
  <2> QED BY <2>3
<1>5. WorldFits(i.w, G, Hold) /\ Moves(w, i.w) /\ (Bare(w) => Bare(i.w))
  <2> HIDE DEF G
  <2> QED BY <1>1, <1>4, IntakeFits
<1> HIDE DEF w
<1>6. cam' = i.w.cam /\ eps' = i.w.eps /\ tracker' = i.w.tracker BY <1>3 DEF Become
<1>7. /\ cam'.life = life /\ ~cam'.final /\ cam'.epoch = w.cam.epoch
      /\ cam'.source = IF explicit THEN life ELSE cam.source
  BY <1>4, <1>5, <1>6 DEF Moves, SameCamera
<1>16. born \in Seq(Nat) /\ life \in Nat \ {0} BY <1>1
<1>8. Frames' = G
  <2>1. Len(Append(born, life)) = Len(born) + 1 BY <1>16
  <2>2. Frames' = {m \in 1 .. Len(born') : born'[m] = cam'.life} BY DEF Frames
  <2> QED BY <1>2, <1>7, <2>1, <2>2
<1>9. Hold' = Hold BY <1>2 DEF Hold, Waiting
<1> HIDE DEF G
<1>10. Modes' BY <1>1, <1>2, <1>7 DEF Modes, mode
<1>11. born' \in Seq(Nat) /\ life' \in Nat \ {0}
  <2>1. Append(born, life) \in Seq(Nat) BY <1>16
  <2> QED BY <1>2, <1>16, <2>1
<1>12. PacketFits(packet', cam'.epoch, Frames')
  <2>1. CASE i.detect
    <3>1. packet' = [frame |-> n, epoch |-> cam'.epoch] BY <1>3, <1>6, <2>1
    <3>2. cam'.epoch \in Nat /\ cam'.epoch <= cam'.epoch BY <1>4, <1>7, InvFacts
    <3> QED BY <1>1, <1>8, <3>1, <3>2 DEF PacketFits, Packets
  <2>2. CASE ~i.detect
    <3>1. packet' = packet BY <1>3, <2>2
    <3>2. PacketFits(packet, cam.epoch, Frames) BY DEF EngineInv
    <3> QED BY <1>4, <1>7, <1>8, <3>1, <3>2, InvFacts DEF PacketFits, Packets
  <2> QED BY <2>1, <2>2
<1>13. Finalizing'
  <2>1. CASE fin.at = "idle" BY <1>2, <2>1 DEF Finalizing
  <2>2. CASE fin.at # "idle"
    <3>1. run["central"].at = "idle" /\ (~cam.final => Bare(World)) BY <2>2, HoldsAll
    <3>2. Bare(w) BY <1>4, <3>1 DEF Bare, World
    <3> QED BY <1>2, <1>5, <1>6, <3>1, <3>2 DEF Finalizing, Bare
  <2> QED BY <2>1, <2>2
<1>14. EngineInv' /\ World' = i.w
  <2>1. i.w.cam.epoch = cam.epoch + 1 \/ (i.w.cam.epoch = cam.epoch /\ Frames \subseteq Frames')
    BY <1>4, <1>6, <1>7, <1>8
  <2>2. WorldFits(i.w, Frames', Hold') BY <1>5, <1>8, <1>9
  <2> QED BY <1>2, <1>3, <1>10, <1>11, <1>12, <1>13, <2>1, <2>2, NewLifeFits
<1>15. Decided(World, i.w) \/ DOMAIN i.w.eps = {}
  <2>1. CASE DOMAIN i.w.eps = {} BY <2>1
  <2>2. CASE Bare(w) BY <1>5, <2>2 DEF Bare
  <2>3. CASE Decided(World, w) /\ Decided(w, i.w) BY <2>3 DEF Decided
  <2> QED BY <1>4, <1>5, <2>1, <2>2, <2>3 DEF Moves
<1> QED BY <1>14, <1>15

LEMMA StreamRestartsFits ==
    ASSUME EngineInv, StreamRestarts
    PROVE  /\ EngineInv'
           /\ Decided(World, World') \/ DOMAIN World'.eps = {}
<1>1. /\ life \in Nat \ {0} /\ life' = life + 1 /\ born' = born /\ born \in Seq(Nat)
      /\ UNCHANGED <<mode, lost, packet, abandoned, completed, run, fin>>
  BY DEF StreamRestarts, EngineInv, Typed
<1>2. Hold' = Hold BY <1>1 DEF Hold, Waiting
<1>3. CASE explicit
  <2>1. UNCHANGED <<cam, eps, tracker, queue>> BY <1>3 DEF StreamRestarts
  <2>2. Frames' = Frames /\ Become(World) BY <1>1, <2>1 DEF Frames, Become, World
  <2>3. WorldFits(World, Frames', Hold') BY <1>2, <2>2 DEF EngineInv
  <2>4. Modes' BY <1>1, <1>3, <2>1 DEF Modes, EngineInv, mode
  <2>5. Finalizing' BY <1>1, <2>1 DEF Finalizing, EngineInv
  <2>6. PacketFits(packet', cam'.epoch, Frames') BY <1>1, <2>1, <2>2 DEF EngineInv
  <2>7. World.cam.epoch = cam.epoch BY InvFacts
  <2>8. EngineInv' /\ World' = World
    BY <1>1, <2>2, <2>3, <2>4, <2>5, <2>6, <2>7, NewLifeFits
  <2> QED BY <2>8, GoesNowhere DEF Goes
<1>4. CASE ~explicit
  <2> DEFINE r == Restarted(World)
             w == Woken(r)
             f == IF cam.phase = "active" THEN "active" ELSE "idle"
             c == [w.cam EXCEPT !.phase = f, !.source = 0, !.final = FALSE, !.complete = FALSE,
                                !.life = life + 1]
             v == [w EXCEPT !.cam = c]
  <2>1. Become([w EXCEPT !.cam.phase = IF cam.phase = "active" THEN "active" ELSE "idle",
                         !.cam.source = 0, !.cam.final = FALSE, !.cam.complete = FALSE,
                         !.cam.life = life + 1])
    BY <1>4 DEF StreamRestarts
  <2>2. WorldFits(r, Frames', Hold') /\ Bare(r) /\ r.cam.epoch = cam.epoch + 1
    <3>1. WorldFits(World, Frames, Hold) BY DEF EngineInv
    <3> QED BY <3>1, RestartedFits, InvFacts
  <2> HIDE DEF r
  <2>3. WorldFits(w, Frames', Hold') /\ Bare(w) /\ w.cam.epoch = cam.epoch + 1
    BY <2>2, WokenFits DEF Bare, Goes, SameCamera
  <2> HIDE DEF w
  <2>4. WorldTyped(w) /\ w.cam \in Cameras BY <2>3 DEF WorldFits, WorldTyped
  <2>5. Become(v)
    <3>1. v = [w EXCEPT !.cam.phase = f, !.cam.source = 0, !.cam.final = FALSE, !.cam.complete = FALSE,
                        !.cam.life = life + 1]
      <4> HIDE DEF f
      <4> QED BY <2>4 DEF WorldTyped, Cameras
    <3> HIDE DEF v
    <3> QED BY <2>1, <3>1
  <2>6. /\ c \in Cameras /\ c.epoch = w.cam.epoch /\ c.life = life + 1 /\ c.source = 0 /\ c.final = FALSE
    <3> DEFINE m == life + 1
    <3>1. f \in {"idle", "active", "done"} /\ m \in Nat BY <1>1
    <3> HIDE DEF f, m
    <3>2. c = [w.cam EXCEPT !.phase = f, !.source = 0, !.final = FALSE, !.complete = FALSE, !.life = m]
      BY DEF m
    <3> HIDE DEF c
    <3>3. c \in Cameras /\ c.life = m /\ c.source = 0 /\ c.final = FALSE
      BY <2>4, <3>1, <3>2 DEF Cameras
    <3>4. c.epoch = w.cam.epoch BY <2>4, <3>2 DEF Cameras
    <3> QED BY <3>3, <3>4 DEF m
  <2> HIDE DEF c
  <2>7. WorldFits(v, Frames', Hold') /\ v.cam = c /\ v.eps = w.eps /\ v.tracker = w.tracker
    BY <2>3, <2>6, CamFits
  <2> HIDE DEF v
  <2>8. cam' = c /\ eps' = w.eps /\ tracker' = w.tracker BY <2>5, <2>7 DEF Become
  <2>9. Modes' BY <1>1, <1>4, <2>6, <2>8 DEF Modes, mode
  <2>10. Finalizing' BY <1>1, <2>3, <2>8 DEF Finalizing, EngineInv, Bare
  <2>11. PacketFits(packet', cam'.epoch, Frames')
    BY <1>1, <2>3, <2>6, <2>8, InvFacts DEF EngineInv, PacketFits, Packets
  <2>12. v.cam.epoch = cam.epoch + 1 BY <2>3, <2>6, <2>7
  <2>13. life' \in Nat \ {0} BY <1>1
  <2>14. EngineInv' /\ World' = v
    BY <1>1, <2>5, <2>7, <2>9, <2>10, <2>11, <2>12, <2>13, NewLifeFits
  <2> QED BY <2>3, <2>7, <2>14 DEF Bare
<1> QED BY <1>3, <1>4

-----------------------------------------------------------------------------
(* The theorems                                                             *)

LEMMA EngineInit == Init => EngineInv
<1> SUFFICES ASSUME Init PROVE EngineInv OBVIOUS
<1>1. NoCamera \in Cameras /\ NoCamera.epoch = 0 /\ NoCamera.source = 0 /\ NoCamera.life = 1
  BY DEF NoCamera, Cameras
<1>2. WorldTyped(World) /\ World.eps = NoEpisode /\ World.queue = {}
  BY <1>1, NoEpisodeIsOne, NoTrackerIsOne DEF Init, World, WorldTyped
<1>3. \A H : WorldFits(World, Frames, H) BY <1>2, NoEpisodeIsOne DEF WorldFits, Backed
<1>4. Typed /\ RunsFit BY IdleRunFits, IdleFinFits DEF Init, Typed, RunsFit, Processor
<1>5. Loose = {} /\ fin.own = {} BY IdleRunFits DEF Init, Loose, Waiting, IdleFin
<1>6. PacketFits(packet, cam.epoch, Frames) /\ PacketFits(run["central"].frame, cam.epoch, Frames)
  BY IdleRunFits DEF Init, PacketFits, Processor
<1>7. Modes BY <1>1 DEF Init, Modes
<1>8. Finalizing BY IdleFinFits DEF Init, Finalizing
<1> QED BY <1>3, <1>4, <1>5, <1>6, <1>7, <1>8 DEF EngineInv

\* One step: the invariant, and what becomes of the episodes that are over.
LEMMA EngineStep ==
    ASSUME EngineInv, [Next]_vars
    PROVE  /\ EngineInv'
           /\ Decided(World, World') \/ DOMAIN World'.eps = {}
<1>1. CASE SubmitFrame BY <1>1, SubmitFrameFits
<1>2. CASE StreamRestarts BY <1>2, StreamRestartsFits
<1>3. CASE Evict BY <1>3, EvictFits DEF Goes
<1>4. CASE TakePacket BY <1>4, TakePacketFits, GoesNowhere DEF Goes
<1>5. CASE CommitDetection BY <1>5, CommitDetectionFits DEF Moves
<1>6. ASSUME NEW p \in Processor, Work(p)
      PROVE  EngineInv' /\ Decided(World, World')
  <2>1. CASE Pop(p) BY <2>1, PopFits DEF Goes
  <2>2. CASE Read(p) BY <2>2, ReadFits, GoesNowhere DEF Goes
  <2>3. CASE Reconcile(p) BY <2>3, ReconcileFits DEF Goes
  <2>4. CASE Apply(p) BY <2>4, ApplyFits DEF Goes
  <2> QED BY <1>6, <2>1, <2>2, <2>3, <2>4 DEF Work
<1>7. CASE FinLatch BY <1>7, FinLatchFits
<1>8. CASE Finalizer
  <2>1. CASE FinCancel BY <2>1, FinCancelFits DEF Goes
  <2>2. CASE FinCollect BY <2>2, FinCollectFits
  <2>3. CASE FinResult BY <2>3, FinResultFits DEF Goes
  <2>4. CASE FinRead BY <2>4, FinReadFits DEF Goes
  <2>5. CASE FinClose BY <2>5, FinCloseFits
  <2> QED BY <1>8, <2>1, <2>2, <2>3, <2>4, <2>5 DEF Finalizer
<1>9. CASE UNCHANGED vars
  <2>1. /\ UNCHANGED <<fusion, explicit, life, born, cam, eps, tracker>>
        /\ UNCHANGED <<packet, queue, abandoned, completed, run, fin, lost>>
    BY <1>9 DEF vars
  <2>2. World' = World /\ Frames' = Frames /\ Loose' = Loose /\ Hold' = Hold
    BY <2>1 DEF World, Frames, Loose, Hold, Waiting
  <2>3. Typed' /\ RunsFit' /\ Modes' /\ Finalizing'
    BY <2>1 DEF EngineInv, Typed, RunsFit, Modes, Finalizing
  <2>4. EngineInv' BY <2>1, <2>2, <2>3 DEF EngineInv
  <2> QED BY <2>2, <2>4, GoesNowhere DEF Goes
<1> QED BY <1>1, <1>2, <1>3, <1>4, <1>5, <1>6, <1>7, <1>8, <1>9 DEF Next

(* The types of the camera, of its episodes and tasks, of the readers and of
   the finalizer, and the relations between them that every step keeps. *)
THEOREM EngineInvariant == Spec => []EngineInv
<1>1. EngineInv /\ [Next]_vars => EngineInv' BY EngineStep
<1> QED BY EngineInit, <1>1, PTL DEF Spec

(* No track is stuck: whatever tasks expire, are put out or fail, however often
   the stream starts over, an episode that waits for a reading is waited for by
   a task in the queue, at a reader or among the abandoned ones, or by a
   finalizer - unless its task was in the hands of the central thread when a
   callback raised there.  No other step forgets a task. *)
THEOREM NoTrackIsStuck == Spec => []SubmittedIsBacked
<1>1. EngineInv => SubmittedIsBacked
  <2> SUFFICES ASSUME EngineInv, NEW t \in DOMAIN eps, eps[t].submitted
                 PROVE  Held(eps[t].key) \/ eps[t].key \in lost
    BY DEF SubmittedIsBacked
  <2>1. CASE fin.at # "idle" BY <2>1 DEF Held
  <2>2. CASE fin.at = "idle"
    <3>1. \/ \E k \in Waiting : k.key = eps[t].key
          \/ \E q \in queue : q.key = eps[t].key
          \/ eps[t].key \in lost
      BY <2>2, InvFacts DEF EngineInv, WorldFits, Backed, Hold
    <3> QED BY <3>1 DEF Waiting, Hands, Held
  <2> QED BY <2>1, <2>2
<1> QED BY <1>1, EngineInvariant, PTL

(* Detections and readings that come late touch no episode of a new lifecycle:
   its crops and applied readings are of frames of its own. *)
THEOREM EvidenceKeepsItsLife == Spec => []EvidenceOfItsLife
<1>1. EngineInv => EvidenceOfItsLife
  BY InvFacts DEF EvidenceOfItsLife, EpisodeFits, Frames
<1> QED BY <1>1, EngineInvariant, PTL

(* A passage is decided once, whoever applies the last reading: an episode that
   is over stays over, and reports nothing more. *)
THEOREM PassagesAreDecidedOnce == Spec => DecidedOnce
<1>1. EngineInv /\ [Next]_vars =>
        [\A t \in DOMAIN eps \cap DOMAIN eps' :
           eps[t].done /\ eps'[t].first = eps[t].first
           => eps'[t].done /\ eps'[t].emitted = eps[t].emitted]_vars
  <2> SUFFICES ASSUME EngineInv, [Next]_vars, NEW t \in DOMAIN eps \cap DOMAIN eps', eps[t].done
               PROVE  eps'[t].done /\ eps'[t].emitted = eps[t].emitted
    OBVIOUS
  <2>1. Decided(World, World') \/ DOMAIN World'.eps = {} BY EngineStep
  <2>2. World.eps = eps /\ World'.eps = eps' BY DEF World
  <2> QED BY <2>1, <2>2 DEF Decided
<1> QED BY <1>1, EngineInvariant, PTL DEF Spec, DecidedOnce
=============================================================================
