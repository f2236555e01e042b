------------------------------ MODULE VideoPass ------------------------------
(***************************************************************************)
(* An uploaded video on its way through the stream manager (src/app/        *)
(* streams.py), the single-use CameraStream objects it makes, and the live  *)
(* worker's scheduler.  A video is to be submitted to recognition once: a   *)
(* durable mark of its camera row says that the pass was started, another   *)
(* that it is complete.                                                     *)
(*                                                                         *)
(* Each stream has a decoder thread (_run, _complete_video_anpr_pass) and a *)
(* submitter thread (_anpr_loop) with a one-frame slot between them.        *)
(* Requests (the live view, start_enabled_cameras, the upload itself) read  *)
(* the row and then wait for the manager's lock; the manager stops, removes *)
(* and creates streams with that lock in hand.  Whether a request finds the *)
(* stream's display settings changed, and whether a wait times out, are     *)
(* choices.                                                                 *)
(***************************************************************************)
EXTENDS LiveScheduler

CONSTANTS Requests,      \* threads that call manager.get
          Upload,        \* the one of them that inserted the row
          MaxStreams,    \* bound: CameraStream objects that start
          MaxCrashes     \* bound: process crashes

ASSUME VideoAssumption ==
    /\ Upload \in Requests /\ Requests \cap {"idle", "remove"} = {}
    /\ MaxStreams \in Nat /\ MaxCrashes \in Nat

VARIABLES
    mark,      \* video_anpr_started, video_anpr_completed of the row  (durable)
    requests,  \* which have read the row, and whether it was marked then
    manager,   \* who has StreamManager.lock to stop a stream, "idle" if nobody
    managed,   \* manager.streams.get(camera_id), 0 if there is none
    stream,    \* the fields of each CameraStream
    opened,    \* CameraStream objects started so far
    decoded,   \* history: the stream that queued each frame, 0 if none yet
    replaced,  \* history: frames a newer one replaced in the slot
    lives,     \* history: the life of the process each stream belongs to
    failures,  \* steps of the streams that failed
    crashes

videoVars == <<mark, requests, manager, managed, stream, opened, decoded, replaced, lives,
               failures, crashes>>
vars == <<schedulerVars, videoVars>>

Streams == 1..MaxStreams

\* A token of begin_video_pass, and an object of class CameraStream: where its
\* decoder stands, whether its submitter runs, the frame between the two, the
\* abort latch (stop_event, _anpr_aborted), and _anpr_submit_error.
Token == [generation: Nat, processed: Nat, errors: Nat, refused: Nat]
CameraStream ==
    [decoder: {"off", "open", "marked", "pass", "handoff", "drain", "claim", "shown", "dead"},
     submits: BOOLEAN, slot: 0..MaxFrames, stopping: BOOLEAN, failed: BOOLEAN, token: Token]

NoToken == [generation |-> 0, processed |-> 0, errors |-> 0, refused |-> 0]
Unused  == [decoder |-> "off", submits |-> FALSE, slot |-> 0, stopping |-> FALSE,
            failed |-> FALSE, token |-> NoToken]

\* CameraStream(...) and start(), with the marks its creator read.  What was
\* started before is only shown (_video_anpr_preview_only).
Opened(started) == [Unused EXCEPT !.decoder = IF started THEN "shown" ELSE "open",
                                   !.submits = TRUE]

\* An object whose threads are dead and which nobody can start again.
Gone == [Unused EXCEPT !.decoder = "dead"]

\* The submitter thread of x is inside submit_live_frame.
Submitting(x) == submitter.pc # "idle" /\ decoded[submitter.frame] = x

\* The thread with the condition variable of x in hand waits for the worker.
Held(x) == stream[x].decoder = "marked"

\* The next frame the file gives.
NextFrame(f) == f \in Frames /\ decoded[f] = 0 /\ \A g \in Frames : g < f => decoded[g] # 0

\* The bound on failing steps, of the worker and of the streams together.
MayFail == faults + failures < MaxFaults
Bounded == faults' + failures <= MaxFaults

\* A step of the worker alone.
OnWorker == UNCHANGED videoVars /\ Bounded

VideoInit ==
    /\ Init
    /\ mark = "none"
    /\ requests = [r \in Requests |-> [reading |-> r = Upload, started |-> FALSE]]
    /\ manager = "idle" /\ managed = 0
    /\ stream = [x \in Streams |-> Unused] /\ opened = 0
    /\ decoded = [f \in Frames |-> 0] /\ replaced = {}
    /\ lives = [x \in Streams |-> 0] /\ failures = 0 /\ crashes = 0
------------------------------------------------------------------------------
\* A request reads the camera's row.
Read(r) ==
    /\ ~requests[r].reading
    /\ requests' = [requests EXCEPT ![r] = [reading |-> TRUE, started |-> mark # "none"]]
    /\ UNCHANGED <<mark, manager, managed, stream, opened, decoded, replaced, lives, failures, crashes>>
    /\ UNCHANGED schedulerVars

\* streams.pop.
Drop(old) ==
    /\ managed' = 0
    /\ stream' = [x \in Streams |-> IF x = old THEN Gone ELSE stream[x]]
    /\ UNCHANGED <<opened, lives>>

\* A new stream with the marks that were read, in the place of old; a start that
\* is refused, as the video cannot be pinned, leaves none.  A thread that the
\* operating system does not start is left out: its stream would stay.
Create(started, old) ==
    \/ /\ opened < MaxStreams
       /\ opened' = opened + 1 /\ managed' = opened + 1
       /\ stream' = [x \in Streams |-> IF x = opened + 1 THEN Opened(started)
                                       ELSE IF x = old THEN Gone ELSE stream[x]]
       /\ lives' = [lives EXCEPT ![opened + 1] = crashes]
    \/ Drop(old)

Answered(r) == requests' = [requests EXCEPT ![r] = [reading |-> FALSE, started |-> FALSE]]

\* _request_stop, for who has the manager's lock: the abort is latched and the
\* slot emptied, both under the stream's condition variable.  Nobody but the
\* next caller can tell this step from the taking of the manager's lock.
RequestStop(who) ==
    /\ managed # 0 /\ ~Held(managed)
    /\ manager' = who
    /\ stream' = [stream EXCEPT ![managed].stopping = TRUE, ![managed].slot = 0]
    /\ UNCHANGED <<requests, managed, opened, lives>>

\* manager.get: the stream there is, a new one, or first an end to the old one
\* because it is stopping or its settings differ.
Get(r) ==
    /\ requests[r].reading /\ manager = "idle"
    /\ \/ /\ managed # 0 /\ ~stream[managed].stopping
          /\ Answered(r) /\ UNCHANGED <<manager, managed, stream, opened, lives>>
       \/ /\ managed = 0 /\ Create(requests[r].started, 0)
          /\ Answered(r) /\ UNCHANGED manager
       \/ RequestStop(r)
    /\ UNCHANGED <<mark, decoded, replaced, failures, crashes>> /\ UNCHANGED schedulerVars

\* manager.remove and manager.stop_all: a change of the settings, an edited or
\* a deleted camera.
Remove ==
    /\ manager = "idle" /\ RequestStop("remove")
    /\ UNCHANGED <<mark, decoded, replaced, failures, crashes>> /\ UNCHANGED schedulerVars

\* Mutant: the stream that could not be stopped in time is forgotten.
GivesUpForgetting ==
    /\ manager' = "idle" /\ managed' = 0
    /\ IF manager \in Requests THEN Answered(manager) ELSE UNCHANGED requests
    /\ UNCHANGED <<mark, stream, opened, decoded, replaced, lives, failures, crashes>>

\* The manager gives up: what asked for the stop fails, the stream stays.
GivesUp ==
    /\ manager' = "idle"
    /\ IF manager \in Requests THEN Answered(manager) ELSE UNCHANGED requests
    /\ UNCHANGED <<mark, managed, stream, opened, decoded, replaced, lives, failures, crashes>>

\* The stream is stopped: it is dropped, and replaced if a get asked for that.
Stopped ==
    /\ manager' = "idle"
    /\ IF manager \in Requests
       THEN Create(requests[manager].started, managed) /\ Answered(manager)
       ELSE Drop(managed) /\ UNCHANGED requests
    /\ UNCHANGED <<mark, decoded, replaced, failures, crashes>>

\* Mutant: only the decoder is joined.
DeadDecoder(x) == stream[x].decoder = "dead"

\* _finish_stop: both threads are joined, or the time-out passes.
Dead(x) == stream[x].decoder = "dead" /\ ~stream[x].submits

JoinTimesOut ==
    /\ manager # "idle" /\ ~Dead(managed)
    /\ GivesUp /\ UNCHANGED schedulerVars

\* stop_live_camera: the worker forgets the camera.  A queue that is not flushed
\* in time is kept as a detached one, and the stop counts as timed out.
WorkerStops ==
    /\ manager # "idle" /\ Dead(managed)
    /\ \/ /\ remover.pc = "idle" /\ Free /\ current = 0
          /\ Stopped /\ UNCHANGED schedulerVars
       \/ RemovePop /\ UNCHANGED videoVars
       \/ RemoveRetires /\ UNCHANGED videoVars
       \/ RemoveEnds(TRUE) /\ Stopped
       \/ RemoveEnds(FALSE) /\ GivesUp
------------------------------------------------------------------------------
At(x, pc) == stream[x].decoder = pc
GoesTo(x, pc) == stream' = [stream EXCEPT ![x].decoder = pc]

\* The pass is over without completion: from now on the file is only shown.
Interrupt(x) == stream' = [stream EXCEPT ![x].decoder = "shown", ![x].token = NoToken]

onlyStream == <<requests, manager, managed, opened, lives, crashes>>

\* Mutant: the mark is kept in memory only.
MarkInMemory(x) ==
    /\ At(x, "open") /\ ~stream[x].stopping
    /\ GoesTo(x, "marked")
    /\ UNCHANGED <<mark, onlyStream, failures, decoded, replaced>> /\ UNCHANGED schedulerVars

\* _queue_anpr of the first frame: the durable mark, then the pass token, both
\* with the condition variable in hand.
MarkStarted(x) ==
    /\ At(x, "open") /\ ~stream[x].stopping
    /\ mark' = IF mark = "completed" THEN mark ELSE "started"
    /\ GoesTo(x, "marked")
    /\ UNCHANGED <<onlyStream, failures, decoded, replaced>> /\ UNCHANGED schedulerVars

\* The mark cannot be written, or the worker gives no token: the file is only
\* shown, whether the row says started or not.
MarkFails(x) ==
    /\ (At(x, "open") /\ ~stream[x].stopping) \/ At(x, "marked")
    /\ MayFail /\ failures' = failures + 1
    /\ Interrupt(x)
    /\ UNCHANGED <<mark, onlyStream, decoded, replaced>> /\ UNCHANGED schedulerVars

\* begin_video_pass, and the first frame is in the slot.
BeginPass(x) ==
    /\ At(x, "marked") /\ Free
    /\ \E f \in Frames :
         /\ NextFrame(f)
         /\ decoded' = [decoded EXCEPT ![f] = x]
         /\ stream' = [stream EXCEPT ![x].decoder = "pass", ![x].slot = f,
              ![x].token =
                [generation |-> generation,
                 processed |-> IF current = 0 THEN 0 ELSE cam[current].processed,
                 errors    |-> IF current = 0 THEN 0 ELSE cam[current].errors,
                 refused   |-> IF current = 0 THEN 0 ELSE cam[current].refused]]
    /\ UNCHANGED <<mark, onlyStream, failures, replaced>> /\ UNCHANGED schedulerVars

\* The next frames; only the newest waits in the slot.
Queue(x) ==
    /\ At(x, "pass") /\ ~stream[x].stopping
    /\ \E f \in Frames :
         /\ NextFrame(f)
         /\ decoded' = [decoded EXCEPT ![f] = x]
         /\ stream' = [stream EXCEPT ![x].slot = f]
    /\ replaced' = replaced \cup ({stream[x].slot} \ {0})
    /\ UNCHANGED <<mark, onlyStream, failures>> /\ UNCHANGED schedulerVars

\* Decoding raises in mid-pass: the file is opened again, to be shown.
DecodeFails(x) ==
    /\ At(x, "pass")
    /\ MayFail /\ failures' = failures + 1
    /\ Interrupt(x)
    /\ UNCHANGED <<mark, onlyStream, decoded, replaced>> /\ UNCHANGED schedulerVars

\* End of the file.
EndOfFile(x) ==
    /\ At(x, "pass") /\ ~stream[x].stopping
    /\ GoesTo(x, "handoff")
    /\ UNCHANGED <<mark, onlyStream, failures, decoded, replaced>> /\ UNCHANGED schedulerVars

\* _wait_for_anpr_handoff: the slot is empty and the submitter idle.
HandedOff(x) ==
    /\ At(x, "handoff") /\ ~stream[x].stopping
    /\ stream[x].slot = 0 /\ ~Submitting(x)
    /\ GoesTo(x, "drain")
    /\ UNCHANGED <<mark, onlyStream, failures, decoded, replaced>> /\ UNCHANGED schedulerVars

\* An abort or a time-out, in the hand-off or in drain_video_pass, whose other
\* refusals have the same effect.
PassFails(x) ==
    /\ \/ At(x, "handoff") /\ (stream[x].stopping \/ stream[x].slot # 0 \/ Submitting(x))
       \/ At(x, "drain")
    /\ Interrupt(x)
    /\ UNCHANGED <<mark, onlyStream, failures, decoded, replaced>> /\ UNCHANGED schedulerVars

\* drain_video_pass promotes the frame that waits ...
DrainPromotes(x) ==
    /\ At(x, "drain")
    /\ Promote(stream[x].token.generation) \/ PromoteFails(stream[x].token.generation)
    /\ OnWorker

\* Mutant: a pass may end with another detector than it began with.
PassCompleteAcross(t) ==
    /\ Free /\ current # 0
    /\ LET c == cam[current] IN
       /\ ~c.busy /\ c.pending = 0 /\ ~c.owes
       /\ c.refused <= t.refused /\ c.errors <= t.errors /\ c.processed > t.processed

\* ... and finds the pass complete: the worker is idle, owes nothing, and has
\* processed a frame, without an error or a refusal, since the pass began.
PassComplete(t) ==
    /\ Free /\ generation = t.generation /\ current # 0
    /\ LET c == cam[current] IN
       /\ ~c.busy /\ c.pending = 0 /\ ~c.owes
       /\ c.refused <= t.refused /\ c.errors <= t.errors /\ c.processed > t.processed

Drained(x) ==
    /\ At(x, "drain") /\ PassComplete(stream[x].token) /\ ~stream[x].failed
    /\ GoesTo(x, "claim")
    /\ UNCHANGED <<mark, onlyStream, failures, decoded, replaced>> /\ UNCHANGED schedulerVars

\* The completion claim, unless stop was first.
Complete(x) ==
    /\ At(x, "claim") /\ ~stream[x].stopping
    /\ mark' = "completed"
    /\ Interrupt(x)
    /\ UNCHANGED <<onlyStream, failures, decoded, replaced>> /\ UNCHANGED schedulerVars

ClaimLost(x) ==
    /\ At(x, "claim")
    /\ \/ stream[x].stopping /\ UNCHANGED failures
       \/ MayFail /\ failures' = failures + 1
    /\ Interrupt(x)
    /\ UNCHANGED <<mark, onlyStream, decoded, replaced>> /\ UNCHANGED schedulerVars

DecoderExits(x) ==
    /\ stream[x].stopping /\ stream[x].decoder \in {"open", "pass", "shown"}
    /\ GoesTo(x, "dead")
    /\ UNCHANGED <<mark, onlyStream, failures, decoded, replaced>> /\ UNCHANGED schedulerVars
------------------------------------------------------------------------------
\* _anpr_loop takes the frame out of the slot and calls submit_live_frame.
TakeFrame(x) ==
    /\ stream[x].submits /\ stream[x].slot # 0 /\ ~Held(x)
    /\ Call(stream[x].slot)
    /\ stream' = [stream EXCEPT ![x].slot = 0]
    /\ UNCHANGED <<mark, onlyStream, failures, decoded, replaced>>

\* An exception of submit is kept for the end of the pass.
SubmitRaises(x) ==
    /\ Submitting(x) /\ EnqueueFails
    /\ stream' = [stream EXCEPT ![x].failed = TRUE]
    /\ UNCHANGED <<mark, onlyStream, failures, decoded, replaced>> /\ Bounded

SubmitterExits(x) ==
    /\ stream[x].submits /\ stream[x].stopping /\ ~Submitting(x)
    /\ stream' = [stream EXCEPT ![x].submits = FALSE]
    /\ UNCHANGED <<mark, onlyStream, failures, decoded, replaced>> /\ UNCHANGED schedulerVars

\* The process dies; only the row survives.
Crash ==
    /\ crashes < MaxCrashes /\ crashes' = crashes + 1
    /\ Restart
    /\ requests' = [r \in Requests |-> [reading |-> FALSE, started |-> FALSE]]
    /\ manager' = "idle" /\ managed' = 0
    /\ stream' = [x \in Streams |-> IF x <= opened THEN Gone ELSE Unused]
    /\ UNCHANGED <<mark, opened, decoded, replaced, lives, failures>>

Decoding(x) ==
    \/ MarkStarted(x) \/ MarkFails(x) \/ BeginPass(x) \/ Queue(x) \/ DecodeFails(x) \/ EndOfFile(x)
    \/ HandedOff(x) \/ PassFails(x) \/ DrainPromotes(x) \/ Drained(x)
    \/ Complete(x) \/ ClaimLost(x) \/ DecoderExits(x)

VideoNext ==
    \/ \E r \in Requests : Read(r) \/ Get(r)
    \/ Remove \/ JoinTimesOut \/ WorkerStops
    \/ \E x \in Streams : Decoding(x) \/ TakeFrame(x) \/ SubmitRaises(x) \/ SubmitterExits(x)
    \/ Submission /\ OnWorker
    \/ (Switching \/ Disable) /\ OnWorker
    \/ \E j \in jobs : Future(j) /\ OnWorker
    \/ \E s \in States : Settle(s) /\ OnWorker
    \/ Crash

VideoSpec == VideoInit /\ [][VideoNext]_vars
------------------------------------------------------------------------------
\* Types.
VideoTypeOK ==
    /\ SchedulerTypeOK
    /\ mark \in {"none", "started", "completed"}
    /\ requests \in [Requests -> [reading: BOOLEAN, started: BOOLEAN]]
    /\ manager \in Requests \cup {"idle", "remove"}
    /\ managed \in 0..opened /\ opened \in 0..MaxStreams
    /\ stream \in [Streams -> CameraStream]
    /\ decoded \in [Frames -> 0..opened]
    /\ replaced \subseteq Frames
    /\ lives \in [Streams -> 0..MaxCrashes] /\ crashes \in 0..MaxCrashes
    /\ failures \in 0..MaxFaults

Alive(x) == stream[x].decoder \notin {"off", "dead"} \/ stream[x].submits

\* A camera has one stream with live threads at most, whatever stops time out,
\* and it is the one the manager knows ("replacement refused", get).
SingleStream == \A x \in Streams : Alive(x) => x = managed

\* Once a stream is gone, nothing it submitted can reach the database any more
\* but through the retry queue: no frame of it waits, and a future that is still
\* at work on one belongs to a retired state.
StoppedIsQuiet ==
    \A f \in Frames : decoded[f] # 0 /\ decoded[f] # managed =>
       /\ submitter.frame # f
       /\ \A s \in States : cam[s].pending # f
       /\ \A j \in jobs : j.frame = f => cam[j.state].retired /\ j.pc # "committing"

\* Readings are committed in the order of the frames, through coalescing, the
\* promotion at the end of the file, removal and re-creation of the camera.
FramesInOrder ==
    [][\A f, g \in Frames :
         f < g /\ fate[g] = "committed" => (fate'[f] = "committed" => fate[f] = "committed")]_vars

Whole(x) ==
    LET frames == {f \in Frames : decoded[f] = x} IN
    /\ \E f \in frames : fate[f] = "committed"
    /\ \A f, g \in frames : fate[f] = "committed" /\ fate[g] = "committed" => born[f] = born[g]
    /\ \A f \in frames : fate[f] \in {"committed", "coalesced", "skipped"} \/ f \in replaced

\* A video marked completed had a whole pass: all its frames were processed or
\* gave way to a newer one, by one detector, or were left out because the camera
\* had been disabled; none failed, was refused, or got lost in a stop ("must
\* never mistake a stop-induced empty queue for a successfully drained video
\* pass", _request_stop).
CompletedIsWhole == mark = "completed" => \E x \in Streams : Whole(x)

\* After a crash the video is not submitted again if any frame of it was before
\* ("a future process treat[s] this run as interrupted and preview-only").
RestartNeverResubmits ==
    \A f, g \in Frames :
       decoded[f] # 0 /\ decoded[g] # 0 => lives[decoded[f]] = lives[decoded[g]]
=============================================================================
