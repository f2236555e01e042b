---------------------------- MODULE LiveScheduler ----------------------------
(***************************************************************************)
(* How LiveANPRWorker (src/app/ai/live_worker.py) runs the inference of one *)
(* camera: submit, the executor's futures (_process), the promotion of a    *)
(* waiting frame by drain_video_pass, the detector switch                   *)
(* (invalidate_model_cache), and remove.                                    *)
(*                                                                         *)
(* A frame is its number, in the order of decoding; a _CameraState is the   *)
(* number of its creation.  worker._lock is a variable only while its       *)
(* holder waits for the camera's model_switch_lock; a holder that does not  *)
(* wait does one step.  Scores, intervals and the contents of frames are    *)
(* choices.  RetryOutbox models what `owes' stands for: the readings of a   *)
(* state that wait in its persistence_retry.                                *)
(***************************************************************************)
EXTENDS Naturals

CONSTANTS MaxFrames,       \* bound: frames ever handed to submit
          MaxStates,       \* bound: _CameraState objects ever made
          MaxGeneration,   \* bound: detector switches of one worker
          MaxFaults        \* bound: steps that fail, frames refused

ASSUME SchedulerAssumption ==
    MaxFrames \in Nat /\ MaxStates \in Nat /\ MaxGeneration \in Nat /\ MaxFaults \in Nat

VARIABLES
    lock,        \* who waits with worker._lock in hand: "free", "submit", "switch"
    made,        \* _CameraState objects made so far
    current,     \* _states.get(camera_id), 0 if there is none
    cam,         \* the fields of each _CameraState
    jobs,        \* futures of the executor: their state, frame and position
    submitter,   \* the thread inside submit
    remover,     \* the thread inside remove
    generation,  \* _detector_generation
    disabled,    \* the camera's row was disabled once; a cached one may still say so
    born,        \* payload[6] of each frame: the generation it was submitted in
    fate,        \* history: what became of each frame
    faults

schedulerVars == <<lock, made, current, cam, jobs, submitter, remover,
                   generation, disabled, born, fate, faults>>

Frames == 1..MaxFrames
States == 1..MaxStates

Fresh == [retired |-> FALSE, busy |-> FALSE, pending |-> 0, votes |-> {},
          owes |-> FALSE, processed |-> 0, errors |-> 0, refused |-> 0]
Camera == [retired: BOOLEAN, busy: BOOLEAN, pending: 0..MaxFrames,
           votes: SUBSET Nat,       \* generations of the frames in the tracker
           owes: BOOLEAN,           \* persistence_retry is not empty
           processed: Nat,          \* processed_frames
           errors: Nat,             \* processing_errors - persistence_errors
           refused: Nat]            \* persistence_backpressure_frames
Job == [state: States, frame: Frames,
        pc: {"queued", "inferring", "committing", "ending"}]
Submitter == [pc: {"idle", "call", "inside", "enqueue"},
              frame: 0..MaxFrames, state: 0..MaxStates]
Remover == [pc: {"idle", "popped", "retired"}, state: 0..MaxStates]
Fate == {"none", "inhand", "coalesced", "skipped", "lost", "committed"}
NoSubmit == [pc |-> "idle", frame |-> 0, state |-> 0]
NoRemove == [pc |-> "idle", state |-> 0]

Free == lock = "free"

\* Mutant: the future keeps its model_switch_lock to the end.
CommittingToTheEnd(s) == \E j \in jobs : j.state = s /\ j.pc \in {"committing", "ending"}

\* The model_switch_lock of s is held by the future that commits its results.
Committing(s) == \E j \in jobs : j.state = s /\ j.pc = "committing"

\* The frame that waits in s, as a set.
Waiting(s) == {cam[s].pending} \ {0}

\* History: the frames of F end as v, unless something became of them before.
Becomes(F, v) == [f \in Frames |-> IF f \in F THEN v ELSE fate[f]]

Init ==
    /\ lock = "free" /\ made = 0 /\ current = 0
    /\ cam = [s \in States |-> Fresh]
    /\ jobs = {} /\ submitter = NoSubmit /\ remover = NoRemove
    /\ generation = 0 /\ disabled = FALSE
    /\ born = [f \in Frames |-> 0]
    /\ fate = [f \in Frames |-> "none"]
    /\ faults = 0
------------------------------------------------------------------------------
\* submit is called with frame f, which is newer than every frame before.
Call(f) ==
    /\ submitter.pc = "idle"
    /\ \A g \in Frames : g >= f => fate[g] = "none"
    /\ submitter' = [pc |-> "call", frame |-> f, state |-> 0]
    /\ fate' = Becomes({f}, "inhand")
    /\ UNCHANGED <<lock, made, current, cam, jobs, remover, generation, born, faults, disabled>>

\* submit takes the worker's lock and finds or makes the camera's state.
SubmitEnters ==
    /\ submitter.pc = "call" /\ Free
    /\ lock' = "submit"
    /\ IF current = 0
       THEN /\ made < MaxStates
            /\ made' = made + 1 /\ current' = made + 1
            /\ cam' = [cam EXCEPT ![made + 1] = Fresh]
       ELSE UNCHANGED <<made, current, cam>>
    /\ submitter' = [submitter EXCEPT !.pc = "inside", !.state = current']
    /\ born' = [born EXCEPT ![submitter.frame] = generation]
    /\ UNCHANGED <<jobs, remover, generation, fate, faults, disabled>>

\* Inside the lock submit needs the model_switch_lock too, to count the retry
\* entries of the camera.  Everything below happens once it has had it.
Inside == submitter.pc = "inside" /\ ~Committing(submitter.state)

Leaves == lock' = "free" /\ submitter' = NoSubmit

\* Back-pressure: the frame is refused, and so is the one that waits.
Refuse ==
    /\ Inside /\ faults < MaxFaults
    /\ LET s == submitter.state IN
       /\ cam' = [cam EXCEPT ![s].pending = 0, ![s].refused = @ + 1]
       /\ fate' = Becomes({submitter.frame} \cup Waiting(s), "lost")
    /\ Leaves /\ faults' = faults + 1
    /\ UNCHANGED <<made, current, jobs, remover, generation, born, disabled>>

\* The camera's configuration cannot be read.
ConfigFails ==
    /\ submitter.pc = "inside" /\ faults < MaxFaults
    /\ cam' = [cam EXCEPT ![submitter.state].errors = @ + 1]
    /\ fate' = Becomes({submitter.frame}, "lost")
    /\ Leaves /\ faults' = faults + 1
    /\ UNCHANGED <<made, current, jobs, remover, generation, born, disabled>>

\* The configuration, which is read every five seconds, says that the camera is
\* disabled: the frame is left out, and no counter tells.
Skip ==
    /\ submitter.pc = "inside" /\ disabled
    /\ fate' = Becomes({submitter.frame}, "skipped")
    /\ Leaves
    /\ UNCHANGED <<made, current, cam, jobs, remover, generation, born, faults, disabled>>

\* The camera has its future, or its interval has not passed: one of the new
\* frame and the waiting one waits, the other is coalesced.
Hold ==
    /\ Inside
    /\ LET s == submitter.state
           both == {submitter.frame} \cup Waiting(s)
       IN \E f \in both :
          /\ cam' = [cam EXCEPT ![s].pending = f]
          /\ fate' = [g \in Frames |-> IF g = f THEN "inhand"
                                       ELSE IF g \in both THEN "coalesced" ELSE fate[g]]
    /\ Leaves
    /\ UNCHANGED <<made, current, jobs, remover, generation, born, faults, disabled>>

\* One of the new frame and the waiting one gets the future; busy says so
\* before the lock is released.
Schedule ==
    /\ Inside /\ ~cam[submitter.state].busy
    /\ LET s == submitter.state
           both == {submitter.frame} \cup Waiting(s)
       IN \E f \in both :
          /\ cam' = [cam EXCEPT ![s].pending = 0, ![s].busy = TRUE]
          /\ fate' = [g \in Frames |-> IF g = f THEN "inhand"
                                       ELSE IF g \in both THEN "coalesced" ELSE fate[g]]
          /\ submitter' = [submitter EXCEPT !.pc = "enqueue", !.frame = f]
    /\ lock' = "free"
    /\ UNCHANGED <<made, current, jobs, remover, generation, born, faults, disabled>>

\* executor.submit, outside the lock.
Enqueue ==
    /\ submitter.pc = "enqueue"
    /\ jobs' = jobs \cup {[state |-> submitter.state, frame |-> submitter.frame,
                           pc |-> "queued"]}
    /\ submitter' = NoSubmit
    /\ UNCHANGED <<lock, made, current, cam, remover, generation, born, fate, faults, disabled>>

\* executor.submit raises; submit takes busy back and raises too.
EnqueueFails ==
    /\ submitter.pc = "enqueue" /\ Free /\ faults < MaxFaults
    /\ cam' = [cam EXCEPT ![submitter.state].busy = FALSE, ![submitter.state].errors = @ + 1]
    /\ fate' = Becomes({submitter.frame}, "lost")
    /\ submitter' = NoSubmit /\ faults' = faults + 1
    /\ UNCHANGED <<lock, made, current, jobs, remover, generation, born, disabled>>
------------------------------------------------------------------------------
Moves(j, k) == jobs' = (jobs \ {j}) \cup {k}

\* _claim_latest_payload: a queued future takes the newest frame of the current
\* generation there is; if both are obsolete it keeps its own.
Chosen(f, p) ==
    IF p # 0 /\ born[p] = generation /\ (born[f] # generation \/ p >= f) THEN p ELSE f

Claim(j) ==
    /\ j \in jobs /\ j.pc = "queued" /\ Free
    /\ LET p == cam[j.state].pending
           f == Chosen(j.frame, p)
       IN /\ cam' = [cam EXCEPT ![j.state].pending = 0]
          /\ Moves(j, [j EXCEPT !.frame = f, !.pc = "inferring"])
          /\ fate' = [g \in Frames |->
                        IF g = f THEN "inhand"
                        ELSE IF g \in {j.frame, p} THEN "coalesced" ELSE fate[g]]
    /\ UNCHANGED <<lock, made, current, submitter, remover, generation, born, faults, disabled>>

\* Mutant: the future does not ask whether its camera was removed meanwhile.
EnterCommitUnasked(j) ==
    /\ j \in jobs /\ j.pc = "inferring" /\ ~Committing(j.state)
    /\ IF born[j.frame] # generation
       THEN /\ Moves(j, [j EXCEPT !.pc = "ending"])
            /\ fate' = Becomes({j.frame}, "lost")
       ELSE Moves(j, [j EXCEPT !.pc = "committing"]) /\ UNCHANGED fate
    /\ UNCHANGED <<lock, made, current, cam, submitter, remover, generation, born, faults, disabled>>

\* Inference is over.  The future takes the model_switch_lock and goes on only
\* if its state and its detector are still those of the camera.
EnterCommit(j) ==
    /\ j \in jobs /\ j.pc = "inferring" /\ ~Committing(j.state)
    /\ IF cam[j.state].retired \/ born[j.frame] # generation
       THEN /\ Moves(j, [j EXCEPT !.pc = "ending"])
            /\ fate' = Becomes({j.frame}, "lost")
       ELSE Moves(j, [j EXCEPT !.pc = "committing"]) /\ UNCHANGED fate
    /\ UNCHANGED <<lock, made, current, cam, submitter, remover, generation, born, faults, disabled>>

\* The tracker, the counters and the writes to the database, all with the lock
\* in hand.  What cannot be written waits in persistence_retry.
Commit(j) ==
    /\ j \in jobs /\ j.pc = "committing"
    /\ \E owes \in BOOLEAN :
         /\ owes => faults < MaxFaults
         /\ faults' = IF owes THEN faults + 1 ELSE faults
         /\ cam' = [cam EXCEPT ![j.state].votes = @ \cup {born[j.frame]},
                               ![j.state].processed = @ + 1,
                               ![j.state].owes = owes]
    /\ Moves(j, [j EXCEPT !.pc = "ending"])
    /\ fate' = Becomes({j.frame}, "committed")
    /\ UNCHANGED <<lock, made, current, submitter, remover, generation, born, disabled>>

\* Inference raises: an error of the current generation is counted.
InferFails(j) ==
    /\ j \in jobs /\ j.pc = "inferring" /\ faults < MaxFaults
    /\ cam' = IF born[j.frame] = generation
              THEN [cam EXCEPT ![j.state].errors = @ + 1] ELSE cam
    /\ Moves(j, [j EXCEPT !.pc = "ending"])
    /\ fate' = Becomes({j.frame}, "lost") /\ faults' = faults + 1
    /\ UNCHANGED <<lock, made, current, submitter, remover, generation, born, disabled>>

\* The commit raises, before or after the frame is counted as processed.
CommitFails(j) ==
    /\ j \in jobs /\ j.pc = "committing" /\ faults < MaxFaults
    /\ \E n \in {0, 1} :
         cam' = [cam EXCEPT
                   ![j.state].processed = @ + n,
                   ![j.state].votes = IF n = 0 THEN @ ELSE @ \cup {born[j.frame]},
                   ![j.state].errors = IF born[j.frame] = generation THEN @ + 1 ELSE @]
    /\ Moves(j, [j EXCEPT !.pc = "ending"])
    /\ fate' = Becomes({j.frame}, "lost") /\ faults' = faults + 1
    /\ UNCHANGED <<lock, made, current, submitter, remover, generation, born, disabled>>

\* The future ends.  One of a retired state or of an old detector also drops
\* the frame that waits, whatever that frame's own generation is.
End(j) ==
    /\ j \in jobs /\ j.pc = "ending" /\ Free
    /\ jobs' = jobs \ {j}
    /\ IF cam[j.state].retired \/ born[j.frame] # generation
       THEN /\ cam' = [cam EXCEPT ![j.state].busy = FALSE, ![j.state].pending = 0]
            /\ fate' = Becomes(Waiting(j.state), "lost")
       ELSE cam' = [cam EXCEPT ![j.state].busy = FALSE] /\ UNCHANGED fate
    /\ UNCHANGED <<lock, made, current, submitter, remover, generation, born, faults, disabled>>

\* The queue of a state has been written, by the pump or by a flush.
Settle(s) ==
    /\ cam[s].owes /\ ~Committing(s)
    /\ cam' = [cam EXCEPT ![s].owes = FALSE]
    /\ UNCHANGED <<lock, made, current, jobs, submitter, remover, generation, born, fate, faults, disabled>>
------------------------------------------------------------------------------
\* Mutant: the waiting frame gets a future beside the one at work.
PromotableBeside(g) ==
    /\ Free /\ generation = g /\ current # 0
    /\ cam[current].pending # 0 /\ born[cam[current].pending] = g

\* drain_video_pass schedules the frame that waits, for a pass of generation g.
Promotable(g) ==
    /\ Free /\ generation = g /\ current # 0
    /\ ~cam[current].busy /\ cam[current].pending # 0
    /\ born[cam[current].pending] = g

Promote(g) ==
    /\ Promotable(g)
    /\ cam' = [cam EXCEPT ![current].pending = 0, ![current].busy = TRUE]
    /\ jobs' = jobs \cup {[state |-> current, frame |-> cam[current].pending, pc |-> "queued"]}
    /\ fate' = Becomes(Waiting(current), "inhand")
    /\ UNCHANGED <<lock, made, current, submitter, remover, generation, born, faults, disabled>>

PromoteFails(g) ==
    /\ Promotable(g) /\ faults < MaxFaults
    /\ cam' = [cam EXCEPT ![current].pending = 0, ![current].errors = @ + 1]
    /\ fate' = Becomes(Waiting(current), "lost") /\ faults' = faults + 1
    /\ UNCHANGED <<lock, made, current, jobs, submitter, remover, generation, born, disabled>>

\* invalidate_model_cache: first the worker's lock, then the lock of every state
\* in _states, then the setting and the generation.
SwitchEnters ==
    /\ Free /\ generation < MaxGeneration
    /\ lock' = "switch"
    /\ UNCHANGED <<made, current, cam, jobs, submitter, remover, generation, born, fate, faults, disabled>>

\* Mutant: the switch does not take the locks of the states.
BoundaryAtOnce == lock = "switch"

Boundary == lock = "switch" /\ (current # 0 => ~Committing(current))

Switch ==
    /\ Boundary
    /\ lock' = "free" /\ generation' = generation + 1
    /\ IF current = 0 THEN UNCHANGED <<cam, fate>>
       ELSE /\ cam' = [cam EXCEPT ![current].votes = {}, ![current].pending = 0,
                                  ![current].processed = 0, ![current].errors = 0]
            /\ fate' = Becomes(Waiting(current), "lost")
    /\ UNCHANGED <<made, current, jobs, submitter, remover, born, faults, disabled>>

\* The new setting cannot be stored: nothing has changed.
SwitchFails ==
    /\ Boundary /\ faults < MaxFaults
    /\ lock' = "free" /\ faults' = faults + 1
    /\ UNCHANGED <<made, current, cam, jobs, submitter, remover, generation, born, fate, disabled>>
------------------------------------------------------------------------------
\* remove: the state leaves _states, is retired once its commit is over, and
\* its queue is flushed; what is left after the time-out is detached.
RemovePop ==
    /\ remover.pc = "idle" /\ Free /\ current # 0
    /\ remover' = [pc |-> "popped", state |-> current]
    /\ current' = 0
    /\ UNCHANGED <<lock, made, cam, jobs, submitter, generation, born, fate, faults, disabled>>

RemoveRetires ==
    /\ remover.pc = "popped" /\ ~Committing(remover.state)
    /\ cam' = [cam EXCEPT ![remover.state].retired = TRUE, ![remover.state].pending = 0]
    /\ fate' = Becomes(Waiting(remover.state), "lost")
    /\ remover' = [remover EXCEPT !.pc = "retired"]
    /\ UNCHANGED <<lock, made, current, jobs, submitter, generation, born, faults, disabled>>

RemoveEnds(flushed) ==
    /\ remover.pc = "retired" /\ flushed = ~cam[remover.state].owes
    /\ remover' = NoRemove
    /\ UNCHANGED <<lock, made, current, cam, jobs, submitter, generation, born, fate, faults, disabled>>

\* An operator disables the camera, after a remove of its own which others may
\* have undone by then.
Disable ==
    /\ ~disabled /\ faults < MaxFaults
    /\ disabled' = TRUE /\ faults' = faults + 1
    /\ UNCHANGED <<lock, made, current, cam, jobs, submitter, remover, generation, born, fate>>

\* The process ends, however; the next one begins with none of its objects.
\* What is owed is durable (RetryOutbox) and is settled elsewhere.
Restart ==
    /\ lock' = "free" /\ made' = 0 /\ current' = 0 /\ generation' = 0
    /\ cam' = [s \in States |-> Fresh]
    /\ jobs' = {} /\ submitter' = NoSubmit /\ remover' = NoRemove
    /\ born' = [f \in Frames |-> IF fate[f] = "committed" THEN born[f] ELSE 0]
    /\ fate' = Becomes({f \in Frames : fate[f] = "inhand"}, "lost")
    /\ UNCHANGED <<faults, disabled>>
------------------------------------------------------------------------------
Submission == SubmitEnters \/ Refuse \/ ConfigFails \/ Skip \/ Hold \/ Schedule \/ Enqueue

Future(j) == Claim(j) \/ EnterCommit(j) \/ Commit(j) \/ InferFails(j) \/ CommitFails(j) \/ End(j)

Switching == SwitchEnters \/ Switch \/ SwitchFails

Next ==
    \/ \E f \in Frames : Call(f)
    \/ Submission \/ EnqueueFails \/ Switching
    \/ \E j \in jobs : Future(j)
    \/ \E s \in States : Settle(s)
    \/ \E g \in 0..MaxGeneration : Promote(g) \/ PromoteFails(g)
    \/ RemovePop \/ RemoveRetires
    \/ \E flushed \in BOOLEAN : RemoveEnds(flushed)
    \/ Disable \/ Restart

Spec == Init /\ [][Next]_schedulerVars
------------------------------------------------------------------------------
\* Types.
SchedulerTypeOK ==
    /\ lock \in {"free", "submit", "switch"}
    /\ made \in 0..MaxStates /\ current \in 0..MaxStates
    /\ cam \in [States -> Camera]
    /\ jobs \subseteq Job
    /\ submitter \in Submitter /\ remover \in Remover
    /\ generation \in 0..MaxGeneration /\ disabled \in BOOLEAN
    /\ born \in [Frames -> 0..MaxGeneration]
    /\ fate \in [Frames -> Fate]
    /\ faults \in 0..MaxFaults

\* A camera has one future at most, busy says whether it has it or is about to
\* get it, and nothing else does ("instead of creating a second Future for the
\* same camera", _claim_latest_payload).
OneFuture ==
    /\ \A j, k \in jobs : j.state = k.state => j = k
    /\ submitter.pc = "enqueue" => \A j \in jobs : j.state # submitter.state
    /\ \A s \in States : cam[s].busy <=>
         \/ \E j \in jobs : j.state = s
         \/ submitter.pc = "enqueue" /\ submitter.state = s

\* The camera's tracker holds evidence of the selected detector only, so does
\* the frame that waits, and a commit that is past its guard is on the same side
\* of a switch as the setting ("the new detector cannot inherit evidence",
\* invalidate_model_cache).
PureEvidence ==
    current # 0 =>
      /\ cam[current].votes \subseteq {generation}
      /\ \A p \in Waiting(current) : born[p] = generation
      /\ \A j \in jobs :
           j.state = current /\ j.pc = "committing" => born[j.frame] = generation

\* Nobody waits in a circle: who waits with the worker's lock in hand waits for
\* a commit that can go on without that lock.
NoLockDeadlock ==
    ~Free => Inside \/ Boundary \/ \E j \in jobs : ENABLED Commit(j)
==============================================================================
