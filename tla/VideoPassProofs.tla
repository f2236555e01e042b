--------------------------- MODULE VideoPassProofs ---------------------------
(***************************************************************************)
(* Theorems about LiveScheduler and VideoPass, for every number of          *)
(* requests, streams, frames, detector switches, crashes and faults.        *)
(*                                                                         *)
(* First the scheduler alone (Spec): SchedulerInv is its types, OneFuture,  *)
(* PureEvidence and Placed, which ties the thread inside submit to the      *)
(* state and the detector it works for; without it the frame that submit    *)
(* leaves in `pending' could be one of an old detector, and a state just    *)
(* made could already have a future.                                        *)
(*                                                                         *)
(* Then the streams (VideoSpec).  They use the worker only as it may be     *)
(* used: VideoSpec implements Spec, so what is true of the scheduler holds  *)
(* under the streams too.  VideoInv adds the types of the streams and       *)
(* SingleStream; each needs the others, because a step of a stream is one   *)
(* of the managed stream, and a frame it submits is typed.                  *)
(*                                                                         *)
(* Last, what the streams and the worker do to each other's frames, with    *)
(* one inductive invariant for each theorem:                                *)
(*   Marked    RestartNeverResubmits, with the life each decoder was        *)
(*             started in: the persisted mark is set before a frame of this *)
(*             life is decoded, so a decoder on its way finds it set.       *)
(*   Quiet     StoppedIsQuiet.  A stream is joined before its state is      *)
(*             removed (Joined), only one state is not retired (OneState),  *)
(*             and what waits or is at work for it was decoded by the       *)
(*             managed stream (Own).                                        *)
(*   Ordered   FramesInOrder.  A frame in hand is in one place (Apart) and  *)
(*             newer than every frame committed (InOrder): slot and pending *)
(*             hold one frame each, and busy one future.                    *)
(*   PassTold  CompletedIsWhole.  Every frame of the pass is accounted for: *)
(*             replaced in the slot (GaveWay), still on its way, or told to *)
(*             the drain by the counters it waits for (Told, Settled).      *)
(***************************************************************************)
EXTENDS VideoPass, TLAPS

\* Who works on a state works on one that was made; who is inside submit has the
\* lock, the camera's state, and a frame of the present detector; a switch that
\* waits is one the bound allows.
Placed ==
    /\ current <= made
    /\ \A j \in jobs : j.state <= made
    /\ lock = "switch" => generation < MaxGeneration
    /\ remover.pc # "idle" => remover.state \in 1..made
    /\ submitter.pc # "idle" => submitter.frame \in Frames
    /\ submitter.pc \in {"inside", "enqueue"} => submitter.state \in 1..made
    /\ submitter.pc = "inside" =>
         /\ lock = "submit" /\ submitter.state = current
         /\ born[submitter.frame] = generation

SchedulerInv == SchedulerTypeOK /\ Placed /\ OneFuture /\ PureEvidence
------------------------------------------------------------------------------
\* A frame that gets a fate keeps the others' fates, and the history its type.
LEMMA BecomesTyped ==
    ASSUME fate \in [Frames -> Fate], NEW F, NEW v \in Fate
    PROVE  Becomes(F, v) \in [Frames -> Fate]
BY DEF Becomes

\* A future that goes on is the same future.
LEMMA JobMoves ==
    ASSUME NEW j \in Job, NEW pc \in {"queued", "inferring", "committing", "ending"}
    PROVE  /\ [j EXCEPT !.pc = pc] \in Job
           /\ [j EXCEPT !.pc = pc].state = j.state
           /\ [j EXCEPT !.pc = pc].frame = j.frame
           /\ [j EXCEPT !.pc = pc].pc = pc
BY DEF Job

\* A future that takes another frame.
LEMMA JobTakes ==
    ASSUME NEW j \in Job, NEW f \in Frames
    PROVE  /\ [j EXCEPT !.frame = f, !.pc = "inferring"] \in Job
           /\ [j EXCEPT !.frame = f, !.pc = "inferring"].state = j.state
           /\ [j EXCEPT !.frame = f, !.pc = "inferring"].pc = "inferring"
BY DEF Job

\* The places of the others do not change with it.
LEMMA PlacesStay ==
    ASSUME Placed, NEW j \in jobs, NEW k, k.state = j.state, Moves(j, k),
           UNCHANGED <<lock, made, current, submitter, remover, generation, born>>
    PROVE  Placed'
BY DEF Placed, Moves

\* Nor does the evidence, if the future is past its guard or gives up.
LEMMA EvidenceStays ==
    ASSUME PureEvidence, NEW j \in jobs, NEW k, k.state = j.state, Moves(j, k),
           k.pc = "committing" => born[k.frame] = generation,
           current # 0 => current \in States,
           \A s \in States :
              /\ cam'[s].votes \subseteq cam[s].votes
                   \cup (IF s = j.state /\ j.pc = "committing" THEN {born[j.frame]} ELSE {})
              /\ cam'[s].pending \in {0, cam[s].pending},
           UNCHANGED <<current, generation, born>>
    PROVE  PureEvidence'
BY DEF PureEvidence, Moves, Waiting

\* A step of one future that leaves busy alone keeps OneFuture.
LEMMA FutureGoesOn ==
    ASSUME OneFuture, jobs \subseteq Job, NEW j \in jobs, NEW k \in Job, k.state = j.state,
           Moves(j, k), submitter' = submitter,
           \A s \in States : cam'[s].busy = cam[s].busy
    PROVE  OneFuture'
<1>1. \A i \in jobs' : \E h \in jobs : i.state = h.state /\ (i = k <=> h = j) /\ (h # j => i = h)
  BY DEF Moves, OneFuture
<1>2. \A h \in jobs : \E i \in jobs' : i.state = h.state
  BY DEF Moves
<1> QED BY <1>1, <1>2 DEF OneFuture

\* So does a step of anybody else that neither begins nor ends a future.
LEMMA FutureStays ==
    ASSUME OneFuture, jobs' = jobs,
           submitter'.pc = "enqueue" <=> submitter.pc = "enqueue",
           submitter.pc = "enqueue" => submitter'.state = submitter.state,
           \A s \in States : cam'[s].busy = cam[s].busy
    PROVE  OneFuture'
BY DEF OneFuture

\* A state without a future may get one.
LEMMA FutureBegins ==
    ASSUME OneFuture, NEW k, jobs' = jobs \cup {k},
           \A j \in jobs : j.state # k.state,
           submitter'.pc = "enqueue" =>
              /\ submitter.pc = "enqueue" /\ submitter'.state = submitter.state
              /\ submitter.state # k.state,
           submitter.pc = "enqueue" =>
              \/ submitter'.pc = "enqueue" /\ submitter'.state = submitter.state
              \/ submitter.state = k.state,
           \A s \in States : cam'[s].busy <=> cam[s].busy \/ s = k.state
    PROVE  OneFuture'
BY DEF OneFuture

\* And a state whose future ends has none.
LEMMA FutureEnds ==
    ASSUME OneFuture, NEW j \in jobs, jobs' = jobs \ {j}, submitter' = submitter,
           \A s \in States : cam'[s].busy <=> cam[s].busy /\ s # j.state
    PROVE  OneFuture'
BY DEF OneFuture

\* What the thread inside submit may become.
LEMMA SubmitterMoves ==
    ASSUME NEW u \in Submitter
    PROVE  /\ \A s \in 0..MaxStates : [u EXCEPT !.pc = "inside", !.state = s] \in Submitter
           /\ \A f \in 0..MaxFrames : [u EXCEPT !.pc = "enqueue", !.frame = f] \in Submitter
BY DEF Submitter

\* What the flags of a camera's state may be set to.
LEMMA Flags ==
    ASSUME NEW c \in Camera, NEW f \in 0..MaxFrames, NEW b \in BOOLEAN
    PROVE  /\ [c EXCEPT !.pending = f, !.busy = b] \in Camera
           /\ [c EXCEPT !.busy = b, !.pending = f] \in Camera
           /\ [c EXCEPT !.retired = b, !.pending = f] \in Camera
           /\ [c EXCEPT !.busy = b] \in Camera
BY Zenon DEF Camera

\* A state that was just made.
LEMMA FreshIsCamera == Fresh \in Camera
<1>1. 0 \in 0..MaxFrames /\ 0 \in Nat
  BY SchedulerAssumption
<1> QED BY <1>1, Zenon DEF Fresh, Camera

\* The start of the process, or of the model.
LEMMA InvInit == Init => SchedulerInv
<1> SUFFICES ASSUME Init PROVE SchedulerInv
  OBVIOUS
<1>1. SchedulerTypeOK
  <2>1. cam \in [States -> Camera]
    BY FreshIsCamera DEF Init
  <2>2. submitter \in Submitter /\ remover \in Remover
    BY SchedulerAssumption DEF Init, NoSubmit, NoRemove, Submitter, Remover
  <2>3. fate \in [Frames -> Fate] /\ born \in [Frames -> 0..MaxGeneration]
    BY SchedulerAssumption DEF Init, Fate
  <2>4. disabled \in BOOLEAN
    BY DEF Init
  <2> QED BY SchedulerAssumption, <2>1, <2>2, <2>3, <2>4 DEF Init, SchedulerTypeOK
<1>2. Placed /\ PureEvidence
  BY SchedulerAssumption DEF Init, Placed, PureEvidence, NoSubmit, NoRemove
<1>3. OneFuture
  BY DEF Init, OneFuture, Fresh, NoSubmit
<1> QED BY <1>1, <1>2, <1>3 DEF SchedulerInv

\* Every step keeps the invariant.
LEMMA InvStep == SchedulerInv /\ [Next]_schedulerVars => SchedulerInv'
<1> SUFFICES ASSUME SchedulerInv, [Next]_schedulerVars PROVE SchedulerInv'
  OBVIOUS
<1> USE SchedulerAssumption
<1>a. /\ SchedulerTypeOK /\ Placed /\ OneFuture /\ PureEvidence
      /\ cam \in [States -> Camera] /\ jobs \subseteq Job
      /\ submitter \in Submitter /\ remover \in Remover
      /\ fate \in [Frames -> Fate] /\ born \in [Frames -> 0..MaxGeneration]
      /\ generation \in 0..MaxGeneration /\ faults \in 0..MaxFaults
      /\ made \in 0..MaxStates /\ current \in 0..MaxStates
  BY DEF SchedulerInv, SchedulerTypeOK
<1>c. cam \in [States -> Camera]
  BY <1>a
<1>d. (current # 0 => current \in States) /\ 0 \notin States /\ 0 \in 0..MaxFrames
  BY <1>a DEF States
<1>b. ASSUME cam' \in [States -> Camera], jobs' \subseteq Job, submitter' \in Submitter,
             remover' \in Remover, fate' \in [Frames -> Fate],
             born' \in [Frames -> 0..MaxGeneration], faults' \in 0..MaxFaults,
             lock' \in {"free", "submit", "switch"}, generation' \in 0..MaxGeneration,
             disabled' \in BOOLEAN, made' \in 0..MaxStates, current' \in 0..MaxStates,
             Placed', OneFuture', PureEvidence'
      PROVE  SchedulerInv'
  BY <1>b DEF SchedulerInv, SchedulerTypeOK
<1>1. ASSUME NEW f \in Frames, Call(f) PROVE SchedulerInv'
  <2>1. jobs' \subseteq Job /\ submitter' \in Submitter /\ remover' \in Remover
    BY <1>1, <1>a DEF Call, Submitter, Frames
  <2>2. fate' \in [Frames -> Fate]
    BY <1>1, <1>a, BecomesTyped DEF Call, Fate
  <2>3. /\ born' \in [Frames -> 0..MaxGeneration] /\ faults' \in 0..MaxFaults
        /\ lock' \in {"free", "submit", "switch"} /\ generation' \in 0..MaxGeneration
        /\ disabled' \in BOOLEAN /\ made' \in 0..MaxStates /\ current' \in 0..MaxStates
    BY <1>1, <1>a DEF Call, SchedulerTypeOK
  <2>4. Placed'
    BY <1>1, <1>a DEF Call, Placed
  <2>5. OneFuture'
    BY <1>1, <1>a, FutureStays DEF Call
  <2>6. PureEvidence'
    BY <1>1, <1>a DEF Call, PureEvidence, Waiting
  <2> QED BY <1>1, <1>a, <1>b, <2>1, <2>2, <2>3, <2>4, <2>5, <2>6 DEF Call
<1>2. CASE SubmitEnters
  <2>1. /\ submitter.pc = "call" /\ submitter.frame \in Frames
        /\ made' \in 0..MaxStates /\ made <= made'
        /\ current' \in 1..made' /\ current' \in States
        /\ submitter' = [submitter EXCEPT !.pc = "inside", !.state = current']
        /\ born' = [born EXCEPT ![submitter.frame] = generation]
    BY <1>2, <1>a DEF SubmitEnters, Placed, States
  <2>2. submitter' \in Submitter
    <3>1. current' \in 0..MaxStates
      BY <2>1
    <3> QED BY <1>a, <2>1, <3>1, SubmitterMoves
  <2>3. /\ submitter'.pc = "inside" /\ submitter'.frame = submitter.frame
        /\ submitter'.state = current'
    BY <1>a, <2>1
  <2>4. \A j \in jobs : j.state # made + 1
    BY <1>a DEF Placed
  <2>5. \/ current = 0 /\ current' = made + 1 /\ cam' = [cam EXCEPT ![made + 1] = Fresh]
        \/ current # 0 /\ current' = current /\ cam' = cam
    BY <1>2 DEF SubmitEnters
  <2>6. cam' \in [States -> Camera]
    BY <1>c, <2>1, <2>5, FreshIsCamera
  <2>7. born' \in [Frames -> 0..MaxGeneration] /\ born'[submitter.frame] = generation
    BY <1>a, <2>1
  <2>8. Placed'
    BY <1>2, <1>a, <2>1, <2>3, <2>7 DEF SubmitEnters, Placed, Job, States
  <2>9. OneFuture'
    <3>1. \A s \in States : cam'[s].busy <=> cam[s].busy
      <4>1. made + 1 \in States => ~cam[made + 1].busy
        BY <2>1, <2>4, <1>a DEF OneFuture
      <4>2. ~Fresh.busy
        BY DEF Fresh
      <4> QED BY <1>c, <2>5, <4>1, <4>2
    <3>2. jobs' = jobs
      BY <1>2 DEF SubmitEnters
    <3> QED BY <1>a, <2>1, <2>3, <3>1, <3>2 DEF OneFuture
  <2>10. PureEvidence'
    <3>1. jobs' = jobs /\ generation' = generation
      BY <1>2 DEF SubmitEnters
    <3>2. \A f \in Frames : born[f] = generation => born'[f] = generation
      BY <1>a, <2>1
    <3>3. CASE current = 0
      BY <1>c, <2>1, <2>4, <2>5, <3>1, <3>3 DEF PureEvidence, Waiting, Fresh
    <3>4. CASE current # 0
      <4>1. cam[current].pending \in 0..MaxFrames
        BY <1>c, <1>d, <3>4 DEF Camera
      <4>2. Waiting(current) \subseteq Frames
        BY <4>1 DEF Waiting, Frames
      <4>3. \A j \in jobs : j.frame \in Frames
        BY <1>a DEF Job
      <4> QED BY <1>a, <2>5, <3>1, <3>2, <3>4, <4>2, <4>3 DEF PureEvidence, Waiting
    <3> QED BY <3>3, <3>4
  <2> QED BY <1>2, <1>a, <1>b, <2>1, <2>2, <2>6, <2>7, <2>8, <2>9, <2>10 DEF SubmitEnters,
             SchedulerTypeOK
<1>3. CASE Refuse
  <2>1. submitter.state \in States /\ submitter.frame \in Frames
    BY <1>3, <1>a DEF Refuse, Inside, Placed, States
  <2>2. cam' = [cam EXCEPT ![submitter.state].pending = 0, ![submitter.state].refused = @ + 1]
    BY <1>3 DEF Refuse
  <2>3. /\ cam' \in [States -> Camera]
        /\ \A s \in States :
             /\ cam'[s].busy = cam[s].busy
             /\ cam'[s].votes = cam[s].votes
             /\ cam'[s].pending = IF s = submitter.state THEN 0 ELSE cam[s].pending
    BY <1>c, <1>d, <2>1, <2>2 DEF Camera
  <2>4. jobs' \subseteq Job /\ submitter' \in Submitter /\ remover' \in Remover
    BY <1>3, <1>a, <2>1 DEF Refuse, Leaves, NoSubmit, Submitter
  <2>5. fate' \in [Frames -> Fate]
    BY <1>3, <1>a, <2>1, BecomesTyped DEF Refuse, Fate
  <2>6. /\ born' \in [Frames -> 0..MaxGeneration] /\ faults' \in 0..MaxFaults
        /\ lock' \in {"free", "submit", "switch"} /\ generation' \in 0..MaxGeneration
        /\ disabled' \in BOOLEAN /\ made' \in 0..MaxStates /\ current' \in 0..MaxStates
    BY <1>3, <1>a, <2>1 DEF Refuse, Leaves, SchedulerTypeOK
  <2>7. Placed'
    BY <1>3, <1>a, <2>1 DEF Refuse, Leaves, NoSubmit, Placed
  <2>8. OneFuture'
    BY <1>3, <1>a, <2>1, <2>3, FutureStays DEF Refuse, Inside, Leaves, NoSubmit
  <2>9. PureEvidence'
    BY <1>3, <1>a, <2>1, <2>3 DEF Refuse, Inside, Waiting, PureEvidence, Placed
  <2> QED BY <1>3, <1>a, <1>b, <2>1, <2>2, <2>3, <2>4, <2>5, <2>6, <2>7, <2>8, <2>9 DEF
             Refuse
<1>4. CASE ConfigFails
  <2>1. submitter.state \in States /\ submitter.frame \in Frames
    BY <1>4, <1>a DEF ConfigFails, Placed, States
  <2>2. cam' = [cam EXCEPT ![submitter.state].errors = @ + 1]
    BY <1>4 DEF ConfigFails
  <2>3. /\ cam' \in [States -> Camera]
        /\ \A s \in States :
             /\ cam'[s].busy = cam[s].busy
             /\ cam'[s].votes = cam[s].votes
             /\ cam'[s].pending = cam[s].pending
    BY <1>c, <1>d, <2>1, <2>2 DEF Camera
  <2>4. jobs' \subseteq Job /\ submitter' \in Submitter /\ remover' \in Remover
    BY <1>4, <1>a, <2>1 DEF ConfigFails, Leaves, NoSubmit, Submitter
  <2>5. fate' \in [Frames -> Fate]
    BY <1>4, <1>a, <2>1, BecomesTyped DEF ConfigFails, Fate
  <2>6. /\ born' \in [Frames -> 0..MaxGeneration] /\ faults' \in 0..MaxFaults
        /\ lock' \in {"free", "submit", "switch"} /\ generation' \in 0..MaxGeneration
        /\ disabled' \in BOOLEAN /\ made' \in 0..MaxStates /\ current' \in 0..MaxStates
    BY <1>4, <1>a, <2>1 DEF ConfigFails, Leaves, SchedulerTypeOK
  <2>7. Placed'
    BY <1>4, <1>a, <2>1 DEF ConfigFails, Leaves, NoSubmit, Placed
  <2>8. OneFuture'
    BY <1>4, <1>a, <2>1, <2>3, FutureStays DEF ConfigFails, Leaves, NoSubmit
  <2>9. PureEvidence'
    BY <1>4, <1>a, <2>1, <2>3 DEF ConfigFails, PureEvidence, Waiting
  <2> QED BY <1>4, <1>a, <1>b, <2>1, <2>2, <2>3, <2>4, <2>5, <2>6, <2>7, <2>8, <2>9 DEF
             ConfigFails
<1>5. CASE Skip
  <2>1. jobs' \subseteq Job /\ submitter' \in Submitter /\ remover' \in Remover
    BY <1>5, <1>a DEF Skip, Leaves, NoSubmit, Submitter
  <2>2. fate' \in [Frames -> Fate]
    BY <1>5, <1>a, BecomesTyped DEF Skip, Fate
  <2>3. /\ born' \in [Frames -> 0..MaxGeneration] /\ faults' \in 0..MaxFaults
        /\ lock' \in {"free", "submit", "switch"} /\ generation' \in 0..MaxGeneration
        /\ disabled' \in BOOLEAN /\ made' \in 0..MaxStates /\ current' \in 0..MaxStates
    BY <1>5, <1>a DEF Skip, Leaves
  <2>4. Placed'
    BY <1>5, <1>a DEF Skip, Leaves, NoSubmit, Placed
  <2>5. OneFuture'
    BY <1>5, <1>a, FutureStays DEF Skip, Leaves, NoSubmit
  <2>6. PureEvidence'
    BY <1>5, <1>a DEF Skip, PureEvidence, Waiting
  <2> QED BY <1>5, <1>a, <1>b, <2>1, <2>2, <2>3, <2>4, <2>5, <2>6 DEF Skip
<1>6. CASE Hold
  <2>1. submitter.state \in States /\ submitter.frame \in Frames
    BY <1>6, <1>a DEF Hold, Inside, Placed, States
  <2>2. submitter.state = current /\ born[submitter.frame] = generation
    BY <1>6, <1>a DEF Hold, Inside, Placed
  <2>3. \A f \in {submitter.frame} \cup Waiting(submitter.state) :
           f \in Frames /\ born[f] = generation
    <3>1. cam[submitter.state].pending \in 0..MaxFrames
      BY <1>c, <2>1 DEF Camera
    <3>2. current # 0
      BY <1>d, <2>1, <2>2
    <3> QED BY <1>a, <2>1, <2>2, <3>1, <3>2 DEF PureEvidence, Waiting, Frames
  <2>4. PICK f \in {submitter.frame} \cup Waiting(submitter.state) :
          /\ cam' = [cam EXCEPT ![submitter.state].pending = f]
          /\ fate' = [g \in Frames |->
                        IF g = f THEN "inhand"
                        ELSE IF g \in {submitter.frame} \cup Waiting(submitter.state)
                             THEN "coalesced" ELSE fate[g]]
    BY <1>6 DEF Hold
  <2>5. f \in Frames /\ f \in 0..MaxFrames /\ born[f] = generation
    BY <2>3 DEF Frames
  <2>6. fate' \in [Frames -> Fate]
    BY <1>a, <2>4 DEF Fate
  <2>7. /\ cam' \in [States -> Camera]
        /\ \A s \in States :
             /\ cam'[s].busy = cam[s].busy
             /\ cam'[s].votes = cam[s].votes
             /\ cam'[s].pending = IF s = submitter.state THEN f ELSE cam[s].pending
    BY <1>c, <2>1, <2>4, <2>5 DEF Camera
  <2>8. submitter' \in Submitter /\ submitter'.pc = "idle"
    BY <1>6 DEF Hold, Leaves, NoSubmit, Submitter
  <2>9. Placed'
    BY <1>6, <1>a, <2>8 DEF Hold, Leaves, Placed
  <2>10. OneFuture'
    BY <1>6, <1>a, <2>7, <2>8, FutureStays DEF Hold, Inside
  <2>11. PureEvidence'
    BY <1>6, <1>a, <1>d, <2>2, <2>5, <2>7 DEF Hold, PureEvidence, Waiting
  <2> QED BY <1>6, <1>a, <1>b, <2>6, <2>7, <2>8, <2>9, <2>10, <2>11 DEF Hold, Leaves,
             SchedulerTypeOK
<1>7. CASE Schedule
  <2>1. submitter.state \in States /\ submitter.frame \in Frames
    BY <1>7, <1>a DEF Schedule, Inside, Placed, States
  <2>2. submitter.state = current /\ born[submitter.frame] = generation
    BY <1>7, <1>a DEF Schedule, Inside, Placed
  <2>3. \A f \in {submitter.frame} \cup Waiting(submitter.state) :
           f \in Frames /\ born[f] = generation
    <3>1. cam[submitter.state].pending \in 0..MaxFrames
      BY <1>c, <2>1 DEF Camera
    <3>2. current # 0
      BY <1>d, <2>1, <2>2
    <3> QED BY <1>a, <2>1, <2>2, <3>1, <3>2 DEF PureEvidence, Waiting, Frames
  <2>4. PICK f \in {submitter.frame} \cup Waiting(submitter.state) :
          /\ cam' = [cam EXCEPT ![submitter.state].pending = 0, ![submitter.state].busy = TRUE]
          /\ fate' = [g \in Frames |->
                        IF g = f THEN "inhand"
                        ELSE IF g \in {submitter.frame} \cup Waiting(submitter.state)
                             THEN "coalesced" ELSE fate[g]]
          /\ submitter' = [submitter EXCEPT !.pc = "enqueue", !.frame = f]
    BY <1>7 DEF Schedule
  <2>5. f \in Frames
    BY <2>3
  <2>6. fate' \in [Frames -> Fate]
    BY <1>a, <2>4 DEF Fate
  <2>7. cam' \in [States -> Camera]
    <3>1. [cam[submitter.state] EXCEPT !.pending = 0, !.busy = TRUE] \in Camera
      BY <1>c, <1>d, <2>1, Flags
    <3> QED BY <1>c, <2>1, <2>4, <3>1
  <2>8. \A s \in States :
          /\ cam'[s].busy <=> cam[s].busy \/ s = submitter.state
          /\ cam'[s].votes = cam[s].votes
          /\ cam'[s].pending \in {0, cam[s].pending}
    BY <1>c, <2>1, <2>4
  <2>9. submitter' \in Submitter
    <3>1. f \in 0..MaxFrames
      BY <2>5 DEF Frames
    <3> QED BY <1>a, <2>4, <3>1, SubmitterMoves
  <2>10. /\ submitter'.pc = "enqueue" /\ submitter'.frame = f
         /\ submitter'.state = submitter.state
    BY <1>a, <2>4
  <2>11. Placed'
    BY <1>7, <1>a, <2>1, <2>5, <2>10 DEF Schedule, Inside, Placed
  <2>12. OneFuture'
    <3>1. submitter.pc = "inside" /\ ~cam[submitter.state].busy /\ jobs' = jobs
      BY <1>7 DEF Schedule, Inside
    <3>2. \A j \in jobs : j.state # submitter.state
      BY <1>a, <2>1, <3>1 DEF OneFuture
    <3> QED BY <1>a, <2>8, <2>10, <3>1, <3>2 DEF OneFuture
  <2>13. PureEvidence'
    BY <1>7, <1>a, <1>d, <2>8 DEF Schedule, PureEvidence, Waiting
  <2> QED BY <1>7, <1>a, <1>b, <2>6, <2>7, <2>9, <2>11, <2>12, <2>13 DEF Schedule,
             SchedulerTypeOK
<1>8. CASE Enqueue
  <2>1. submitter.state \in States /\ submitter.frame \in Frames
    BY <1>8, <1>a DEF Enqueue, Placed, States
  <2>2. jobs' \subseteq Job /\ submitter' \in Submitter /\ remover' \in Remover
    BY <1>8, <1>a, <2>1 DEF Enqueue, NoSubmit, Job, Submitter
  <2>3. fate' \in [Frames -> Fate]
    BY <1>8, <1>a, <2>1 DEF Enqueue
  <2>4. /\ born' \in [Frames -> 0..MaxGeneration] /\ faults' \in 0..MaxFaults
        /\ lock' \in {"free", "submit", "switch"} /\ generation' \in 0..MaxGeneration
        /\ disabled' \in BOOLEAN /\ made' \in 0..MaxStates /\ current' \in 0..MaxStates
    BY <1>8, <1>a, <2>1 DEF Enqueue, SchedulerTypeOK
  <2>5. Placed'
    BY <1>8, <1>a, <2>1 DEF Enqueue, NoSubmit, Placed
  <2>6. PICK k : k.state = submitter.state /\ jobs' = jobs \cup {k}
    BY <1>8 DEF Enqueue
  <2>7. /\ \A j \in jobs : j.state # k.state
        /\ \A s \in States : cam'[s].busy <=> cam[s].busy \/ s = k.state
    BY <1>8, <1>a, <2>1, <2>6 DEF Enqueue, OneFuture
  <2>8. OneFuture'
    <3>1. submitter'.pc # "enqueue" /\ submitter.state = k.state
      BY <1>8, <2>6 DEF Enqueue, NoSubmit
    <3> QED BY <1>a, <2>6, <2>7, <3>1, FutureBegins
  <2>9. PureEvidence'
    BY <1>8, <1>a, <2>1 DEF Enqueue, PureEvidence, Waiting
  <2> QED BY <1>8, <1>a, <1>b, <2>1, <2>2, <2>3, <2>4, <2>5, <2>6, <2>7, <2>8, <2>9 DEF
             Enqueue
<1>9. CASE EnqueueFails
  <2>1. submitter.state \in States /\ submitter.frame \in Frames
    BY <1>9, <1>a DEF EnqueueFails, Placed, States
  <2>2. cam' = [cam EXCEPT ![submitter.state].busy = FALSE, ![submitter.state].errors = @ + 1]
    BY <1>9 DEF EnqueueFails
  <2>3. /\ cam' \in [States -> Camera]
        /\ \A s \in States :
             /\ cam'[s].busy = IF s = submitter.state THEN FALSE ELSE cam[s].busy
             /\ cam'[s].votes = cam[s].votes
             /\ cam'[s].pending = cam[s].pending
    BY <1>c, <1>d, <2>1, <2>2 DEF Camera
  <2>4. jobs' \subseteq Job /\ submitter' \in Submitter /\ remover' \in Remover
    BY <1>9, <1>a, <2>1 DEF EnqueueFails, NoSubmit, Submitter
  <2>5. fate' \in [Frames -> Fate]
    BY <1>9, <1>a, <2>1, BecomesTyped DEF EnqueueFails, Fate
  <2>6. /\ born' \in [Frames -> 0..MaxGeneration] /\ faults' \in 0..MaxFaults
        /\ lock' \in {"free", "submit", "switch"} /\ generation' \in 0..MaxGeneration
        /\ disabled' \in BOOLEAN /\ made' \in 0..MaxStates /\ current' \in 0..MaxStates
    BY <1>9, <1>a, <2>1 DEF EnqueueFails, SchedulerTypeOK
  <2>7. Placed'
    BY <1>9, <1>a, <2>1 DEF EnqueueFails, NoSubmit, Placed
  <2>8. OneFuture'
    BY <1>9, <1>a, <2>1, <2>3 DEF EnqueueFails, NoSubmit, OneFuture
  <2>9. PureEvidence'
    BY <1>9, <1>a, <2>1, <2>3 DEF EnqueueFails, PureEvidence, Waiting, States
  <2> QED BY <1>9, <1>a, <1>b, <2>1, <2>2, <2>3, <2>4, <2>5, <2>6, <2>7, <2>8, <2>9 DEF
             EnqueueFails
<1>10. CASE SwitchEnters
  <2>1. jobs' \subseteq Job /\ submitter' \in Submitter /\ remover' \in Remover
    BY <1>10, <1>a DEF SwitchEnters
  <2>2. fate' \in [Frames -> Fate]
    BY <1>10, <1>a DEF SwitchEnters
  <2>3. /\ born' \in [Frames -> 0..MaxGeneration] /\ faults' \in 0..MaxFaults
        /\ lock' \in {"free", "submit", "switch"} /\ generation' \in 0..MaxGeneration
        /\ disabled' \in BOOLEAN /\ made' \in 0..MaxStates /\ current' \in 0..MaxStates
    BY <1>10, <1>a DEF SwitchEnters, SchedulerTypeOK
  <2>4. Placed'
    BY <1>10, <1>a DEF SwitchEnters, Free, Placed
  <2>5. OneFuture'
    BY <1>10, <1>a, FutureStays DEF SwitchEnters
  <2>6. PureEvidence'
    BY <1>10, <1>a DEF SwitchEnters, PureEvidence, Waiting
  <2> QED BY <1>10, <1>a, <1>b, <2>1, <2>2, <2>3, <2>4, <2>5, <2>6 DEF SwitchEnters
<1>11. CASE Switch
  <2>1. current # 0 => current \in States
    BY <1>a DEF States
  <2>2. current = 0 => cam' = cam
    BY <1>11 DEF Switch
  <2>3. current # 0 => cam' = [cam EXCEPT ![current].votes = {}, ![current].pending = 0,
                                        ![current].processed = 0, ![current].errors = 0]
    BY <1>11 DEF Switch
  <2>4. /\ cam' \in [States -> Camera]
        /\ \A s \in States :
             /\ cam'[s].busy = cam[s].busy
             /\ cam'[s].votes = IF s = current THEN {} ELSE cam[s].votes
             /\ cam'[s].pending = IF s = current THEN 0 ELSE cam[s].pending
    <3>1. CASE current = 0
      BY <1>c, <1>d, <2>2, <3>1
    <3>2. CASE current # 0
      <4>1. cam' \in [States -> Camera]
        BY <1>c, <2>1, <2>3, <3>2 DEF Camera
      <4>2. \A s \in States : s # current => cam'[s] = cam[s]
        BY <1>c, <2>1, <2>3, <3>2
      <4>3. /\ cam'[current].busy = cam[current].busy
            /\ cam'[current].votes = {} /\ cam'[current].pending = 0
        BY <1>c, <2>1, <2>3, <3>2 DEF Camera
      <4> QED BY <4>1, <4>2, <4>3
    <3> QED BY <3>1, <3>2
  <2>5. jobs' \subseteq Job /\ submitter' \in Submitter /\ remover' \in Remover
    BY <1>11, <1>a, <2>1 DEF Switch
  <2>6. fate' \in [Frames -> Fate]
    BY <1>11, <1>a, <2>1, BecomesTyped DEF Switch, Fate
  <2>7. /\ born' \in [Frames -> 0..MaxGeneration] /\ faults' \in 0..MaxFaults
        /\ lock' \in {"free", "submit", "switch"} /\ generation' \in 0..MaxGeneration
        /\ disabled' \in BOOLEAN /\ made' \in 0..MaxStates /\ current' \in 0..MaxStates
    BY <1>11, <1>a DEF Switch, Boundary, Placed, SchedulerTypeOK
  <2>8. Placed'
    BY <1>11, <1>a, <2>1 DEF Switch, Boundary, Placed
  <2>9. OneFuture'
    BY <1>11, <1>a, <2>1, <2>4, FutureStays DEF Switch
  <2>10. PureEvidence'
    BY <1>11, <1>a, <2>1, <2>4 DEF Switch, Boundary, Waiting, Committing, PureEvidence
  <2> QED BY <1>11, <1>a, <1>b, <2>1, <2>2, <2>3, <2>4, <2>5, <2>6, <2>7, <2>8, <2>9, <2>10
             DEF Switch
<1>12. CASE SwitchFails
  <2>1. jobs' \subseteq Job /\ submitter' \in Submitter /\ remover' \in Remover
    BY <1>12, <1>a DEF SwitchFails
  <2>2. fate' \in [Frames -> Fate]
    BY <1>12, <1>a DEF SwitchFails
  <2>3. /\ born' \in [Frames -> 0..MaxGeneration] /\ faults' \in 0..MaxFaults
        /\ lock' \in {"free", "submit", "switch"} /\ generation' \in 0..MaxGeneration
        /\ disabled' \in BOOLEAN /\ made' \in 0..MaxStates /\ current' \in 0..MaxStates
    BY <1>12, <1>a DEF SwitchFails, SchedulerTypeOK
  <2>4. Placed'
    BY <1>12, <1>a DEF SwitchFails, Boundary, Placed
  <2>5. OneFuture'
    BY <1>12, <1>a, FutureStays DEF SwitchFails
  <2>6. PureEvidence'
    BY <1>12, <1>a DEF SwitchFails, PureEvidence, Waiting
  <2> QED BY <1>12, <1>a, <1>b, <2>1, <2>2, <2>3, <2>4, <2>5, <2>6 DEF SwitchFails
<1>13. ASSUME NEW j \in jobs, Claim(j) PROVE SchedulerInv'
  <2>1. j \in Job /\ j.state \in States /\ j.frame \in Frames /\ born[j.frame] \in Nat
    BY <1>13, <1>a DEF Job
  <2>2. cam' = [cam EXCEPT ![j.state].pending = 0]
    BY <1>13 DEF Claim
  <2>3. /\ cam' \in [States -> Camera]
        /\ \A s \in States :
             /\ cam'[s].busy = cam[s].busy
             /\ cam'[s].votes = cam[s].votes
             /\ cam'[s].pending = IF s = j.state THEN 0 ELSE cam[s].pending
    BY <1>c, <1>d, <2>1, <2>2 DEF Camera
  <2>4. Chosen(j.frame, cam[j.state].pending) \in Frames
    BY <1>c, <2>1 DEF Chosen, Camera, Frames
  <2>5. PICK k \in Job : k.state = j.state /\ Moves(j, k) /\ k.pc = "inferring"
    BY <1>13, <2>1, <2>4, JobTakes DEF Claim
  <2>6. jobs' \subseteq Job /\ submitter' \in Submitter /\ remover' \in Remover
    BY <1>13, <1>a, <2>5 DEF Claim, Moves
  <2>7. fate' \in [Frames -> Fate]
    BY <1>13, <1>a, <2>1 DEF Claim, Fate
  <2>8. /\ born' \in [Frames -> 0..MaxGeneration] /\ faults' \in 0..MaxFaults
        /\ lock' \in {"free", "submit", "switch"} /\ generation' \in 0..MaxGeneration
        /\ disabled' \in BOOLEAN /\ made' \in 0..MaxStates /\ current' \in 0..MaxStates
    BY <1>13, <1>a, <2>1 DEF Claim, SchedulerTypeOK
  <2>9. Placed'
    BY <1>13, <1>a, <2>5, PlacesStay DEF Claim
  <2>10. OneFuture'
    BY <1>13, <1>a, <2>5, <2>3, FutureGoesOn DEF Claim
  <2>11. PureEvidence'
    BY <1>13, <1>a, <1>d, <2>5, <2>3, EvidenceStays DEF Claim
  <2> QED BY <1>13, <1>a, <1>b, <2>1, <2>2, <2>3, <2>4, <2>5, <2>6, <2>7, <2>8, <2>9, <2>10,
             <2>11 DEF Claim
<1>14. ASSUME NEW j \in jobs, EnterCommit(j) PROVE SchedulerInv'
  <2>1. j \in Job /\ j.state \in States /\ j.frame \in Frames /\ born[j.frame] \in Nat
    BY <1>14, <1>a DEF Job
  <2>2. \/ Moves(j, [j EXCEPT !.pc = "ending"])
        \/ Moves(j, [j EXCEPT !.pc = "committing"]) /\ born[j.frame] = generation
    BY <1>14 DEF EnterCommit
  <2>3. PICK k \in Job : /\ k.state = j.state /\ Moves(j, k) /\ k.frame = j.frame
                         /\ k.pc = "committing" => born[k.frame] = generation
    <3>1. CASE Moves(j, [j EXCEPT !.pc = "ending"])
      BY <3>1, <2>1, JobMoves
    <3>2. CASE Moves(j, [j EXCEPT !.pc = "committing"]) /\ born[j.frame] = generation
      <4>1. PICK k \in Job : k = [j EXCEPT !.pc = "committing"]
        BY <2>1, JobMoves
      <4>2. k.state = j.state /\ k.frame = j.frame
        BY <2>1, <4>1, JobMoves
      <4> QED BY <3>2, <4>1, <4>2
    <3> QED BY <2>2, <3>1, <3>2
  <2>4. jobs' \subseteq Job /\ submitter' \in Submitter /\ remover' \in Remover
    BY <1>14, <1>a, <2>3 DEF EnterCommit, Moves
  <2>5. fate' \in [Frames -> Fate]
    BY <1>14, <1>a, <2>1, BecomesTyped DEF EnterCommit, Fate
  <2>6. /\ born' \in [Frames -> 0..MaxGeneration] /\ faults' \in 0..MaxFaults
        /\ lock' \in {"free", "submit", "switch"} /\ generation' \in 0..MaxGeneration
        /\ disabled' \in BOOLEAN /\ made' \in 0..MaxStates /\ current' \in 0..MaxStates
    BY <1>14, <1>a, <2>1 DEF EnterCommit, SchedulerTypeOK
  <2>7. Placed'
    BY <1>14, <1>a, <2>3, PlacesStay DEF EnterCommit
  <2>8. OneFuture'
    BY <1>14, <1>a, <2>3, FutureGoesOn DEF EnterCommit
  <2>9. PureEvidence'
    BY <1>14, <1>a, <1>d, <2>3, EvidenceStays DEF EnterCommit
  <2> QED BY <1>14, <1>a, <1>b, <2>1, <2>2, <2>3, <2>4, <2>5, <2>6, <2>7, <2>8, <2>9 DEF
             EnterCommit
<1>15. ASSUME NEW j \in jobs, Commit(j) PROVE SchedulerInv'
  <2>1. j \in Job /\ j.state \in States /\ j.frame \in Frames /\ born[j.frame] \in Nat
    BY <1>15, <1>a DEF Job
  <2>2. \E owes \in BOOLEAN :
         cam' = [cam EXCEPT ![j.state].votes = @ \cup {born[j.frame]},
                            ![j.state].processed = @ + 1, ![j.state].owes = owes]
    BY <1>15 DEF Commit
  <2>3. /\ cam' \in [States -> Camera]
        /\ \A s \in States :
             /\ cam'[s].busy = cam[s].busy
             /\ cam'[s].votes = IF s = j.state THEN cam[s].votes \cup {born[j.frame]} ELSE cam[s].votes
             /\ cam'[s].pending = cam[s].pending
    <3>1. PICK owes \in BOOLEAN :
            cam' = [cam EXCEPT ![j.state] = [cam[j.state] EXCEPT !.votes = @ \cup {born[j.frame]},
                                                                 !.processed = @ + 1, !.owes = owes]]
      BY <2>1, <2>2, <1>c DEF Camera
    <3> DEFINE p == cam[j.state].processed + 1
               v == cam[j.state].votes \cup {born[j.frame]}
    <3>2. cam[j.state] \in Camera /\ p \in Nat /\ v \in SUBSET Nat
      BY <2>1, <1>c DEF Camera
    <3>3. cam' = [cam EXCEPT ![j.state] = [cam[j.state] EXCEPT !.votes = v, !.processed = p,
                                                               !.owes = owes]]
      BY <3>1
    <3>4. v = cam[j.state].votes \cup {born[j.frame]}
      OBVIOUS
    <3> HIDE DEF p, v
    <3> DEFINE t == [cam[j.state] EXCEPT !.votes = v, !.processed = p, !.owes = owes]
    <3>5. /\ t \in Camera /\ t.votes = v
          /\ t.busy = cam[j.state].busy /\ t.pending = cam[j.state].pending
      BY <3>2 DEF Camera
    <3>6. cam' = [cam EXCEPT ![j.state] = t]
      BY <3>3
    <3> HIDE DEF t
    <3> QED BY <3>4, <3>5, <3>6, <2>1, <1>c
  <2>4. PICK k \in Job : k.state = j.state /\ Moves(j, k) /\ k.pc = "ending"
    BY <1>15, <2>1, JobMoves DEF Commit
  <2>5. jobs' \subseteq Job /\ submitter' \in Submitter /\ remover' \in Remover
    BY <1>15, <1>a, <2>4 DEF Commit, Moves
  <2>6. fate' \in [Frames -> Fate]
    BY <1>15, <1>a, <2>1, BecomesTyped DEF Commit, Fate
  <2>7. /\ born' \in [Frames -> 0..MaxGeneration] /\ faults' \in 0..MaxFaults
        /\ lock' \in {"free", "submit", "switch"} /\ generation' \in 0..MaxGeneration
        /\ disabled' \in BOOLEAN /\ made' \in 0..MaxStates /\ current' \in 0..MaxStates
    BY <1>15, <1>a, <2>1 DEF Commit, SchedulerTypeOK
  <2>8. Placed'
    BY <1>15, <1>a, <2>4, PlacesStay DEF Commit
  <2>9. OneFuture'
    BY <1>15, <1>a, <2>4, <2>3, FutureGoesOn DEF Commit
  <2>10. PureEvidence'
    <3>1. /\ UNCHANGED <<current, generation, born>> /\ j.pc = "committing"
      BY <1>15 DEF Commit
    <3> QED BY <3>1, <1>a, <1>d, <2>4, <2>3, EvidenceStays
  <2> QED BY <1>15, <1>a, <1>b, <2>1, <2>2, <2>3, <2>4, <2>5, <2>6, <2>7, <2>8, <2>9, <2>10
             DEF Commit
<1>16. ASSUME NEW j \in jobs, InferFails(j) PROVE SchedulerInv'
  <2>1. j \in Job /\ j.state \in States /\ j.frame \in Frames /\ born[j.frame] \in Nat
    BY <1>16, <1>a DEF Job
  <2>2. \/ cam' = cam
        \/ cam' = [cam EXCEPT ![j.state].errors = @ + 1]
    BY <1>16 DEF InferFails
  <2>3. /\ cam' \in [States -> Camera]
        /\ \A s \in States :
             /\ cam'[s].busy = cam[s].busy
             /\ cam'[s].votes = cam[s].votes
             /\ cam'[s].pending = cam[s].pending
    BY <1>c, <1>d, <2>1, <2>2 DEF Camera
  <2>4. PICK k \in Job : k.state = j.state /\ Moves(j, k) /\ k.pc = "ending"
    BY <1>16, <2>1, JobMoves DEF InferFails
  <2>5. jobs' \subseteq Job /\ submitter' \in Submitter /\ remover' \in Remover
    BY <1>16, <1>a, <2>4 DEF InferFails, Moves
  <2>6. fate' \in [Frames -> Fate]
    BY <1>16, <1>a, <2>1, BecomesTyped DEF InferFails, Fate
  <2>7. /\ born' \in [Frames -> 0..MaxGeneration] /\ faults' \in 0..MaxFaults
        /\ lock' \in {"free", "submit", "switch"} /\ generation' \in 0..MaxGeneration
        /\ disabled' \in BOOLEAN /\ made' \in 0..MaxStates /\ current' \in 0..MaxStates
    BY <1>16, <1>a, <2>1 DEF InferFails, SchedulerTypeOK
  <2>8. Placed'
    BY <1>16, <1>a, <2>4, PlacesStay DEF InferFails
  <2>9. OneFuture'
    BY <1>16, <1>a, <2>4, <2>3, FutureGoesOn DEF InferFails
  <2>10. PureEvidence'
    BY <1>16, <1>a, <1>d, <2>4, <2>3, EvidenceStays DEF InferFails
  <2> QED BY <1>16, <1>a, <1>b, <2>1, <2>2, <2>3, <2>4, <2>5, <2>6, <2>7, <2>8, <2>9, <2>10
             DEF InferFails
<1>17. ASSUME NEW j \in jobs, CommitFails(j) PROVE SchedulerInv'
  <2>1. j \in Job /\ j.state \in States /\ j.frame \in Frames /\ born[j.frame] \in Nat
    BY <1>17, <1>a DEF Job
  <2>2. \E n \in {0, 1} :
         cam' = [cam EXCEPT
                   ![j.state].processed = @ + n,
                   ![j.state].votes = IF n = 0 THEN @ ELSE @ \cup {born[j.frame]},
                   ![j.state].errors = IF born[j.frame] = generation THEN @ + 1 ELSE @]
    BY <1>17 DEF CommitFails
  <2>3. /\ cam' \in [States -> Camera]
        /\ \A s \in States :
             /\ cam'[s].busy = cam[s].busy /\ cam'[s].pending = cam[s].pending
             /\ cam'[s].votes \subseteq
                  IF s = j.state THEN cam[s].votes \cup {born[j.frame]} ELSE cam[s].votes
    <3>1. PICK n \in {0, 1} :
            cam' = [cam EXCEPT
                     ![j.state].processed = @ + n,
                     ![j.state].votes = IF n = 0 THEN @ ELSE @ \cup {born[j.frame]},
                     ![j.state].errors = IF born[j.frame] = generation THEN @ + 1 ELSE @]
      BY <2>2
    <3> DEFINE p == cam[j.state].processed + n
               v == IF n = 0 THEN cam[j.state].votes ELSE cam[j.state].votes \cup {born[j.frame]}
               e == IF born[j.frame] = generation THEN cam[j.state].errors + 1
                                                  ELSE cam[j.state].errors
    <3>2. /\ cam[j.state] \in Camera /\ p \in Nat /\ v \in SUBSET Nat /\ e \in Nat
          /\ v \subseteq cam[j.state].votes \cup {born[j.frame]}
      BY <2>1, <1>c DEF Camera
    <3>6. cam' = [cam EXCEPT ![j.state].processed = p, ![j.state].votes = v,
                             ![j.state].errors = e]
      BY <3>1, <2>1, <1>c DEF Camera
    <3> HIDE DEF p, v, e
    <3>3. cam' = [cam EXCEPT ![j.state] = [cam[j.state] EXCEPT !.processed = p, !.votes = v,
                                                               !.errors = e]]
      BY <3>6, <2>1, <1>c DEF Camera
    <3> DEFINE t == [cam[j.state] EXCEPT !.processed = p, !.votes = v, !.errors = e]
    <3>4. /\ t \in Camera /\ t.votes = v
          /\ t.busy = cam[j.state].busy /\ t.pending = cam[j.state].pending
      BY <3>2 DEF Camera
    <3>5. cam' = [cam EXCEPT ![j.state] = t]
      BY <3>3
    <3> HIDE DEF t
    <3> QED BY <3>2, <3>4, <3>5, <2>1, <1>c
  <2>4. PICK k \in Job : k.state = j.state /\ Moves(j, k) /\ k.pc = "ending"
    BY <1>17, <2>1, JobMoves DEF CommitFails
  <2>5. jobs' \subseteq Job /\ submitter' \in Submitter /\ remover' \in Remover
    BY <1>17, <1>a, <2>4 DEF CommitFails, Moves
  <2>6. fate' \in [Frames -> Fate]
    BY <1>17, <1>a, <2>1, BecomesTyped DEF CommitFails, Fate
  <2>7. /\ born' \in [Frames -> 0..MaxGeneration] /\ faults' \in 0..MaxFaults
        /\ lock' \in {"free", "submit", "switch"} /\ generation' \in 0..MaxGeneration
        /\ disabled' \in BOOLEAN /\ made' \in 0..MaxStates /\ current' \in 0..MaxStates
    BY <1>17, <1>a, <2>1 DEF CommitFails, SchedulerTypeOK
  <2>8. Placed'
    BY <1>17, <1>a, <2>4, PlacesStay DEF CommitFails
  <2>9. OneFuture'
    BY <1>17, <1>a, <2>4, <2>3, FutureGoesOn DEF CommitFails
  <2>10. PureEvidence'
    BY <1>17, <1>a, <1>d, <2>4, <2>3, EvidenceStays DEF CommitFails
  <2> QED BY <1>17, <1>a, <1>b, <2>1, <2>2, <2>3, <2>4, <2>5, <2>6, <2>7, <2>8, <2>9, <2>10
             DEF CommitFails
<1>18. ASSUME NEW j \in jobs, End(j) PROVE SchedulerInv'
  <2>1. j \in Job /\ j.state \in States /\ j.frame \in Frames /\ born[j.frame] \in Nat
    BY <1>18, <1>a DEF Job
  <2>2. \/ cam' = [cam EXCEPT ![j.state].busy = FALSE, ![j.state].pending = 0]
        \/ cam' = [cam EXCEPT ![j.state].busy = FALSE]
    BY <1>18 DEF End
  <2>3. /\ [cam[j.state] EXCEPT !.busy = FALSE, !.pending = 0] \in Camera
        /\ [cam[j.state] EXCEPT !.busy = FALSE] \in Camera
    BY <1>c, <1>d, <2>1, Flags
  <2>4. cam' \in [States -> Camera]
    BY <1>c, <2>1, <2>2, <2>3
  <2>5. \A s \in States :
            /\ cam'[s].busy <=> cam[s].busy /\ s # j.state
            /\ cam'[s].votes = cam[s].votes
            /\ cam'[s].pending \in {0, cam[s].pending}
    <3>1. CASE cam' = [cam EXCEPT ![j.state].busy = FALSE, ![j.state].pending = 0]
      BY <1>c, <2>1, <3>1
    <3>2. CASE cam' = [cam EXCEPT ![j.state].busy = FALSE]
      BY <1>c, <2>1, <3>2
    <3> QED BY <2>2, <3>1, <3>2
  <2>6. jobs' \subseteq Job /\ submitter' \in Submitter /\ remover' \in Remover
    BY <1>18, <1>a, <2>1 DEF End
  <2>7. fate' \in [Frames -> Fate]
    BY <1>18, <1>a, <2>1, BecomesTyped DEF End, Fate
  <2>8. /\ born' \in [Frames -> 0..MaxGeneration] /\ faults' \in 0..MaxFaults
        /\ lock' \in {"free", "submit", "switch"} /\ generation' \in 0..MaxGeneration
        /\ disabled' \in BOOLEAN /\ made' \in 0..MaxStates /\ current' \in 0..MaxStates
    BY <1>18, <1>a, <2>1 DEF End, SchedulerTypeOK
  <2>9. Placed'
    BY <1>18, <1>a, <2>1 DEF End, Placed
  <2>10. OneFuture'
    BY <1>18, <1>a, <2>5, FutureEnds DEF End
  <2>11. PureEvidence'
    BY <1>18, <1>a, <1>d, <2>5 DEF End, PureEvidence, Waiting
  <2> QED BY <1>18, <1>a, <1>b, <2>1, <2>2, <2>3, <2>4, <2>5, <2>6, <2>7, <2>8, <2>9, <2>10,
             <2>11 DEF End
<1>19. ASSUME NEW q \in States, Settle(q) PROVE SchedulerInv'
  <2>1. q \in States
    OBVIOUS
  <2>2. cam' = [cam EXCEPT ![q].owes = FALSE]
    BY <1>19 DEF Settle
  <2>3. /\ cam' \in [States -> Camera]
        /\ \A s \in States :
             /\ cam'[s].busy = cam[s].busy
             /\ cam'[s].votes = cam[s].votes
             /\ cam'[s].pending = cam[s].pending
    BY <1>c, <1>d, <2>1, <2>2 DEF Camera
  <2>4. jobs' \subseteq Job /\ submitter' \in Submitter /\ remover' \in Remover
    BY <1>19, <1>a, <2>1 DEF Settle
  <2>5. fate' \in [Frames -> Fate]
    BY <1>19, <1>a, <2>1 DEF Settle
  <2>6. /\ born' \in [Frames -> 0..MaxGeneration] /\ faults' \in 0..MaxFaults
        /\ lock' \in {"free", "submit", "switch"} /\ generation' \in 0..MaxGeneration
        /\ disabled' \in BOOLEAN /\ made' \in 0..MaxStates /\ current' \in 0..MaxStates
    BY <1>19, <1>a, <2>1 DEF Settle, SchedulerTypeOK
  <2>7. Placed'
    BY <1>19, <1>a, <2>1 DEF Settle, Placed
  <2>8. OneFuture'
    BY <1>19, <1>a, <2>1, <2>3, FutureStays DEF Settle
  <2>9. PureEvidence'
    BY <1>19, <1>a, <2>1, <2>3 DEF Settle, PureEvidence, Waiting
  <2> QED BY <1>19, <1>a, <1>b, <2>1, <2>2, <2>3, <2>4, <2>5, <2>6, <2>7, <2>8, <2>9 DEF
             Settle
<1>20. ASSUME NEW g \in 0..MaxGeneration, Promote(g) PROVE SchedulerInv'
  <2>1. current \in States
    BY <1>20, <1>a DEF Promote, Promotable, States
  <2>2. cam' = [cam EXCEPT ![current].pending = 0, ![current].busy = TRUE]
    BY <1>20 DEF Promote
  <2>3. [cam[current] EXCEPT !.pending = 0, !.busy = TRUE] \in Camera
    BY <1>c, <1>d, <2>1, Flags
  <2>4. cam' \in [States -> Camera]
    BY <1>c, <2>1, <2>2, <2>3
  <2>5. \A s \in States :
            /\ cam'[s].busy <=> cam[s].busy \/ s = current
            /\ cam'[s].votes = cam[s].votes
            /\ cam'[s].pending = IF s = current THEN 0 ELSE cam[s].pending
    BY <1>c, <2>1, <2>2
  <2>6. jobs' \subseteq Job /\ submitter' \in Submitter /\ remover' \in Remover
    <3>1. cam[current].pending \in Frames
      BY <1>20, <1>c, <2>1 DEF Promote, Promotable, Camera
    <3>2. [state |-> current, frame |-> cam[current].pending, pc |-> "queued"] \in Job
      BY <2>1, <3>1 DEF Job
    <3> QED BY <1>20, <1>a, <3>2 DEF Promote
  <2>7. fate' \in [Frames -> Fate]
    BY <1>20, <1>a, <2>1, BecomesTyped DEF Promote, Fate
  <2>8. /\ born' \in [Frames -> 0..MaxGeneration] /\ faults' \in 0..MaxFaults
        /\ lock' \in {"free", "submit", "switch"} /\ generation' \in 0..MaxGeneration
        /\ disabled' \in BOOLEAN /\ made' \in 0..MaxStates /\ current' \in 0..MaxStates
    BY <1>20, <1>a, <2>1 DEF Promote, SchedulerTypeOK
  <2>9. Placed'
    BY <1>20, <1>a, <2>1 DEF Promote, Placed
  <2>10. PICK k : k.state = current /\ jobs' = jobs \cup {k}
    BY <1>20 DEF Promote
  <2>11. /\ \A j \in jobs : j.state # k.state
         /\ submitter.pc = "enqueue" => submitter.state # k.state
    BY <1>20, <1>a, <2>1, <2>10 DEF Promote, OneFuture, Promotable
  <2>12. OneFuture'
    <3>1. submitter' = submitter
      BY <1>20 DEF Promote
    <3>2. \A s \in States : cam'[s].busy <=> cam[s].busy \/ s = k.state
      BY <2>5, <2>10
    <3> QED BY <1>a, <2>10, <2>11, <3>1, <3>2, FutureBegins
  <2>13. PureEvidence'
    BY <1>20, <1>a, <2>1, <2>5 DEF Promote, Waiting, PureEvidence
  <2> QED BY <1>20, <1>a, <1>b, <2>1, <2>2, <2>3, <2>4, <2>5, <2>6, <2>7, <2>8, <2>9, <2>10,
             <2>11, <2>12, <2>13 DEF Promote
<1>21. ASSUME NEW g \in 0..MaxGeneration, PromoteFails(g) PROVE SchedulerInv'
  <2>1. current \in States
    BY <1>21, <1>a DEF PromoteFails, Promotable, States
  <2>2. cam' = [cam EXCEPT ![current].pending = 0, ![current].errors = @ + 1]
    BY <1>21 DEF PromoteFails
  <2>3. /\ cam' \in [States -> Camera]
        /\ \A s \in States :
             /\ cam'[s].busy = cam[s].busy
             /\ cam'[s].votes = cam[s].votes
             /\ cam'[s].pending = IF s = current THEN 0 ELSE cam[s].pending
    BY <1>c, <1>d, <2>1, <2>2 DEF Camera
  <2>4. jobs' \subseteq Job /\ submitter' \in Submitter /\ remover' \in Remover
    BY <1>21, <1>a, <2>1 DEF PromoteFails
  <2>5. fate' \in [Frames -> Fate]
    BY <1>21, <1>a, <2>1, BecomesTyped DEF PromoteFails, Fate
  <2>6. /\ born' \in [Frames -> 0..MaxGeneration] /\ faults' \in 0..MaxFaults
        /\ lock' \in {"free", "submit", "switch"} /\ generation' \in 0..MaxGeneration
        /\ disabled' \in BOOLEAN /\ made' \in 0..MaxStates /\ current' \in 0..MaxStates
    BY <1>21, <1>a, <2>1 DEF PromoteFails, SchedulerTypeOK
  <2>7. Placed'
    BY <1>21, <1>a, <2>1 DEF PromoteFails, Placed
  <2>8. OneFuture'
    BY <1>21, <1>a, <2>1, <2>3, FutureStays DEF PromoteFails
  <2>9. PureEvidence'
    BY <1>21, <1>a, <2>1, <2>3 DEF PromoteFails, Waiting, PureEvidence
  <2> QED BY <1>21, <1>a, <1>b, <2>1, <2>2, <2>3, <2>4, <2>5, <2>6, <2>7, <2>8, <2>9 DEF
             PromoteFails
<1>22. CASE RemovePop
  <2>1. jobs' \subseteq Job /\ submitter' \in Submitter /\ remover' \in Remover
    BY <1>22, <1>a DEF RemovePop, Remover
  <2>2. fate' \in [Frames -> Fate]
    BY <1>22, <1>a DEF RemovePop
  <2>3. /\ born' \in [Frames -> 0..MaxGeneration] /\ faults' \in 0..MaxFaults
        /\ lock' \in {"free", "submit", "switch"} /\ generation' \in 0..MaxGeneration
        /\ disabled' \in BOOLEAN /\ made' \in 0..MaxStates /\ current' \in 0..MaxStates
    BY <1>22, <1>a DEF RemovePop, SchedulerTypeOK
  <2>4. Placed'
    BY <1>22, <1>a DEF RemovePop, Free, Placed
  <2>5. OneFuture'
    BY <1>22, <1>a, FutureStays DEF RemovePop
  <2>6. PureEvidence'
    BY <1>22, <1>a DEF RemovePop, PureEvidence
  <2> QED BY <1>22, <1>a, <1>b, <2>1, <2>2, <2>3, <2>4, <2>5, <2>6 DEF RemovePop
<1>23. CASE RemoveRetires
  <2>1. remover.state \in States
    BY <1>23, <1>a DEF RemoveRetires, Placed, States
  <2>2. cam' = [cam EXCEPT ![remover.state].retired = TRUE, ![remover.state].pending = 0]
    BY <1>23 DEF RemoveRetires
  <2>3. [cam[remover.state] EXCEPT !.retired = TRUE, !.pending = 0] \in Camera
    BY <1>c, <1>d, <2>1, Flags
  <2>4. cam' \in [States -> Camera]
    BY <1>c, <2>1, <2>2, <2>3
  <2>5. \A s \in States :
            /\ cam'[s].busy = cam[s].busy
            /\ cam'[s].votes = cam[s].votes
            /\ cam'[s].pending = IF s = remover.state THEN 0 ELSE cam[s].pending
    BY <1>c, <2>1, <2>2
  <2>6. jobs' \subseteq Job /\ submitter' \in Submitter /\ remover' \in Remover
    BY <1>23, <1>a, <2>1 DEF RemoveRetires, Remover
  <2>7. fate' \in [Frames -> Fate]
    BY <1>23, <1>a, <2>1, BecomesTyped DEF RemoveRetires, Fate
  <2>8. /\ born' \in [Frames -> 0..MaxGeneration] /\ faults' \in 0..MaxFaults
        /\ lock' \in {"free", "submit", "switch"} /\ generation' \in 0..MaxGeneration
        /\ disabled' \in BOOLEAN /\ made' \in 0..MaxStates /\ current' \in 0..MaxStates
    BY <1>23, <1>a, <2>1 DEF RemoveRetires, SchedulerTypeOK
  <2>9. Placed'
    BY <1>23, <1>a, <2>1 DEF RemoveRetires, Placed
  <2>10. OneFuture'
    BY <1>23, <1>a, <2>1, <2>5, FutureStays DEF RemoveRetires
  <2>11. PureEvidence'
    BY <1>23, <1>a, <2>1, <2>5 DEF RemoveRetires, Waiting, PureEvidence, States
  <2> QED BY <1>23, <1>a, <1>b, <2>1, <2>2, <2>3, <2>4, <2>5, <2>6, <2>7, <2>8, <2>9, <2>10,
             <2>11 DEF RemoveRetires
<1>24. ASSUME NEW flushed \in BOOLEAN, RemoveEnds(flushed) PROVE SchedulerInv'
  <2>1. jobs' \subseteq Job /\ submitter' \in Submitter /\ remover' \in Remover
    BY <1>24, <1>a DEF RemoveEnds, NoRemove, Remover
  <2>2. fate' \in [Frames -> Fate]
    BY <1>24, <1>a DEF RemoveEnds
  <2>3. /\ born' \in [Frames -> 0..MaxGeneration] /\ faults' \in 0..MaxFaults
        /\ lock' \in {"free", "submit", "switch"} /\ generation' \in 0..MaxGeneration
        /\ disabled' \in BOOLEAN /\ made' \in 0..MaxStates /\ current' \in 0..MaxStates
    BY <1>24, <1>a DEF RemoveEnds, SchedulerTypeOK
  <2>4. Placed'
    BY <1>24, <1>a DEF RemoveEnds, NoRemove, Placed
  <2>5. OneFuture'
    BY <1>24, <1>a, FutureStays DEF RemoveEnds
  <2>6. PureEvidence'
    BY <1>24, <1>a DEF RemoveEnds, PureEvidence, Waiting
  <2> QED BY <1>24, <1>a, <1>b, <2>1, <2>2, <2>3, <2>4, <2>5, <2>6 DEF RemoveEnds
<1>25. CASE Disable
  <2>1. jobs' \subseteq Job /\ submitter' \in Submitter /\ remover' \in Remover
    BY <1>25, <1>a DEF Disable
  <2>2. fate' \in [Frames -> Fate]
    BY <1>25, <1>a DEF Disable
  <2>3. /\ born' \in [Frames -> 0..MaxGeneration] /\ faults' \in 0..MaxFaults
        /\ lock' \in {"free", "submit", "switch"} /\ generation' \in 0..MaxGeneration
        /\ disabled' \in BOOLEAN /\ made' \in 0..MaxStates /\ current' \in 0..MaxStates
    BY <1>25, <1>a DEF Disable, SchedulerTypeOK
  <2>4. Placed'
    BY <1>25, <1>a DEF Disable, Placed
  <2>5. OneFuture'
    BY <1>25, <1>a, FutureStays DEF Disable
  <2>6. PureEvidence'
    BY <1>25, <1>a DEF Disable, PureEvidence, Waiting
  <2> QED BY <1>25, <1>a, <1>b, <2>1, <2>2, <2>3, <2>4, <2>5, <2>6 DEF Disable
<1>26. CASE Restart
  <2>1. cam' \in [States -> Camera]
    BY <1>26, <1>a DEF Restart, Fresh, Camera
  <2>2. jobs' \subseteq Job /\ submitter' \in Submitter /\ remover' \in Remover
    BY <1>26, <1>a DEF Restart, NoSubmit, NoRemove, Submitter, Remover
  <2>3. fate' \in [Frames -> Fate]
    BY <1>26, <1>a, BecomesTyped DEF Restart, Fate
  <2>4. /\ born' \in [Frames -> 0..MaxGeneration] /\ faults' \in 0..MaxFaults
        /\ lock' \in {"free", "submit", "switch"} /\ generation' \in 0..MaxGeneration
        /\ disabled' \in BOOLEAN /\ made' \in 0..MaxStates /\ current' \in 0..MaxStates
    BY <1>26, <1>a DEF Restart, SchedulerTypeOK
  <2>5. Placed'
    BY <1>26, <1>a DEF Restart, NoSubmit, NoRemove, Placed
  <2>6. OneFuture'
    BY <1>26, <1>a, <2>1 DEF Restart, Fresh, NoSubmit, OneFuture
  <2>7. PureEvidence'
    BY <1>26, <1>a, <2>1 DEF Restart, PureEvidence
  <2> QED BY <1>26, <1>a, <1>b, <2>1, <2>2, <2>3, <2>4, <2>5, <2>6, <2>7 DEF Restart
<1>27. CASE UNCHANGED schedulerVars
  BY <1>27 DEF schedulerVars, SchedulerInv, SchedulerTypeOK, Placed, OneFuture,
     PureEvidence, Waiting
<1> QED
  BY <1>1, <1>2, <1>3, <1>4, <1>5, <1>6, <1>7, <1>8, <1>9, <1>10, <1>11, <1>12, <1>13,
     <1>14, <1>15, <1>16, <1>17, <1>18, <1>19, <1>20, <1>21, <1>22, <1>23, <1>24, <1>25,
     <1>26, <1>27 DEF Next, Submission, Switching, Future

\* Types are kept.
THEOREM SchedulerTypeCorrect == Spec => []SchedulerTypeOK
<1>1. SchedulerInv => SchedulerTypeOK
  BY DEF SchedulerInv
<1> QED BY InvInit, InvStep, <1>1, PTL DEF Spec

\* A camera has one future at most, and busy says whether it has it: no frame is
\* processed beside another one of its camera (submit, _claim_latest_payload).
THEOREM OneFutureAlways == Spec => []OneFuture
<1>1. SchedulerInv => OneFuture
  BY DEF SchedulerInv
<1> QED BY InvInit, InvStep, <1>1, PTL DEF Spec

\* No evidence of one detector is used with another, whenever the switch comes
\* (invalidate_model_cache against _process and submit).
THEOREM PureEvidenceAlways == Spec => []PureEvidence
<1>1. SchedulerInv => PureEvidence
  BY DEF SchedulerInv
<1> QED BY InvInit, InvStep, <1>1, PTL DEF Spec
------------------------------------------------------------------------------
VideoInv == VideoTypeOK /\ SchedulerInv /\ SingleStream
------------------------------------------------------------------------------
\* Every step under the streams is a step of the scheduler, or none of its own.
LEMMA StepRefines == VideoInv /\ [VideoNext]_vars => [Next]_schedulerVars
<1> SUFFICES ASSUME VideoInv, [VideoNext]_vars PROVE [Next]_schedulerVars
  OBVIOUS
<1>a. /\ stream \in [Streams -> CameraStream] /\ generation \in 0..MaxGeneration
      /\ Frames = 1..MaxFrames /\ MaxFrames \in Nat
  BY SchedulerAssumption DEF VideoInv, VideoTypeOK, SchedulerTypeOK, Frames
<1>1. ASSUME NEW r \in Requests, Read(r) \/ Get(r) PROVE UNCHANGED schedulerVars
  BY <1>1 DEF Read, Get
<1>2. CASE Remove \/ JoinTimesOut
  BY <1>2 DEF Remove, JoinTimesOut
<1>3. CASE WorkerStops
  BY <1>3 DEF WorkerStops, Next
<1>4. ASSUME NEW x \in Streams, Decoding(x), ~DrainPromotes(x) PROVE UNCHANGED schedulerVars
  BY <1>4 DEF Decoding, MarkStarted, MarkFails, BeginPass, Queue, DecodeFails, EndOfFile,
     HandedOff, PassFails, Drained, Complete, ClaimLost, DecoderExits
<1>5. ASSUME NEW x \in Streams, DrainPromotes(x) PROVE Next
  <2> DEFINE g == stream[x].token.generation
  <2>1. Promote(g) \/ PromoteFails(g)
    BY <1>5 DEF DrainPromotes
  <2>2. generation = g
    BY <2>1 DEF Promote, PromoteFails, Promotable
  <2> QED BY <2>1, <2>2, <1>a DEF Next
<1>6. ASSUME NEW x \in Streams, TakeFrame(x) PROVE Next
  <2>1. stream[x].slot \in Frames
    BY <1>6, <1>a DEF TakeFrame, CameraStream
  <2> QED BY <1>6, <2>1 DEF TakeFrame, Next
<1>7. ASSUME NEW x \in Streams, SubmitRaises(x) PROVE Next
  BY <1>7 DEF SubmitRaises, Next
<1>8. ASSUME NEW x \in Streams, SubmitterExits(x) PROVE UNCHANGED schedulerVars
  BY <1>8 DEF SubmitterExits
<1>9. CASE Submission \/ Switching \/ Disable
  BY <1>9 DEF Next
<1>10. ASSUME NEW j \in jobs, Future(j) PROVE Next
  BY <1>10 DEF Next
<1>11. ASSUME NEW s \in States, Settle(s) PROVE Next
  BY <1>11 DEF Next
<1>12. CASE Crash
  BY <1>12 DEF Crash, Next
<1>13. CASE UNCHANGED vars
  BY <1>13 DEF vars
<1> QED
  BY <1>1, <1>2, <1>3, <1>4, <1>5, <1>6, <1>7, <1>8, <1>9, <1>10, <1>11, <1>12, <1>13
     DEF VideoNext
------------------------------------------------------------------------------
\* A step of the threads of a stream, which wakes none, keeps the types if what
\* it changes keeps its own, and leaves at most the managed stream alive.
LEMMA StreamStep ==
    ASSUME VideoTypeOK, SingleStream, SchedulerTypeOK', UNCHANGED onlyStream,
           stream' \in [Streams -> CameraStream],
           \A y \in Streams : Alive(y)' => Alive(y),
           mark' \in {"none", "started", "completed"},
           decoded' \in [Frames -> 0..opened], replaced' \subseteq Frames,
           failures' \in 0..MaxFaults
    PROVE  VideoTypeOK' /\ SingleStream'
<1>1. /\ requests' = requests /\ manager' = manager /\ managed' = managed
      /\ opened' = opened /\ lives' = lives /\ crashes' = crashes
  BY DEF onlyStream
<1>2. VideoTypeOK'
  BY <1>1 DEF VideoTypeOK
<1>3. SingleStream'
  BY <1>1 DEF SingleStream
<1> QED BY <1>2, <1>3

\* A failing step of a stream keeps within the bound.
LEMMA FailuresBounded ==
    ASSUME VideoTypeOK, MayFail
    PROVE  failures + 1 \in 0..MaxFaults
BY SchedulerAssumption DEF VideoTypeOK, SchedulerTypeOK, MayFail

\* The objects that creation and removal leave behind are typed; what was not
\* started and what is gone has no live thread.
LEMMA FreshStreams ==
    /\ Unused \in CameraStream /\ Gone \in CameraStream
    /\ \A b \in BOOLEAN : Opened(b) \in CameraStream
    /\ Unused.decoder = "off" /\ Unused.submits = FALSE
    /\ Gone.decoder = "dead" /\ Gone.submits = FALSE
<1> USE SchedulerAssumption DEF CameraStream, Token
<1>1. NoToken \in Token
  BY DEF NoToken
<1>2. Unused \in CameraStream /\ Unused.decoder = "off" /\ Unused.submits = FALSE
  BY <1>1 DEF Unused
<1>3. Gone \in CameraStream /\ Gone.decoder = "dead" /\ Gone.submits = FALSE
  BY <1>2 DEF Gone
<1>4. ASSUME NEW b \in BOOLEAN PROVE Opened(b) \in CameraStream
  BY <1>2 DEF Opened
<1> QED BY <1>2, <1>3, <1>4
------------------------------------------------------------------------------
\* The invariant holds before any request comes.
LEMMA VideoInvInit == VideoInit => VideoInv
<1> SUFFICES ASSUME VideoInit PROVE VideoInv
  OBVIOUS
<1>1. SchedulerInv
  BY InvInit DEF VideoInit
<1>2. VideoTypeOK
  BY <1>1, FreshStreams, VideoAssumption, SchedulerAssumption
     DEF VideoInit, VideoTypeOK, SchedulerInv, Frames
<1>3. SingleStream
  BY FreshStreams DEF VideoInit, SingleStream, Alive
<1> QED BY <1>1, <1>2, <1>3 DEF VideoInv

\* A stream whose fields change to values of their types is a stream.
LEMMA FieldsTyped ==
    ASSUME NEW t \in CameraStream
    PROVE  /\ [t EXCEPT !.failed = TRUE] \in CameraStream
           /\ [t EXCEPT !.submits = FALSE] \in CameraStream
           /\ \A f \in 0..MaxFrames :
                /\ [t EXCEPT !.slot = f] \in CameraStream
                /\ [t EXCEPT !.stopping = TRUE, !.slot = f] \in CameraStream
           /\ \A k \in Token :
                /\ [t EXCEPT !.decoder = "shown", !.token = k] \in CameraStream
                /\ \A f \in 0..MaxFrames :
                     [t EXCEPT !.decoder = "pass", !.slot = f, !.token = k] \in CameraStream
BY DEF CameraStream

\* What the manager does to the streams: it drops the old one when its threads
\* are dead, and may put a new one in its place.
LEMMA CreateKeeps ==
    ASSUME VideoTypeOK, SingleStream, NEW started \in BOOLEAN, NEW old,
           old = managed, managed = 0 \/ ~Alive(managed), Create(started, old)
    PROVE  /\ managed' \in 0..opened' /\ opened' \in 0..MaxStreams
           /\ opened <= opened'
           /\ stream' \in [Streams -> CameraStream]
           /\ lives' \in [Streams -> 0..MaxCrashes]
           /\ SingleStream'
<1> USE VideoAssumption
<1>a. /\ stream \in [Streams -> CameraStream] /\ opened \in 0..MaxStreams
      /\ lives \in [Streams -> 0..MaxCrashes] /\ crashes \in 0..MaxCrashes
      /\ managed \in 0..opened
  BY DEF VideoTypeOK
<1>b. \A x \in Streams : ~Alive(x)
  BY <1>a DEF SingleStream, Streams
<1>1. CASE Drop(old)
  <2>1. stream' \in [Streams -> CameraStream] /\ managed' = 0 /\ opened' = opened /\ lives' = lives
    BY <1>1, <1>a, FreshStreams DEF Drop
  <2>2. \A x \in Streams : ~Alive(x)'
    BY <1>1, <1>a, <1>b, FreshStreams DEF Drop, Alive
  <2> QED BY <2>1, <2>2, <1>a DEF SingleStream
<1>2. CASE ~Drop(old)
  <2>1. /\ opened < MaxStreams /\ opened' = opened + 1 /\ managed' = opened + 1
        /\ stream' = [x \in Streams |-> IF x = opened + 1 THEN Opened(started)
                                        ELSE IF x = old THEN Gone ELSE stream[x]]
        /\ lives' = [lives EXCEPT ![opened + 1] = crashes]
    BY <1>2 DEF Create
  <2>2. stream' \in [Streams -> CameraStream]
    BY <2>1, <1>a, FreshStreams
  <2>3. lives' \in [Streams -> 0..MaxCrashes]
    BY <2>1, <1>a
  <2>4. \A x \in Streams : x # managed' => ~Alive(x)'
    BY <2>1, <1>a, <1>b, FreshStreams DEF Alive
  <2> QED BY <2>1, <2>2, <2>3, <2>4, <1>a DEF SingleStream
<1> QED BY <1>1, <1>2

\* The streams while a request to stop is latched, and while the manager only
\* answers: the same threads live.
LEMMA StopKeeps ==
    ASSUME VideoTypeOK, SingleStream, NEW who, RequestStop(who)
    PROVE  /\ stream' \in [Streams -> CameraStream] /\ SingleStream'
           /\ managed' = managed /\ opened' = opened /\ lives' = lives /\ manager' = who
<1>1. stream \in [Streams -> CameraStream]
  BY DEF VideoTypeOK
<1>2. stream' \in [Streams -> CameraStream]
  <2>1. 0 \in 0..MaxFrames
    BY SchedulerAssumption
  <2>2. stream' = [stream EXCEPT ![managed] = [stream[managed] EXCEPT !.stopping = TRUE, !.slot = 0]]
    BY DEF RequestStop
  <2>3. CASE managed \in Streams
    <3>1. [stream[managed] EXCEPT !.stopping = TRUE, !.slot = 0] \in CameraStream
      BY <1>1, <2>1, <2>3, FieldsTyped
    <3> QED BY <1>1, <2>2, <3>1
  <2>4. CASE managed \notin Streams
    BY <1>1, <2>2, <2>4
  <2> QED BY <2>3, <2>4
<1>3. \A x \in Streams : Alive(x)' => Alive(x)
  BY <1>1 DEF RequestStop, Alive, CameraStream
<1> QED BY <1>2, <1>3 DEF RequestStop, SingleStream

\* A request that is answered is typed again.
LEMMA AnsweredTyped ==
    ASSUME requests \in [Requests -> [reading: BOOLEAN, started: BOOLEAN]],
           NEW r, Answered(r)
    PROVE  requests' \in [Requests -> [reading: BOOLEAN, started: BOOLEAN]]
BY DEF Answered

\* Every step keeps the invariant.
LEMMA VideoInvStep == VideoInv /\ [VideoNext]_vars => VideoInv'
<1> SUFFICES ASSUME VideoInv, [VideoNext]_vars PROVE VideoInv'
  OBVIOUS
<1> USE VideoAssumption
<1>a. SchedulerInv'
  BY StepRefines, InvStep DEF VideoInv
<1>b. SchedulerTypeOK' /\ VideoTypeOK /\ SingleStream
  BY <1>a DEF SchedulerInv, VideoInv
<1>c. /\ mark \in {"none", "started", "completed"}
      /\ requests \in [Requests -> [reading: BOOLEAN, started: BOOLEAN]]
      /\ manager \in Requests \cup {"idle", "remove"}
      /\ managed \in 0..opened /\ opened \in 0..MaxStreams
      /\ stream \in [Streams -> CameraStream] /\ decoded \in [Frames -> 0..opened]
      /\ replaced \subseteq Frames /\ failures \in 0..MaxFaults
      /\ lives \in [Streams -> 0..MaxCrashes] /\ crashes \in 0..MaxCrashes
  BY <1>b DEF VideoTypeOK
<1> SUFFICES VideoTypeOK' /\ SingleStream'
  BY <1>a DEF VideoInv
<1>1. ASSUME NEW r \in Requests, Read(r) PROVE VideoTypeOK' /\ SingleStream'
  <2>1. requests' \in [Requests -> [reading: BOOLEAN, started: BOOLEAN]]
    BY <1>1, <1>c DEF Read
  <2> QED BY <1>1, <1>b, <1>c, <2>1 DEF Read, VideoTypeOK, SingleStream, Alive
<1>2. ASSUME NEW r \in Requests, Get(r) PROVE VideoTypeOK' /\ SingleStream'
  <2>a. UNCHANGED <<mark, decoded, replaced, failures, crashes>>
    BY <1>2 DEF Get
  <2>1. CASE Answered(r) /\ UNCHANGED <<manager, managed, stream, opened, lives>>
    BY <2>1, <2>a, <1>b, <1>c, AnsweredTyped DEF VideoTypeOK, SingleStream, Alive
  <2>2. CASE managed = 0 /\ Create(requests[r].started, 0) /\ Answered(r) /\ UNCHANGED manager
    <3>1. requests[r].started \in BOOLEAN
      BY <1>c
    <3>2. /\ managed' \in 0..opened' /\ opened' \in 0..MaxStreams /\ opened <= opened'
          /\ stream' \in [Streams -> CameraStream]
          /\ lives' \in [Streams -> 0..MaxCrashes] /\ SingleStream'
      BY <2>2, <3>1, <1>b, CreateKeeps
    <3>3. decoded' \in [Frames -> 0..opened']
      BY <3>2, <2>a, <1>c
    <3> QED BY <2>2, <2>a, <3>2, <3>3, <1>b, <1>c, AnsweredTyped DEF VideoTypeOK
  <2>3. CASE RequestStop(r)
    <3>1. UNCHANGED requests
      BY <2>3 DEF RequestStop
    <3> QED BY <2>3, <2>a, <3>1, <1>b, <1>c, StopKeeps DEF VideoTypeOK
  <2> QED BY <1>2, <2>1, <2>2, <2>3 DEF Get
<1>3. CASE Remove
  <2>1. RequestStop("remove") /\ UNCHANGED <<mark, decoded, replaced, failures, crashes, requests>>
    BY <1>3 DEF Remove, RequestStop
  <2> QED BY <2>1, <1>b, <1>c, StopKeeps DEF VideoTypeOK
<1>4. ASSUME GivesUp PROVE VideoTypeOK' /\ SingleStream'
  <2>1. requests' \in [Requests -> [reading: BOOLEAN, started: BOOLEAN]]
    BY <1>4, <1>c, AnsweredTyped DEF GivesUp
  <2> QED BY <1>4, <2>1, <1>b, <1>c DEF GivesUp, VideoTypeOK, SingleStream, Alive
<1>5. CASE JoinTimesOut
  BY <1>4, <1>5 DEF JoinTimesOut
<1>6. ASSUME Stopped, Dead(managed) PROVE VideoTypeOK' /\ SingleStream'
  <2>a. manager' = "idle" /\ UNCHANGED <<mark, decoded, replaced, failures, crashes>>
    BY <1>6 DEF Stopped
  <2>b. ~Alive(managed)
    BY <1>6 DEF Dead, Alive
  <2>1. CASE manager \in Requests
    <3>1. Create(requests[manager].started, managed) /\ Answered(manager)
      BY <1>6, <2>1 DEF Stopped
    <3>2. requests[manager].started \in BOOLEAN
      BY <2>1, <1>c
    <3>3. /\ managed' \in 0..opened' /\ opened' \in 0..MaxStreams /\ opened <= opened'
          /\ stream' \in [Streams -> CameraStream]
          /\ lives' \in [Streams -> 0..MaxCrashes] /\ SingleStream'
      BY <2>b, <3>1, <3>2, <1>b, CreateKeeps
    <3>4. decoded' \in [Frames -> 0..opened']
      BY <3>3, <2>a, <1>c
    <3> QED BY <2>a, <3>1, <3>3, <3>4, <1>b, <1>c, AnsweredTyped DEF VideoTypeOK
  <2>2. CASE manager \notin Requests
    <3>1. Drop(managed) /\ UNCHANGED requests
      BY <1>6, <2>2 DEF Stopped
    <3>2. stream' \in [Streams -> CameraStream] /\ UNCHANGED <<opened, lives>> /\ managed' = 0
      BY <3>1, <1>c, FreshStreams DEF Drop
    <3>3. \A x \in Streams : Alive(x)' => Alive(x) /\ x # managed
      BY <3>1, <1>c, FreshStreams DEF Drop, Alive
    <3>4. SingleStream'
      BY <3>3, <1>b DEF SingleStream
    <3> QED BY <2>a, <3>1, <3>2, <3>4, <1>b, <1>c DEF VideoTypeOK
  <2> QED BY <2>1, <2>2
<1>7. ASSUME UNCHANGED videoVars PROVE VideoTypeOK' /\ SingleStream'
  BY <1>7, <1>b, <1>c DEF videoVars, VideoTypeOK, SingleStream, Alive
<1>8. CASE WorkerStops
  <2>1. Dead(managed) /\ (Stopped \/ GivesUp \/ UNCHANGED videoVars)
    BY <1>8 DEF WorkerStops
  <2> QED BY <2>1, <1>4, <1>6, <1>7
<1>9. ASSUME NEW x \in Streams, Decoding(x) PROVE VideoTypeOK' /\ SingleStream'
  <2>a. UNCHANGED onlyStream
    BY <1>9 DEF Decoding, MarkStarted, MarkFails, BeginPass, Queue, DecodeFails, EndOfFile,
       HandedOff, PassFails, DrainPromotes, OnWorker, videoVars, Drained, Complete, ClaimLost,
       DecoderExits, onlyStream
  <2>b. NoToken \in Token
    BY DEF NoToken, Token
  <2>c. stream' \in [Streams -> CameraStream]
    <3>1. CASE BeginPass(x)
      <4>1. /\ cam \in [States -> Camera] /\ current \in 0..MaxStates /\ generation \in Nat
        BY <1>b, SchedulerAssumption DEF VideoTypeOK, SchedulerTypeOK
      <4>2. PICK f \in Frames, k \in Token :
              stream' = [stream EXCEPT ![x] =
                           [stream[x] EXCEPT !.decoder = "pass", !.slot = f, !.token = k]]
        <5> DEFINE new == [generation |-> generation,
                           processed |-> IF current = 0 THEN 0 ELSE cam[current].processed,
                           errors    |-> IF current = 0 THEN 0 ELSE cam[current].errors,
                           refused   |-> IF current = 0 THEN 0 ELSE cam[current].refused]
        <5>1. new \in Token
          BY <4>1 DEF States, Camera, Token
        <5>2. \E f \in Frames :
                stream' = [stream EXCEPT ![x] =
                             [stream[x] EXCEPT !.decoder = "pass", !.slot = f, !.token = new]]
          <6>1. PICK f \in Frames :
                  stream' = [stream EXCEPT ![x].decoder = "pass", ![x].slot = f, ![x].token = new]
            BY <3>1, Zenon DEF BeginPass
          <6> HIDE DEF new
          <6> QED BY <6>1
        <5> HIDE DEF new
        <5> QED BY <5>1, <5>2
      <4>3. [stream[x] EXCEPT !.decoder = "pass", !.slot = f, !.token = k] \in CameraStream
        <5>1. f \in 0..MaxFrames
          BY SchedulerAssumption DEF Frames
        <5> QED BY <5>1, <1>c, FieldsTyped
      <4> QED BY <4>2, <4>3, <1>c
    <3>2. CASE Queue(x)
      <4>1. PICK f \in Frames : stream' = [stream EXCEPT ![x] = [stream[x] EXCEPT !.slot = f]]
        BY <3>2 DEF Queue
      <4>2. [stream[x] EXCEPT !.slot = f] \in CameraStream
        <5>1. f \in 0..MaxFrames
          BY SchedulerAssumption DEF Frames
        <5> QED BY <5>1, <1>c, FieldsTyped
      <4> QED BY <4>1, <4>2, <1>c
    <3>3. CASE Interrupt(x)
      <4>1. stream' = [stream EXCEPT ![x] =
                         [stream[x] EXCEPT !.decoder = "shown", !.token = NoToken]]
        BY <3>3 DEF Interrupt
      <4>2. [stream[x] EXCEPT !.decoder = "shown", !.token = NoToken] \in CameraStream
        BY <1>c, <2>b, FieldsTyped
      <4> QED BY <4>1, <4>2, <1>c
    <3>4. ASSUME NEW pc \in {"marked", "handoff", "drain", "claim", "dead"}, GoesTo(x, pc)
          PROVE stream' \in [Streams -> CameraStream]
      BY <3>4, <1>c DEF GoesTo, CameraStream
    <3>5. CASE DrainPromotes(x)
      BY <3>5, <1>c DEF DrainPromotes, OnWorker, videoVars
    <3> QED BY <1>9, <3>1, <3>2, <3>3, <3>4, <3>5
        DEF Decoding, MarkStarted, MarkFails, DecodeFails, EndOfFile, HandedOff, PassFails,
            Drained, Complete, ClaimLost, DecoderExits
  <2>d. \A y \in Streams : Alive(y)' => Alive(y)
    <3>1. CASE DrainPromotes(x)
      BY <3>1 DEF DrainPromotes, OnWorker, videoVars, Alive
    <3>2. CASE ~DrainPromotes(x)
      <4>1. stream[x].decoder \notin {"off", "dead"}
        BY <1>9, <3>2 DEF Decoding, At, MarkStarted, MarkFails, BeginPass, Queue, DecodeFails,
           EndOfFile, HandedOff, PassFails, Drained, Complete, ClaimLost, DecoderExits
      <4>2. \A y \in Streams \ {x} : stream'[y] = stream[y]
        BY <1>9, <3>2, <1>c DEF Decoding, MarkStarted, MarkFails, BeginPass, Queue, DecodeFails,
           EndOfFile, HandedOff, PassFails, Drained, Complete, ClaimLost, DecoderExits,
           GoesTo, Interrupt
      <4> QED BY <4>1, <4>2 DEF Alive
    <3> QED BY <3>1, <3>2
  <2>e. mark' \in {"none", "started", "completed"} /\ failures' \in 0..MaxFaults
    BY <1>9, <1>b, <1>c, FailuresBounded DEF Decoding, MarkStarted, MarkFails, BeginPass, Queue,
       DecodeFails, EndOfFile, HandedOff, PassFails, DrainPromotes, OnWorker, videoVars, Drained,
       Complete, ClaimLost, DecoderExits
  <2>f. decoded' \in [Frames -> 0..opened] /\ replaced' \subseteq Frames
    <3>1. CASE BeginPass(x) \/ Queue(x)
      <4>1. Alive(x)
        BY <3>1 DEF BeginPass, Queue, At, Alive
      <4>2. x \in 0..opened
        BY <4>1, <1>b, <1>c DEF SingleStream
      <4>3. {stream[x].slot} \ {0} \subseteq Frames
        BY <1>c, SchedulerAssumption DEF CameraStream, Frames
      <4>4. decoded' \in [Frames -> 0..opened]
        BY <3>1, <4>2, <1>c DEF BeginPass, Queue
      <4>5. replaced' \subseteq Frames
        BY <3>1, <4>3, <1>c DEF BeginPass, Queue
      <4> QED BY <4>4, <4>5
    <3>2. CASE ~(BeginPass(x) \/ Queue(x))
      BY <1>9, <3>2, <1>c DEF Decoding, MarkStarted, MarkFails, DecodeFails, EndOfFile, HandedOff,
         PassFails, DrainPromotes, OnWorker, videoVars, Drained, Complete, ClaimLost, DecoderExits
    <3> QED BY <3>1, <3>2
  <2> QED BY <2>a, <2>c, <2>d, <2>e, <2>f, <1>b, StreamStep
<1>10. ASSUME NEW x \in Streams, TakeFrame(x) \/ SubmitRaises(x) \/ SubmitterExits(x)
       PROVE VideoTypeOK' /\ SingleStream'
  <2>1. UNCHANGED onlyStream /\ UNCHANGED <<mark, failures, decoded, replaced>>
    BY <1>10 DEF TakeFrame, SubmitRaises, SubmitterExits
  <2>2. PICK t \in {[stream[x] EXCEPT !.slot = 0], [stream[x] EXCEPT !.failed = TRUE],
                    [stream[x] EXCEPT !.submits = FALSE]} : stream' = [stream EXCEPT ![x] = t]
    BY <1>10 DEF TakeFrame, SubmitRaises, SubmitterExits
  <2>3. t \in CameraStream
    <3>1. 0 \in 0..MaxFrames /\ stream[x] \in CameraStream
      BY <1>c, SchedulerAssumption
    <3>2. CASE t = [stream[x] EXCEPT !.slot = 0]
      BY <3>1, <3>2, FieldsTyped
    <3>3. CASE t = [stream[x] EXCEPT !.failed = TRUE]
      BY <3>1, <3>3, FieldsTyped
    <3>4. CASE t = [stream[x] EXCEPT !.submits = FALSE]
      BY <3>1, <3>4, FieldsTyped
    <3> QED BY <2>2, <3>2, <3>3, <3>4
  <2>4. t.decoder = stream[x].decoder /\ (t.submits => stream[x].submits)
    BY <1>c DEF CameraStream
  <2>5. stream' \in [Streams -> CameraStream] /\ \A y \in Streams : Alive(y)' => Alive(y)
    BY <2>2, <2>3, <2>4, <1>c DEF Alive
  <2> QED BY <2>1, <2>5, <1>b, <1>c, StreamStep
<1>11. CASE Crash
  <2>1. stream' \in [Streams -> CameraStream] /\ \A x \in Streams : ~Alive(x)'
    BY <1>11, FreshStreams DEF Crash, Alive
  <2>2. requests' \in [Requests -> [reading: BOOLEAN, started: BOOLEAN]]
    BY <1>11 DEF Crash
  <2> QED BY <1>11, <2>1, <2>2, <1>b, <1>c DEF Crash, VideoTypeOK, SingleStream
<1>12. CASE UNCHANGED vars
  BY <1>12, <1>7 DEF vars
<1>13. ASSUME OnWorker PROVE VideoTypeOK' /\ SingleStream'
  BY <1>13, <1>7 DEF OnWorker
<1> QED
  BY <1>1, <1>2, <1>3, <1>5, <1>8, <1>9, <1>10, <1>11, <1>12, <1>13 DEF VideoNext

\* Types are kept.
THEOREM VideoTypeCorrect == VideoSpec => []VideoTypeOK
<1>1. VideoInv => VideoTypeOK
  BY DEF VideoInv
<1> QED BY VideoInvInit, VideoInvStep, <1>1, PTL DEF VideoSpec

\* A camera never has two streams with live threads, whichever stops time out,
\* and the manager never forgets the one there is (StreamManager.get, remove).
THEOREM OneStream == VideoSpec => []SingleStream
<1>1. VideoInv => SingleStream
  BY DEF VideoInv
<1> QED BY VideoInvInit, VideoInvStep, <1>1, PTL DEF VideoSpec

\* The streams implement the scheduler: what is true of every run of it is true
\* of it under the streams (submit_live_frame, drain_live_video_pass,
\* stop_live_camera are all that streams.py calls).
THEOREM ImplementsScheduler == VideoSpec => Spec
<1>1. VideoInit => Init
  BY DEF VideoInit
<1> QED BY VideoInvInit, VideoInvStep, StepRefines, <1>1, PTL DEF VideoSpec, Spec

\* So one future per camera and evidence of one detector, whatever the streams do.
THEOREM SchedulerSafeUnderStreams == VideoSpec => [](OneFuture /\ PureEvidence)
<1>1. VideoInv => OneFuture /\ PureEvidence
  BY DEF VideoInv, SchedulerInv
<1> QED BY VideoInvInit, VideoInvStep, <1>1, PTL DEF VideoSpec

\* A frame that was decoded was decoded in a pass that the row knows of, and in
\* the present life of the process if somebody can still begin a pass: a stream
\* that is on its way, or a request that read the row before it was marked.
OnItsWay == {"open", "marked", "pass", "handoff", "drain", "claim"}

DecodedNow == \A f \in Frames : decoded[f] # 0 => lives[decoded[f]] = crashes

Marked ==
    /\ manager \in Requests => requests[manager].reading
    /\ (\E f \in Frames : decoded[f] # 0) => mark # "none"
    /\ \A r \in Requests : requests[r].reading /\ ~requests[r].started => DecodedNow
    /\ \A x \in Streams : stream[x].decoder \in OnItsWay =>
          /\ lives[x] = crashes /\ DecodedNow
          /\ stream[x].decoder # "open" => mark # "none"
    /\ RestartNeverResubmits

\* The marks hold before any request comes.
LEMMA MarkedInit == VideoInit => Marked
BY VideoAssumption, FreshStreams DEF VideoInit, Marked, RestartNeverResubmits, DecodedNow, OnItsWay

\* A new stream begins a pass only if nothing was decoded in an earlier life.
LEMMA CreateMarked ==
    ASSUME VideoInv, Marked, NEW started \in BOOLEAN, NEW old, Create(started, old),
           old = managed, managed = 0 \/ ~Alive(managed),
           ~started => DecodedNow,
           UNCHANGED <<mark, decoded, crashes>>
    PROVE  /\ DecodedNow <=> DecodedNow'
           /\ RestartNeverResubmits'
           /\ \A x \in Streams : stream'[x].decoder \in OnItsWay =>
                /\ lives'[x] = crashes' /\ DecodedNow'
                /\ stream'[x].decoder # "open" => mark' # "none"
<1>a. /\ stream \in [Streams -> CameraStream] /\ opened \in 0..MaxStreams
      /\ lives \in [Streams -> 0..MaxCrashes] /\ decoded \in [Frames -> 0..opened]
  BY DEF VideoInv, VideoTypeOK
<1>b. Opened(started).decoder = IF started THEN "shown" ELSE "open"
  BY FreshStreams DEF Opened, CameraStream
<1>1. CASE Drop(old)
  BY <1>1, <1>a, FreshStreams DEF Drop, Marked, OnItsWay, DecodedNow, RestartNeverResubmits
<1>2. CASE ~Drop(old)
  <2>1. /\ opened < MaxStreams /\ opened + 1 \in Streams
        /\ stream' = [x \in Streams |-> IF x = opened + 1 THEN Opened(started)
                                        ELSE IF x = old THEN Gone ELSE stream[x]]
        /\ lives' = [lives EXCEPT ![opened + 1] = crashes]
    BY <1>2, <1>a, VideoAssumption DEF Create, Streams
  <2>2. \A f \in Frames : decoded[f] # 0 => decoded[f] \in Streams /\ decoded[f] # opened + 1
    BY <1>a, VideoAssumption DEF Streams
  <2>3. \A f \in Frames : decoded[f] # 0 => lives'[decoded[f]] = lives[decoded[f]]
    BY <2>1, <2>2, <1>a
  <2>4. lives'[opened + 1] = crashes /\ \A x \in Streams : x # opened + 1 => lives'[x] = lives[x]
    BY <2>1, <1>a
  <2>5. DecodedNow <=> DecodedNow'
    BY <2>3 DEF DecodedNow
  <2>6. RestartNeverResubmits'
    BY <2>3 DEF RestartNeverResubmits, Marked
  <2>7. ASSUME NEW x \in Streams, stream'[x].decoder \in OnItsWay
        PROVE  /\ lives'[x] = crashes' /\ DecodedNow'
               /\ stream'[x].decoder # "open" => mark' # "none"
    <3>1. CASE x = opened + 1
      BY <2>1, <2>4, <2>5, <2>7, <3>1, <1>b DEF OnItsWay
    <3>2. CASE x # opened + 1
      BY <2>1, <2>4, <2>5, <2>7, <3>2, FreshStreams DEF OnItsWay, Marked
    <3> QED BY <3>1, <3>2
  <2> QED BY <2>5, <2>6, <2>7
<1> QED BY <1>1, <1>2

\* Every step keeps the marks.
LEMMA MarkedStep == VideoInv /\ Marked /\ [VideoNext]_vars => Marked'
<1> SUFFICES ASSUME VideoInv, Marked, [VideoNext]_vars PROVE Marked'
  OBVIOUS
<1> USE VideoAssumption
<1>a. /\ requests \in [Requests -> [reading: BOOLEAN, started: BOOLEAN]]
      /\ manager \in Requests \cup {"idle", "remove"}
      /\ managed \in 0..opened /\ opened \in 0..MaxStreams
      /\ stream \in [Streams -> CameraStream] /\ decoded \in [Frames -> 0..opened]
      /\ lives \in [Streams -> 0..MaxCrashes] /\ crashes \in 0..MaxCrashes
  BY DEF VideoInv, VideoTypeOK
<1>b. ASSUME UNCHANGED videoVars PROVE Marked'
  BY <1>b DEF videoVars, Marked, DecodedNow, RestartNeverResubmits
<1>c. ASSUME NEW who, RequestStop(who), UNCHANGED <<mark, decoded, crashes>>,
             who \in Requests => requests[who].reading
      PROVE  Marked'
  <2>1. \A x \in Streams : stream'[x].decoder = stream[x].decoder
    BY <1>a, <1>c DEF RequestStop, CameraStream
  <2> QED BY <1>c, <2>1 DEF RequestStop, Marked, DecodedNow, RestartNeverResubmits
<1>d. ASSUME UNCHANGED <<mark, decoded, crashes>>,
             DecodedNow <=> DecodedNow', RestartNeverResubmits',
             \A x \in Streams : stream'[x].decoder \in OnItsWay =>
                /\ lives'[x] = crashes' /\ DecodedNow'
                /\ stream'[x].decoder # "open" => mark' # "none",
             manager' = "idle",
             requests' = requests \/ \E r \in Requests : Answered(r)
      PROVE  Marked'
  <2>1. \A r \in Requests : requests'[r].reading /\ ~requests'[r].started =>
          requests[r].reading /\ ~requests[r].started
    BY <1>a, <1>d DEF Answered
  <2> QED BY <1>d, <2>1 DEF Marked
<1>1. ASSUME NEW r \in Requests, Read(r) PROVE Marked'
  <2>1. \A q \in Requests : requests'[q] = IF q = r THEN [reading |-> TRUE, started |-> mark # "none"]
                                           ELSE requests[q]
    BY <1>1, <1>a DEF Read
  <2>2. mark = "none" => DecodedNow
    BY DEF Marked, DecodedNow
  <2>3. UNCHANGED <<mark, manager, managed, stream, decoded, lives, crashes>>
    BY <1>1 DEF Read
  <2>4. (DecodedNow <=> DecodedNow') /\ RestartNeverResubmits'
    BY <2>3 DEF Marked, DecodedNow, RestartNeverResubmits
  <2>5. \A q \in Requests : requests'[q].reading /\ ~requests'[q].started => DecodedNow
    <3>1. ASSUME mark # "none" PROVE requests'[r].started
      <4>1. (mark # "none") = TRUE
        BY <3>1
      <4>2. requests'[r] = [reading |-> TRUE, started |-> TRUE]
        BY <2>1, <4>1, Zenon
      <4> QED BY <4>2
    <3> QED BY <2>1, <2>2, <3>1 DEF Marked
  <2>6. manager \in Requests => requests'[manager].reading
    BY <2>1 DEF Marked
  <2> QED BY <2>3, <2>4, <2>5, <2>6 DEF Marked
<1>2. ASSUME NEW r \in Requests, Get(r) PROVE Marked'
  <2>a. /\ UNCHANGED <<mark, decoded, crashes>> /\ manager = "idle"
        /\ requests[r].reading /\ requests[r].started \in BOOLEAN
    BY <1>2, <1>a DEF Get
  <2>1. CASE Answered(r) /\ UNCHANGED <<manager, managed, stream, opened, lives>>
    BY <2>1, <2>a, <1>d DEF Marked, DecodedNow, RestartNeverResubmits
  <2>2. CASE managed = 0 /\ Create(requests[r].started, 0) /\ Answered(r) /\ UNCHANGED manager
    <3>1. ~requests[r].started => DecodedNow
      BY <2>a DEF Marked
    <3> QED BY <2>2, <2>a, <3>1, <1>d, CreateMarked
  <2>3. CASE RequestStop(r)
    BY <2>3, <2>a, <1>c
  <2> QED BY <1>2, <2>1, <2>2, <2>3 DEF Get
<1>3. CASE Remove
  BY <1>3, <1>c DEF Remove
<1>4. ASSUME GivesUp PROVE Marked'
  BY <1>4, <1>d DEF GivesUp, Marked, DecodedNow, RestartNeverResubmits
<1>5. ASSUME Stopped, Dead(managed) PROVE Marked'
  <2>a. /\ manager' = "idle" /\ UNCHANGED <<mark, decoded, crashes>> /\ ~Alive(managed)
    BY <1>5 DEF Stopped, Dead, Alive
  <2>1. CASE manager \in Requests
    <3>1. /\ Create(requests[manager].started, managed) /\ Answered(manager)
          /\ requests[manager].started \in BOOLEAN /\ requests[manager].reading
      BY <1>5, <1>a, <2>1 DEF Stopped, Marked
    <3>2. ~requests[manager].started => DecodedNow
      BY <2>1, <3>1 DEF Marked
    <3> QED BY <2>1, <2>a, <3>1, <3>2, <1>d, CreateMarked
  <2>2. CASE manager \notin Requests
    <3>1. Drop(managed) /\ UNCHANGED requests
      BY <1>5, <2>2 DEF Stopped
    <3>2. \A x \in Streams : stream'[x].decoder \in OnItsWay => stream'[x] = stream[x]
      BY <3>1, <1>a, FreshStreams DEF Drop, OnItsWay
    <3> QED BY <2>a, <3>1, <3>2, <1>d DEF Drop, Marked, DecodedNow, RestartNeverResubmits
  <2> QED BY <2>1, <2>2
<1>6. CASE JoinTimesOut
  BY <1>4, <1>6 DEF JoinTimesOut
<1>7. CASE WorkerStops
  <2>1. Dead(managed) /\ (Stopped \/ GivesUp \/ UNCHANGED videoVars)
    BY <1>7 DEF WorkerStops
  <2> QED BY <2>1, <1>4, <1>5, <1>b
<1>8. ASSUME NEW x \in Streams, Decoding(x) PROVE Marked'
  <2>a. UNCHANGED <<requests, manager, lives, crashes>>
    BY <1>8 DEF Decoding, MarkStarted, MarkFails, BeginPass, Queue, DecodeFails, EndOfFile,
       HandedOff, PassFails, DrainPromotes, OnWorker, videoVars, Drained, Complete, ClaimLost,
       DecoderExits, onlyStream
  <2>1. CASE DrainPromotes(x)
    BY <2>1, <1>b DEF DrainPromotes, OnWorker
  <2>2. CASE BeginPass(x) \/ Queue(x)
    <3>1. /\ stream[x].decoder \in {"marked", "pass"} /\ UNCHANGED mark
          /\ stream'[x].decoder = "pass"
          /\ \A y \in Streams : y # x => stream'[y] = stream[y]
          /\ \A f \in Frames : decoded'[f] \in {decoded[f], x}
      <4>1. PICK f \in Frames : decoded' = [decoded EXCEPT ![f] = x]
        BY <2>2 DEF BeginPass, Queue
      <4>2. \A y \in Streams : y # x => stream'[y] = stream[y]
        BY <2>2, <1>a DEF BeginPass, Queue
      <4>3. stream'[x].decoder = "pass"
        <5>1. CASE Queue(x)
          BY <5>1, <1>a DEF Queue, At, CameraStream
        <5>2. CASE BeginPass(x)
          <6>1. PICK g, k :
                  stream' = [stream EXCEPT ![x].decoder = "pass", ![x].slot = g, ![x].token = k]
            BY <5>2, Zenon DEF BeginPass
          <6> QED BY <6>1, <1>a DEF CameraStream
        <5> QED BY <2>2, <5>1, <5>2
      <4> QED BY <2>2, <4>1, <4>2, <4>3, <1>a DEF BeginPass, Queue, At
    <3>2. lives[x] = crashes /\ DecodedNow /\ mark # "none"
      BY <3>1 DEF Marked, OnItsWay
    <3>3. DecodedNow'
      BY <2>a, <3>1, <3>2 DEF DecodedNow
    <3>4. RestartNeverResubmits'
      BY <3>3 DEF DecodedNow, RestartNeverResubmits
    <3> QED BY <2>a, <3>1, <3>2, <3>3, <3>4 DEF Marked, OnItsWay
  <2>3. CASE ~DrainPromotes(x) /\ ~BeginPass(x) /\ ~Queue(x)
    <3>1. /\ UNCHANGED decoded /\ mark' \in {mark, "started", "completed"}
          /\ \A y \in Streams : y # x => stream'[y] = stream[y]
          /\ stream'[x].decoder \in OnItsWay => stream[x].decoder \in OnItsWay
          /\ stream[x].decoder = "open" =>
               stream'[x].decoder \notin OnItsWay \/ mark' \in {"started", "completed"}
          /\ stream'[x].decoder # "open"
      BY <1>8, <2>3, <1>a DEF Decoding, At, GoesTo, Interrupt, OnItsWay, CameraStream,
         MarkStarted, MarkFails, DecodeFails, EndOfFile, HandedOff, PassFails, Drained, Complete,
         ClaimLost, DecoderExits
    <3>2. DecodedNow <=> DecodedNow'
      BY <2>a, <3>1 DEF DecodedNow
    <3> QED BY <2>a, <3>1, <3>2 DEF Marked, RestartNeverResubmits
  <2> QED BY <2>1, <2>2, <2>3
<1>9. ASSUME NEW x \in Streams, TakeFrame(x) \/ SubmitRaises(x) \/ SubmitterExits(x)
      PROVE  Marked'
  <2>1. /\ UNCHANGED <<mark, requests, manager, lives, crashes, decoded>>
        /\ \A y \in Streams : stream'[y].decoder = stream[y].decoder
    <3>1. PICK t \in {[stream[x] EXCEPT !.slot = 0], [stream[x] EXCEPT !.failed = TRUE],
                      [stream[x] EXCEPT !.submits = FALSE]} : stream' = [stream EXCEPT ![x] = t]
      BY <1>9 DEF TakeFrame, SubmitRaises, SubmitterExits
    <3>2. t.decoder = stream[x].decoder
      BY <1>a DEF CameraStream
    <3> QED BY <1>9, <3>1, <3>2, <1>a DEF TakeFrame, SubmitRaises, SubmitterExits, onlyStream
  <2> QED BY <2>1 DEF Marked, DecodedNow, RestartNeverResubmits
<1>10. CASE Crash
  <2>1. \A x \in Streams : stream'[x].decoder \notin OnItsWay
    BY <1>10, FreshStreams DEF Crash, OnItsWay
  <2>2. \A r \in Requests : ~requests'[r].reading
    BY <1>10 DEF Crash
  <2> QED BY <1>10, <2>1, <2>2 DEF Crash, Marked, RestartNeverResubmits
<1>11. CASE UNCHANGED vars
  BY <1>11, <1>b DEF vars
<1>12. ASSUME OnWorker PROVE Marked'
  BY <1>12, <1>b DEF OnWorker
<1> QED
  BY <1>1, <1>2, <1>3, <1>6, <1>7, <1>8, <1>9, <1>10, <1>11, <1>12 DEF VideoNext

\* A video is submitted in one life of the process only: a restart finds the
\* mark, and what read the row before the mark does not survive (_queue_anpr,
\* mark_video_anpr_started, manager.get).
THEOREM SubmittedInOneLife == VideoSpec => []RestartNeverResubmits
<1>1. VideoInv /\ Marked => RestartNeverResubmits
  BY DEF Marked
<1> QED BY VideoInvInit, VideoInvStep, MarkedInit, MarkedStep, <1>1, PTL DEF VideoSpec
------------------------------------------------------------------------------
\* What a step does to the fields of one state, and to no other.
Touches(s, retired, pending) ==
    /\ s \in States
    /\ \A t \in States : t # s => cam'[t] = cam[t]
    /\ cam'[s].retired = retired /\ cam'[s].pending = pending

Counts(s, processed, errors, refused) ==
    /\ cam'[s].processed = cam[s].processed + processed
    /\ cam'[s].errors = cam[s].errors + errors
    /\ cam'[s].refused = cam[s].refused + refused

\* One of the new frame and the waiting one goes on, the other is coalesced.
PicksOne(s, f) ==
    /\ f \in {submitter.frame} \cup Waiting(s) /\ f \in Frames
    /\ fate' = [g \in Frames |-> IF g = f THEN "inhand"
                                 ELSE IF g \in {submitter.frame} \cup Waiting(s) THEN "coalesced"
                                 ELSE fate[g]]

\* The future j is at pc with frame f now.
Now(j, f, pc) == jobs' = (jobs \ {j}) \cup {[state |-> j.state, frame |-> f, pc |-> pc]}

\* What the scheduler's invariant says of the fields.
LEMMA FieldTypes ==
    ASSUME SchedulerInv
    PROVE  /\ cam \in [States -> Camera] /\ submitter \in Submitter /\ fate \in [Frames -> Fate]
           /\ made \in 0..MaxStates /\ current \in 0..made /\ current \in States \cup {0}
           /\ MaxStates \in Nat /\ MaxFrames \in Nat /\ 0 \notin States /\ 0 \notin Frames
           /\ submitter.pc \in {"inside", "enqueue"} =>
                submitter.state \in States /\ submitter.frame \in Frames
           /\ remover.pc # "idle" => remover.state \in States
           /\ \A j \in jobs : j \in Job /\ j.state \in States /\ j.frame \in Frames
           /\ \A t \in States : /\ cam[t].processed \in Nat /\ cam[t].errors \in Nat
                                /\ cam[t].refused \in Nat /\ cam[t].pending \in Frames \cup {0}
                                /\ Waiting(t) \subseteq Frames
<1> USE SchedulerAssumption DEF SchedulerInv, SchedulerTypeOK
<1>1. /\ cam \in [States -> Camera] /\ submitter \in Submitter /\ fate \in [Frames -> Fate]
      /\ made \in 0..MaxStates /\ current \in 0..made /\ current \in States \cup {0}
      /\ MaxStates \in Nat /\ MaxFrames \in Nat /\ 0 \notin States /\ 0 \notin Frames
  BY DEF Placed, States, Frames
<1>2. /\ submitter.pc \in {"inside", "enqueue"} =>
           submitter.state \in States /\ submitter.frame \in Frames
      /\ remover.pc # "idle" => remover.state \in States
  BY <1>1 DEF Placed, States
<1>3. \A j \in jobs : j \in Job /\ j.state \in States /\ j.frame \in Frames
  BY DEF Job
<1>4. \A t \in States : /\ cam[t].processed \in Nat /\ cam[t].errors \in Nat
                        /\ cam[t].refused \in Nat /\ cam[t].pending \in Frames \cup {0}
                        /\ Waiting(t) \subseteq Frames
  BY <1>1 DEF Camera, Waiting, Frames
<1> QED BY <1>1, <1>2, <1>3, <1>4

\* submit finds the state of the camera, or makes it.
LEMMA SubmitEntersFields ==
    ASSUME SchedulerInv, SubmitEnters
    PROVE  \/ current # 0 /\ cam' = cam /\ current' = current /\ made' = made
           \/ /\ current = 0 /\ current' = made + 1 /\ made' = made + 1
              /\ Touches(made + 1, FALSE, 0)
              /\ cam'[made + 1].processed = 0
              /\ cam'[made + 1].errors = 0 /\ cam'[made + 1].refused = 0
<1>1. CASE current # 0
  BY <1>1 DEF SubmitEnters
<1>2. CASE current = 0
  <2>1. /\ made + 1 \in States /\ cam' = [cam EXCEPT ![made + 1] = Fresh]
        /\ current' = made + 1 /\ made' = made + 1
    BY <1>2, FieldTypes DEF SubmitEnters, States
  <2> QED BY <2>1, <1>2, FieldTypes DEF Fresh, Touches
<1> QED BY <1>1, <1>2

\* A refused frame is counted, and takes the waiting one with it.
LEMMA RefuseFields ==
    ASSUME SchedulerInv, Refuse
    PROVE  LET s == submitter.state IN Touches(s, cam[s].retired, 0) /\ Counts(s, 0, 0, 1)
<1> DEFINE s == submitter.state
<1>1. cam' = [cam EXCEPT ![s].pending = 0, ![s].refused = @ + 1] /\ s \in States
  BY FieldTypes DEF Refuse, Inside
<1> QED BY <1>1, FieldTypes DEF Camera, Touches, Counts

\* So is a frame whose camera cannot be read.
LEMMA ConfigFailsFields ==
    ASSUME SchedulerInv, ConfigFails
    PROVE  LET s == submitter.state IN
           Touches(s, cam[s].retired, cam[s].pending) /\ Counts(s, 0, 1, 0)
<1> DEFINE s == submitter.state
<1>1. cam' = [cam EXCEPT ![s].errors = @ + 1] /\ s \in States
  BY FieldTypes DEF ConfigFails
<1> QED BY <1>1, FieldTypes DEF Camera, Touches, Counts

\* One of two frames waits.
LEMMA HoldFields ==
    ASSUME SchedulerInv, Hold
    PROVE  LET s == submitter.state IN
           \E f \in Frames : PicksOne(s, f) /\ Touches(s, cam[s].retired, f) /\ Counts(s, 0, 0, 0)
<1> DEFINE s == submitter.state
<1>1. s \in States /\ submitter.frame \in Frames /\ Waiting(s) \subseteq Frames
  BY FieldTypes DEF Hold, Inside
<1>2. PICK f \in {submitter.frame} \cup Waiting(s) :
        cam' = [cam EXCEPT ![s].pending = f] /\ PicksOne(s, f)
  BY <1>1 DEF Hold, PicksOne
<1>3. Touches(s, cam[s].retired, f) /\ Counts(s, 0, 0, 0)
  BY <1>1, <1>2, FieldTypes DEF Camera, Touches, Counts
<1> QED BY <1>1, <1>2, <1>3

\* One of two frames gets the future.
LEMMA ScheduleFields ==
    ASSUME SchedulerInv, Schedule
    PROVE  LET s == submitter.state IN
           \E f \in Frames : /\ PicksOne(s, f) /\ Touches(s, cam[s].retired, 0) /\ Counts(s, 0, 0, 0)
                             /\ submitter' = [pc |-> "enqueue", frame |-> f, state |-> s]
<1> DEFINE s == submitter.state
<1>1. s \in States /\ submitter.frame \in Frames /\ Waiting(s) \subseteq Frames
  BY FieldTypes DEF Schedule, Inside
<1>2. PICK f \in {submitter.frame} \cup Waiting(s) :
        /\ cam' = [cam EXCEPT ![s].pending = 0, ![s].busy = TRUE] /\ PicksOne(s, f)
        /\ submitter' = [submitter EXCEPT !.pc = "enqueue", !.frame = f]
  BY <1>1 DEF Schedule, PicksOne
<1>3. Touches(s, cam[s].retired, 0) /\ Counts(s, 0, 0, 0)
  BY <1>1, <1>2, FieldTypes DEF Camera, Touches, Counts
<1>4. submitter' = [pc |-> "enqueue", frame |-> f, state |-> s]
  BY <1>2, FieldTypes DEF Submitter
<1> QED BY <1>1, <1>2, <1>3, <1>4

\* An executor that refuses is an error.
LEMMA EnqueueFailsFields ==
    ASSUME SchedulerInv, EnqueueFails
    PROVE  LET s == submitter.state IN
           Touches(s, cam[s].retired, cam[s].pending) /\ Counts(s, 0, 1, 0)
<1> DEFINE s == submitter.state
<1>1. cam' = [cam EXCEPT ![s].busy = FALSE, ![s].errors = @ + 1] /\ s \in States
  BY FieldTypes DEF EnqueueFails
<1> QED BY <1>1, FieldTypes DEF Camera, Touches, Counts

\* A future that moves on keeps its state, and its frame unless it takes another.
LEMMA NowMoves ==
    ASSUME NEW j \in Job
    PROVE  /\ \A pc : Moves(j, [j EXCEPT !.pc = pc]) => Now(j, j.frame, pc)
           /\ \A f \in Frames :
                Moves(j, [j EXCEPT !.frame = f, !.pc = "inferring"]) => Now(j, f, "inferring")
<1>1. ASSUME NEW pc, Moves(j, [j EXCEPT !.pc = pc]) PROVE Now(j, j.frame, pc)
  <2>1. [j EXCEPT !.pc = pc] = [state |-> j.state, frame |-> j.frame, pc |-> pc]
    BY DEF Job
  <2> QED BY <1>1, <2>1 DEF Moves, Now
<1>2. ASSUME NEW f \in Frames, Moves(j, [j EXCEPT !.frame = f, !.pc = "inferring"])
      PROVE  Now(j, f, "inferring")
  <2>1. [j EXCEPT !.frame = f, !.pc = "inferring"] =
          [state |-> j.state, frame |-> f, pc |-> "inferring"]
    <3> DEFINE k == [j EXCEPT !.frame = f, !.pc = "inferring"]
    <3>1. k \in Job /\ k.state = j.state /\ k.pc = "inferring"
      BY JobTakes
    <3>2. k.frame = f
      BY DEF Job
    <3> HIDE DEF k
    <3>3. PICK a, b, c : k = [state |-> a, frame |-> b, pc |-> c]
      BY <3>1, Zenon DEF Job
    <3>4. k = [state |-> j.state, frame |-> f, pc |-> "inferring"]
      BY <3>1, <3>2, <3>3
    <3> QED BY <3>4, Zenon DEF k
  <2> QED BY <1>2, <2>1 DEF Moves, Now
<1> QED BY <1>1, <1>2

\* A queued future takes its own frame or the waiting one.
LEMMA ClaimFields ==
    ASSUME SchedulerInv, NEW j \in jobs, Claim(j)
    PROVE  LET s == j.state IN
           \E f \in Frames :
              /\ Touches(s, cam[s].retired, 0) /\ Counts(s, 0, 0, 0) /\ Now(j, f, "inferring")
              /\ f = j.frame \/ f = cam[s].pending
              /\ fate' = [g \in Frames |-> IF g = f THEN "inhand"
                                           ELSE IF g \in {j.frame, cam[s].pending} THEN "coalesced"
                                           ELSE fate[g]]
<1> DEFINE s == j.state
           f == Chosen(j.frame, cam[s].pending)
<1>a. s \in States /\ j \in Job
  BY FieldTypes
<1>1. f \in Frames /\ (f = j.frame \/ f = cam[s].pending)
  BY FieldTypes, <1>a DEF Chosen
<1>2. cam' = [cam EXCEPT ![s].pending = 0]
  BY DEF Claim
<1>3. Moves(j, [j EXCEPT !.frame = f, !.pc = "inferring"])
  BY DEF Claim
<1>4. fate' = [g \in Frames |-> IF g = f THEN "inhand"
                                ELSE IF g \in {j.frame, cam[s].pending} THEN "coalesced"
                                ELSE fate[g]]
  BY DEF Claim
<1>5. Touches(s, cam[s].retired, 0) /\ Counts(s, 0, 0, 0)
  BY <1>2, <1>a, FieldTypes DEF Camera, Touches, Counts
<1> HIDE DEF f
<1>6. Now(j, f, "inferring")
  BY <1>1, <1>3, <1>a, NowMoves
<1> QED BY <1>1, <1>4, <1>5, <1>6

\* Past its guard a future commits, before it the frame is lost.
LEMMA EnterCommitFields ==
    ASSUME SchedulerInv, NEW j \in jobs, EnterCommit(j)
    PROVE  /\ cam' = cam
           /\ \/ /\ Now(j, j.frame, "ending") /\ fate' = Becomes({j.frame}, "lost")
                 /\ cam[j.state].retired \/ born[j.frame] # generation
              \/ Now(j, j.frame, "committing") /\ fate' = fate /\ ~cam[j.state].retired
<1>1. j \in Job
  BY FieldTypes
<1> QED BY <1>1, NowMoves DEF EnterCommit

\* A commit counts its frame.
LEMMA CommitFields ==
    ASSUME SchedulerInv, NEW j \in jobs, Commit(j)
    PROVE  LET s == j.state IN
           /\ Touches(s, cam[s].retired, cam[s].pending) /\ Counts(s, 1, 0, 0)
           /\ Now(j, j.frame, "ending")
<1> DEFINE s == j.state
<1>a. j \in Job /\ s \in States
  BY FieldTypes
<1>0. PICK owes \in BOOLEAN : \E v :
        cam' = [cam EXCEPT ![s].votes = v, ![s].processed = @ + 1, ![s].owes = owes]
  BY Zenon DEF Commit
<1>1. PICK v : cam' = [cam EXCEPT ![s].votes = v, ![s].processed = @ + 1, ![s].owes = owes]
  BY <1>0
<1>2. Touches(s, cam[s].retired, cam[s].pending) /\ Counts(s, 1, 0, 0)
  BY <1>a, <1>1, FieldTypes DEF Camera, Touches, Counts
<1> QED BY <1>a, <1>2, NowMoves DEF Commit

\* An error counts if the frame is one of the present detector.
LEMMA InferFailsFields ==
    ASSUME SchedulerInv, NEW j \in jobs, InferFails(j)
    PROVE  LET s == j.state IN
           /\ Touches(s, cam[s].retired, cam[s].pending)
           /\ Counts(s, 0, IF born[j.frame] = generation THEN 1 ELSE 0, 0)
           /\ Now(j, j.frame, "ending")
<1> DEFINE s == j.state
<1>a. j \in Job /\ s \in States
  BY FieldTypes
<1>1. cam' = IF born[j.frame] = generation THEN [cam EXCEPT ![s].errors = @ + 1] ELSE cam
  BY DEF InferFails
<1>2. /\ Touches(s, cam[s].retired, cam[s].pending)
      /\ Counts(s, 0, IF born[j.frame] = generation THEN 1 ELSE 0, 0)
  BY <1>a, <1>1, FieldTypes DEF Camera, Touches, Counts
<1> QED BY <1>a, <1>2, NowMoves DEF InferFails

\* So it is for a commit that raises, which may have counted the frame.
LEMMA CommitFailsFields ==
    ASSUME SchedulerInv, NEW j \in jobs, CommitFails(j)
    PROVE  LET s == j.state IN
           \E n \in {0, 1} :
              /\ Touches(s, cam[s].retired, cam[s].pending)
              /\ Counts(s, n, IF born[j.frame] = generation THEN 1 ELSE 0, 0)
              /\ Now(j, j.frame, "ending")
<1> DEFINE s == j.state
<1>a. j \in Job /\ s \in States
  BY FieldTypes
<1>0. PICK n \in {0, 1} : \E v :
        cam' = [cam EXCEPT ![s].processed = @ + n, ![s].votes = v,
                           ![s].errors = IF born[j.frame] = generation THEN @ + 1 ELSE @]
  BY Zenon DEF CommitFails
<1>1. PICK v :
        cam' = [cam EXCEPT ![s].processed = @ + n, ![s].votes = v,
                           ![s].errors = IF born[j.frame] = generation THEN @ + 1 ELSE @]
  BY <1>0
<1>2. /\ Touches(s, cam[s].retired, cam[s].pending)
      /\ Counts(s, n, IF born[j.frame] = generation THEN 1 ELSE 0, 0)
  BY <1>a, <1>1, FieldTypes DEF Camera, Touches, Counts
<1> QED BY <1>a, <1>2, NowMoves DEF CommitFails

\* A future that ends may take the waiting frame with it.
LEMMA EndFields ==
    ASSUME SchedulerInv, NEW j \in jobs, End(j)
    PROVE  LET s == j.state IN
           /\ Counts(s, 0, 0, 0)
           /\ \/ /\ Touches(s, cam[s].retired, 0)
                 /\ fate' = [g \in Frames |-> IF g = cam[s].pending THEN "lost" ELSE fate[g]]
                 /\ cam[s].retired \/ born[j.frame] # generation
              \/ Touches(s, cam[s].retired, cam[s].pending) /\ fate' = fate
<1> DEFINE s == j.state
<1>a. s \in States
  BY FieldTypes
<1>1. CASE cam[s].retired \/ born[j.frame] # generation
  <2>1. /\ cam' = [cam EXCEPT ![s].busy = FALSE, ![s].pending = 0]
        /\ fate' = Becomes(Waiting(s), "lost")
    BY <1>1 DEF End
  <2>2. fate' = [g \in Frames |-> IF g = cam[s].pending THEN "lost" ELSE fate[g]]
    BY <2>1, FieldTypes DEF Becomes, Waiting
  <2>3. Touches(s, cam[s].retired, 0) /\ Counts(s, 0, 0, 0)
    BY <2>1, <1>a, FieldTypes DEF Camera, Touches, Counts
  <2> QED BY <1>1, <2>2, <2>3
<1>2. CASE ~(cam[s].retired \/ born[j.frame] # generation)
  <2>1. cam' = [cam EXCEPT ![s].busy = FALSE] /\ fate' = fate
    BY <1>2 DEF End
  <2> QED BY <2>1, <1>a, FieldTypes DEF Camera, Touches, Counts
<1> QED BY <1>1, <1>2

\* A queue that was written changes nothing else.
LEMMA SettleFields ==
    ASSUME SchedulerInv, NEW s \in States, Settle(s)
    PROVE  Touches(s, cam[s].retired, cam[s].pending) /\ Counts(s, 0, 0, 0)
BY FieldTypes DEF Settle, Camera, Touches, Counts

\* The waiting frame gets its future, or an error is counted.
LEMMA PromoteFields ==
    ASSUME SchedulerInv, NEW g, Promote(g) \/ PromoteFails(g)
    PROVE  /\ current # 0 /\ Touches(current, cam[current].retired, 0)
           /\ Counts(current, 0, IF Promote(g) THEN 0 ELSE 1, 0)
<1>a. current \in States /\ current # 0
  BY FieldTypes DEF Promote, PromoteFails, Promotable
<1>1. CASE Promote(g)
  <2>1. cam' = [cam EXCEPT ![current].pending = 0, ![current].busy = TRUE]
    BY <1>1 DEF Promote
  <2>2. Touches(current, cam[current].retired, 0) /\ Counts(current, 0, 0, 0)
    BY <2>1, <1>a, FieldTypes DEF Camera, Touches, Counts
  <2> QED BY <1>1, <1>a, <2>2
<1>2. CASE ~Promote(g)
  <2>1. cam' = [cam EXCEPT ![current].pending = 0, ![current].errors = @ + 1]
    BY <1>2 DEF PromoteFails
  <2>2. Touches(current, cam[current].retired, 0) /\ Counts(current, 0, 1, 0)
    BY <2>1, <1>a, FieldTypes DEF Camera, Touches, Counts
  <2> QED BY <1>2, <1>a, <2>2
<1> QED BY <1>1, <1>2

\* A switch drops the waiting frame.
LEMMA SwitchFields ==
    ASSUME SchedulerInv, Switch
    PROVE  \/ current = 0 /\ cam' = cam /\ fate' = fate
           \/ /\ current # 0 /\ Touches(current, cam[current].retired, 0)
              /\ fate' = Becomes(Waiting(current), "lost")
<1>1. CASE current = 0
  BY <1>1 DEF Switch
<1>2. CASE current # 0
  <2>1. /\ cam' = [cam EXCEPT ![current].votes = {}, ![current].pending = 0,
                              ![current].processed = 0, ![current].errors = 0]
        /\ current \in States /\ fate' = Becomes(Waiting(current), "lost")
    BY <1>2, FieldTypes DEF Switch
  <2> QED BY <1>2, <2>1, FieldTypes DEF Camera, Touches
<1> QED BY <1>1, <1>2

\* So does a remove, which retires the state.
LEMMA RetireFields ==
    ASSUME SchedulerInv, RemoveRetires
    PROVE  Touches(remover.state, TRUE, 0)
<1>1. /\ cam' = [cam EXCEPT ![remover.state].retired = TRUE, ![remover.state].pending = 0]
      /\ remover.state \in States
  BY FieldTypes DEF RemoveRetires
<1> QED BY <1>1, FieldTypes DEF Camera, Touches
------------------------------------------------------------------------------
\* The camera has one state that is not retired, at most: the one in _states, or
\* the one that remove has just taken from there.
OneState ==
    /\ \A s \in States : s <= made /\ s # current =>
          cam[s].retired \/ (remover.pc = "popped" /\ remover.state = s)
    /\ \A s \in States : made < s => ~cam[s].retired /\ cam[s].pending = 0
    /\ \A s \in States : cam[s].retired =>
          cam[s].pending = 0 /\ \A j \in jobs : j.state = s => j.pc # "committing"
    /\ current # 0 => ~cam[current].retired
    /\ remover.pc = "retired" => cam[remover.state].retired
    /\ remover.pc # "idle" => current = 0

\* remove runs for a manager that has joined both threads of its stream, and
\* without a stream there is no state.
Joined ==
    /\ remover.pc # "idle" => manager # "idle" /\ Dead(managed)
    /\ manager # "idle" => managed # 0
    /\ current # 0 => managed # 0

\* What waits or is at work belongs to the managed stream, but for the futures
\* of retired states.
Own ==
    /\ submitter.pc = "idle" => submitter.frame = 0
    /\ submitter.pc # "idle" =>
         managed # 0 /\ decoded[submitter.frame] = managed /\ stream[managed].submits
    /\ submitter.pc \in {"inside", "enqueue"} => submitter.state = current
    /\ \A x \in Streams : stream[x].slot # 0 => x = managed /\ decoded[stream[x].slot] = x
    /\ \A s \in States : cam[s].pending # 0 => managed # 0 /\ decoded[cam[s].pending] = managed
    /\ \A j \in jobs : ~cam[j.state].retired => managed # 0 /\ decoded[j.frame] = managed

Quiet == OneState /\ Joined /\ Own

\* The invariant says what the property does.
LEMMA QuietImplies == VideoInv /\ Quiet => StoppedIsQuiet
<1> SUFFICES ASSUME VideoInv, Quiet, NEW f \in Frames, decoded[f] # 0, decoded[f] # managed
             PROVE  /\ submitter.frame # f
                    /\ \A s \in States : cam[s].pending # f
                    /\ \A j \in jobs : j.frame = f => cam[j.state].retired /\ j.pc # "committing"
  BY DEF StoppedIsQuiet
<1>1. SchedulerInv /\ f # 0
  BY FieldTypes DEF VideoInv
<1>2. submitter.frame # f
  BY <1>1 DEF Quiet, Own
<1>3. \A s \in States : cam[s].pending # f
  BY <1>1 DEF Quiet, Own
<1>4. \A j \in jobs : j.frame = f => cam[j.state].retired /\ j.pc # "committing"
  BY <1>1, FieldTypes DEF Quiet, Own, OneState
<1> QED BY <1>2, <1>3, <1>4

\* The start.
LEMMA QuietInit == VideoInit => Quiet
BY FreshStreams, SchedulerAssumption
   DEF VideoInit, Init, Quiet, OneState, Joined, Own, NoSubmit, NoRemove, Fresh, Unused, States

\* The first frame of a pass.
LEMMA BeginFields ==
    ASSUME NEW x \in Streams, BeginPass(x)
    PROVE  \E f, k :
              /\ f \in Frames /\ NextFrame(f) /\ decoded' = [decoded EXCEPT ![f] = x]
              /\ stream' = [stream EXCEPT ![x].decoder = "pass", ![x].slot = f, ![x].token = k]
<1>1. \E f \in Frames : \E k :
         /\ NextFrame(f) /\ decoded' = [decoded EXCEPT ![f] = x]
         /\ stream' = [stream EXCEPT ![x].decoder = "pass", ![x].slot = f, ![x].token = k]
  BY ZenonT(60) DEF BeginPass
<1> QED BY <1>1

\* Nothing of the old stream is left when it is replaced.
LEMMA QuietReplaced ==
    ASSUME VideoInv, Quiet, NEW started \in BOOLEAN,
           Create(started, managed) \/ Drop(managed),
           submitter'.pc = "idle", submitter'.frame = 0, remover'.pc = "idle",
           manager' = "idle", current' = 0,
           \A s \in States : s <= made => cam[s].retired,
           UNCHANGED <<made, cam, jobs, decoded>>
    PROVE  Quiet'
<1>a. /\ stream \in [Streams -> CameraStream] /\ opened \in 0..MaxStreams
      /\ decoded \in [Frames -> 0..opened] /\ \A j \in jobs : j.state \in States /\ j.state <= made
      /\ SchedulerInv
  BY FieldTypes DEF VideoInv, VideoTypeOK, SchedulerInv, Placed
<1>1. \A s \in States : cam[s].pending = 0
  BY <1>a, FieldTypes DEF Quiet, OneState, States
<1>2. OneState'
  BY FieldTypes DEF Quiet, OneState
<1>3. Joined'
  BY DEF Joined
<1>4. \A x \in Streams : stream'[x].slot = 0
  <2>1. Gone.slot = 0 /\ Opened(started).slot = 0
    BY DEF Gone, Opened, Unused
  <2>2. \A x \in Streams : x # managed => stream[x].slot = 0
    BY DEF Quiet, Own
  <2>3. \A x \in Streams : stream'[x] \in {Gone, Opened(started)}
                          \/ (x # managed /\ stream'[x] = stream[x])
    BY DEF Create, Drop
  <2> QED BY <2>1, <2>2, <2>3
<1>5. Own'
  BY <1>a, <1>1, <1>4 DEF Quiet, Own
<1> QED BY <1>2, <1>3, <1>5 DEF Quiet

\* A step of the worker that leaves _states and remove alone, changes one state
\* and keeps its frames the managed stream's.
LEMMA QuietWorks ==
    ASSUME VideoInv, Quiet, NEW s \in States, NEW f \in {0} \cup Frames,
           Touches(s, cam[s].retired, f) \/ (cam' = cam /\ f = cam[s].pending),
           f # 0 => managed # 0 /\ decoded[f] = managed,
           \A k \in jobs' : k \in jobs \/
              /\ k.state \in States /\ k.frame \in Frames
              /\ ~cam[k.state].retired => managed # 0 /\ decoded[k.frame] = managed
              /\ k.pc = "committing" => ~cam[k.state].retired,
           s = current \/ f \in {0, cam[s].pending},
           \/ submitter' = NoSubmit
           \/ /\ submitter.pc # "idle" /\ submitter'.pc # "idle"
              /\ submitter'.frame \in Frames /\ decoded[submitter'.frame] = managed
              /\ submitter'.pc \in {"inside", "enqueue"} => submitter'.state = current
           \/ submitter' = submitter,
           UNCHANGED <<made, current, remover, manager, managed, decoded>>,
           \A x \in Streams : /\ stream'[x].submits = stream[x].submits
                              /\ stream'[x].decoder = stream[x].decoder
                              /\ stream'[x].slot \in {0, stream[x].slot}
    PROVE  Quiet'
<1>a. /\ stream \in [Streams -> CameraStream] /\ managed \in Streams \cup {0}
      /\ SchedulerInv /\ \A j \in jobs : j.state \in States
      /\ manager # "idle" => managed \in Streams
      /\ current \in States \cup {0} /\ 0 \notin Frames
  <2>1. managed \in 0..opened /\ opened \in 0..MaxStreams /\ stream \in [Streams -> CameraStream]
    BY DEF VideoInv, VideoTypeOK
  <2>2. managed \in Streams \cup {0}
    BY <2>1, VideoAssumption DEF Streams
  <2> QED BY <2>1, <2>2, FieldTypes DEF VideoInv, Quiet, Joined
<1>1. /\ \A t \in States : cam'[t].retired = cam[t].retired
      /\ \A t \in States : cam'[t].pending = IF t = s THEN f ELSE cam[t].pending
  BY DEF Touches
<1>2. OneState'
  <2>1. /\ made \in Nat /\ current \in 0..made /\ (\A t \in States : t \in Nat) /\ 0 \notin States
        /\ remover.pc # "idle" => remover.state \in States
    BY <1>a, FieldTypes DEF States
  <2>2. \A t \in States : made < t => ~cam'[t].retired /\ cam'[t].pending = 0
    BY <1>1, <2>1 DEF Quiet, OneState
  <2>3. ASSUME NEW t \in States, cam'[t].retired PROVE cam'[t].pending = 0
    BY <1>1, <2>1, <2>3 DEF Quiet, OneState
  <2>4. ASSUME NEW t \in States, cam'[t].retired, NEW k \in jobs', k.state = t
        PROVE  k.pc # "committing"
    BY <1>1, <2>4 DEF Quiet, OneState
  <2>5. ASSUME NEW t \in States, t <= made', t # current'
        PROVE  cam'[t].retired \/ (remover'.pc = "popped" /\ remover'.state = t)
    BY <1>1, <2>5 DEF Quiet, OneState
  <2>6. /\ current' # 0 => ~cam'[current'].retired
        /\ remover'.pc = "retired" => cam'[remover'.state].retired
        /\ remover'.pc # "idle" => current' = 0
    BY <1>1, <1>a, <2>1 DEF Quiet, OneState
  <2> QED BY <2>2, <2>3, <2>4, <2>5, <2>6 DEF OneState
<1>3. Joined'
  BY <1>a DEF Quiet, Joined, Dead
<1>4. \A t \in States : cam'[t].pending # 0 => managed # 0 /\ decoded[cam'[t].pending] = managed
  BY <1>1 DEF Quiet, Own
<1>5. \A k \in jobs' : ~cam'[k.state].retired => managed # 0 /\ decoded[k.frame] = managed
  BY <1>1, <1>a DEF Quiet, Own
<1>6. \A x \in Streams : stream'[x].slot # 0 => x = managed /\ decoded[stream'[x].slot] = x
  BY DEF Quiet, Own
<1>7. Own'
  BY <1>a, <1>4, <1>5, <1>6 DEF Quiet, Own, NoSubmit
<1> QED BY <1>2, <1>3, <1>7 DEF Quiet

\* A step of nobody but a stream or the manager.
LEMMA QuietStreams ==
    ASSUME VideoInv, Quiet, UNCHANGED schedulerVars, UNCHANGED managed,
           manager' # "idle" => managed # 0,
           remover.pc # "idle" => manager' # "idle" /\ stream'[managed].decoder = "dead"
                                  /\ ~stream'[managed].submits,
           submitter.pc # "idle" => stream'[managed].submits,
           \A f \in Frames : decoded[f] # 0 => decoded'[f] = decoded[f],
           \A x \in Streams : stream'[x].slot # 0 =>
              x = managed /\ decoded'[stream'[x].slot] = x
    PROVE  Quiet'
<1>a. /\ \A j \in jobs : j.frame \in Frames /\ j.state \in States
      /\ \A s \in States : cam[s].pending # 0 => cam[s].pending \in Frames
      /\ submitter.pc # "idle" => submitter.frame \in Frames
  BY FieldTypes DEF VideoInv, SchedulerInv, Placed
<1>1. OneState'
  BY DEF schedulerVars, Quiet, OneState
<1>2. Joined'
  BY DEF schedulerVars, Quiet, Joined, Dead
<1>3. Own'
  BY <1>a DEF schedulerVars, Quiet, Own
<1> QED BY <1>1, <1>2, <1>3 DEF Quiet

\* A step of the worker that moves no frame.
LEMMA QuietStays ==
    ASSUME Quiet, UNCHANGED <<made, current, cam, jobs, remover, submitter, manager, managed,
                              stream, decoded>>
    PROVE  Quiet'
BY DEF Quiet, OneState, Joined, Own, Dead

\* Every step keeps it quiet.
LEMMA QuietStep == VideoInv /\ Quiet /\ [VideoNext]_vars => Quiet'
<1> SUFFICES ASSUME VideoInv, Quiet, [VideoNext]_vars PROVE Quiet'
  OBVIOUS
<1> USE VideoAssumption
<1>a. /\ SchedulerInv /\ requests \in [Requests -> [reading: BOOLEAN, started: BOOLEAN]]
      /\ manager \in Requests \cup {"idle", "remove"} /\ managed \in 0..opened
      /\ opened \in 0..MaxStreams /\ stream \in [Streams -> CameraStream]
      /\ decoded \in [Frames -> 0..opened] /\ SingleStream
      /\ "idle" \notin Requests
  BY DEF VideoInv, VideoTypeOK
<1>b. /\ managed # 0 => managed \in Streams
      /\ \A x \in Streams : stream[x].slot # 0 => stream[x].slot \in Frames
  BY <1>a, SchedulerAssumption DEF Streams, CameraStream, Frames
<1>c. /\ OneState /\ Joined /\ Own
      /\ current # 0 => current \in States /\ managed # 0
      /\ submitter.pc # "idle" => remover.pc = "idle" /\ managed # 0
      /\ \A j \in jobs : j.state \in States /\ j.frame \in Frames /\ j.state <= made
      /\ \A s \in States : cam[s].pending \in Frames \cup {0}
      /\ 0 \notin Frames /\ 0 \notin States /\ 0 \notin Streams
      /\ current \in 0..made /\ made \in Nat
  BY <1>a, FieldTypes DEF Quiet, Own, Joined, Dead, SchedulerInv, Placed, Streams
<1>d. \A x \in Streams : Alive(x) => x = managed /\ remover.pc = "idle"
  BY <1>a, <1>c DEF SingleStream, Joined, Dead, Alive
<1>1. ASSUME NEW r \in Requests, Read(r) PROVE Quiet'
  BY <1>1, QuietStays DEF Read, schedulerVars
<1>e. ASSUME NEW who, RequestStop(who), who # "idle", UNCHANGED decoded, UNCHANGED schedulerVars
      PROVE  Quiet'
  <2>1. \A x \in Streams : /\ stream'[x].decoder = stream[x].decoder
                           /\ stream'[x].submits = stream[x].submits
                           /\ stream'[x].slot \in {0, stream[x].slot}
    BY <1>e, <1>a DEF RequestStop, CameraStream
  <2>2. managed # 0 /\ managed' = managed /\ manager' = who
    BY <1>e DEF RequestStop
  <2> QED BY <1>e, <2>1, <2>2, <1>b, <1>c, QuietStreams DEF Joined, Dead, Own
<1>2. ASSUME NEW r \in Requests, Get(r) PROVE Quiet'
  <2>a. manager = "idle" /\ UNCHANGED decoded /\ UNCHANGED schedulerVars
    BY <1>2 DEF Get
  <2>1. CASE Answered(r) /\ UNCHANGED <<manager, managed, stream, opened, lives>>
    BY <2>1, <2>a, QuietStays DEF schedulerVars
  <2>2. CASE managed = 0 /\ Create(requests[r].started, 0) /\ Answered(r) /\ UNCHANGED manager
    <3>1. current = 0 /\ remover.pc = "idle" /\ submitter.pc = "idle"
      BY <2>a, <2>2, <1>c DEF Joined
    <3>2. submitter.frame = 0
      BY <3>1, <1>c DEF Own
    <3>3. requests[r].started \in BOOLEAN
      BY <1>a
    <3>4. \A s \in States : s <= made => cam[s].retired
      BY <3>1, <1>c DEF OneState
    <3> QED BY <2>a, <2>2, <3>1, <3>2, <3>3, <3>4, QuietReplaced DEF schedulerVars
  <2>3. CASE RequestStop(r)
    BY <2>3, <2>a, <1>a, <1>e
  <2> QED BY <1>2, <2>1, <2>2, <2>3 DEF Get
<1>3. CASE Remove
  BY <1>3, <1>e DEF Remove
<1>4. CASE JoinTimesOut
  BY <1>4, <1>b, <1>c, QuietStreams DEF JoinTimesOut, GivesUp, Joined, Own
<1>5. CASE WorkerStops
  <2>a. /\ manager # "idle" /\ Dead(managed) /\ managed \in Streams
        /\ submitter.pc = "idle" /\ submitter.frame = 0
    BY <1>5, <1>b, <1>c DEF WorkerStops, Joined, Own, Dead
  <2>b. ASSUME Stopped, current' = 0, remover'.pc = "idle", UNCHANGED <<submitter, made, cam, jobs>>,
               \A s \in States : s <= made => cam[s].retired
        PROVE  Quiet'
    <3>1. /\ \E started \in BOOLEAN : Create(started, managed) \/ Drop(managed)
          /\ manager' = "idle" /\ UNCHANGED decoded
      BY <2>b, <1>a DEF Stopped
    <3> QED BY <2>a, <2>b, <3>1, QuietReplaced
  <2>1. CASE remover.pc = "idle" /\ current = 0 /\ Stopped /\ UNCHANGED schedulerVars
    BY <2>1, <2>b, <1>c DEF schedulerVars, OneState
  <2>2. CASE RemovePop /\ UNCHANGED videoVars
    <3>1. /\ current # 0 /\ remover' = [pc |-> "popped", state |-> current] /\ current' = 0
          /\ UNCHANGED <<made, cam, jobs, submitter, manager, managed, stream, decoded>>
      BY <2>2 DEF RemovePop, videoVars
    <3>2. OneState'
      BY <3>1, <1>c DEF OneState
    <3>3. Joined'
      BY <2>a, <3>1, <1>c DEF Joined, Dead
    <3>4. Own'
      BY <2>a, <3>1, <1>c DEF Own
    <3> QED BY <3>2, <3>3, <3>4 DEF Quiet
  <2>3. CASE RemoveRetires /\ UNCHANGED videoVars
    <3> DEFINE s == remover.state
    <3>1. /\ remover.pc = "popped" /\ remover'.pc = "retired" /\ remover'.state = s
          /\ s \in States /\ s <= made
          /\ UNCHANGED <<made, current, jobs, submitter, manager, managed, stream, decoded>>
          /\ ~Committing(s)
      BY <2>3, <1>a, FieldTypes DEF RemoveRetires, videoVars, SchedulerInv, SchedulerTypeOK,
         Placed, Remover
    <3>2. /\ cam'[s].retired /\ cam'[s].pending = 0
          /\ \A t \in States : t # s => cam'[t] = cam[t]
      BY <2>3, <1>a, RetireFields DEF Touches
    <3>3. OneState'
      <4>1. \A t \in States : t \in Nat
        BY DEF States
      <4>2. \A t \in States : t <= made /\ t # current => cam'[t].retired
        BY <3>1, <3>2, <1>c DEF OneState
      <4>3. \A t \in States : made < t => ~cam'[t].retired /\ cam'[t].pending = 0
        BY <4>1, <3>1, <3>2, <1>c DEF OneState
      <4>4. \A t \in States : cam'[t].retired =>
              cam'[t].pending = 0 /\ \A j \in jobs : j.state = t => j.pc # "committing"
        BY <3>1, <3>2, <1>c DEF OneState, Committing
      <4>5. current = 0
        BY <3>1, <1>c DEF OneState
      <4> QED BY <4>2, <4>3, <4>4, <4>5, <3>1, <3>2 DEF OneState
    <3>4. Joined'
      BY <2>a, <3>1, <1>c DEF Joined, Dead
    <3>5. Own'
      BY <2>a, <3>1, <3>2, <1>c DEF Own
    <3> QED BY <3>3, <3>4, <3>5 DEF Quiet
  <2>4. CASE \E flushed \in BOOLEAN : RemoveEnds(flushed) /\ (Stopped \/ GivesUp)
    <3>1. /\ remover.pc = "retired" /\ remover'.pc = "idle" /\ current = 0
          /\ UNCHANGED <<made, current, cam, jobs, submitter>>
      BY <2>4, <1>c DEF RemoveEnds, NoRemove, OneState
    <3>2. \A s \in States : s <= made => cam[s].retired
      BY <3>1, <1>c DEF OneState
    <3>3. CASE Stopped
      BY <2>b, <3>1, <3>2, <3>3
    <3>4. CASE GivesUp
      <4>1. manager' = "idle" /\ UNCHANGED <<managed, stream, decoded>>
        BY <3>4 DEF GivesUp
      <4> QED BY <3>1, <3>2, <4>1, <1>c, <2>a DEF Quiet, OneState, Joined, Own
    <3> QED BY <2>4, <3>3, <3>4
  <2> QED BY <1>5, <2>1, <2>2, <2>3, <2>4 DEF WorkerStops
<1>6. ASSUME NEW x \in Streams, Decoding(x), ~DrainPromotes(x) PROVE Quiet'
  <2>1. Alive(x) /\ UNCHANGED <<manager, managed>> /\ UNCHANGED schedulerVars
    BY <1>6 DEF Decoding, At, MarkStarted, MarkFails, BeginPass, Queue, DecodeFails, EndOfFile,
       HandedOff, PassFails, Drained, Complete, ClaimLost, DecoderExits, Alive, onlyStream
  <2>2. x = managed /\ remover.pc = "idle"
    BY <2>1, <1>d
  <2>3. CASE BeginPass(x) \/ Queue(x)
    <3>1. PICK f \in Frames : /\ NextFrame(f) /\ decoded' = [decoded EXCEPT ![f] = x]
                              /\ stream'[x].slot = f /\ stream'[x].submits = stream[x].submits
                              /\ \A y \in Streams : y # x => stream'[y] = stream[y]
      <4>1. CASE Queue(x)
        <5>1. PICK f \in Frames : /\ NextFrame(f) /\ decoded' = [decoded EXCEPT ![f] = x]
                                  /\ stream' = [stream EXCEPT ![x].slot = f]
          BY <4>1, Zenon DEF Queue
        <5> QED BY <5>1, <1>a DEF CameraStream
      <4>2. CASE BeginPass(x)
        <5>1. PICK f, k :
                /\ f \in Frames /\ NextFrame(f) /\ decoded' = [decoded EXCEPT ![f] = x]
                /\ stream' = [stream EXCEPT ![x].decoder = "pass", ![x].slot = f, ![x].token = k]
          BY <4>2, BeginFields
        <5> QED BY <5>1, <1>a DEF CameraStream
      <4> QED BY <2>3, <4>1, <4>2
    <3> QED BY <2>1, <2>2, <3>1, <1>a, <1>b, <1>c, QuietStreams DEF NextFrame, Joined, Own
  <2>4. CASE ~BeginPass(x) /\ ~Queue(x)
    <3>1. /\ UNCHANGED decoded
          /\ \A y \in Streams : /\ stream'[y].slot = stream[y].slot
                                /\ stream'[y].submits = stream[y].submits
      BY <1>6, <2>4, <1>a DEF Decoding, GoesTo, Interrupt, CameraStream,
         MarkStarted, MarkFails, DecodeFails, EndOfFile, HandedOff, PassFails, Drained, Complete,
         ClaimLost, DecoderExits
    <3> QED BY <2>1, <2>2, <3>1, <1>b, <1>c, QuietStreams DEF Joined, Own
  <2> QED BY <2>3, <2>4
<1>7. ASSUME NEW x \in Streams, SubmitterExits(x) PROVE Quiet'
  <2>1. x = managed /\ remover.pc = "idle" /\ ~Submitting(x)
    BY <1>7, <1>d DEF SubmitterExits, Alive
  <2>2. submitter.pc = "idle"
    BY <2>1, <1>c DEF Submitting, Own
  <2>3. /\ UNCHANGED <<manager, managed, decoded>> /\ UNCHANGED schedulerVars
        /\ \A y \in Streams : stream'[y].slot = stream[y].slot
    BY <1>7, <1>a DEF SubmitterExits, onlyStream, CameraStream
  <2> QED BY <2>1, <2>2, <2>3, <1>c, QuietStreams DEF Joined, Own
<1>8. ASSUME NEW x \in Streams, TakeFrame(x) PROVE Quiet'
  <2>1. /\ x = managed /\ remover.pc = "idle" /\ stream[x].submits
        /\ stream[x].slot \in Frames /\ decoded[stream[x].slot] = x
    BY <1>8, <1>b, <1>c, <1>d DEF TakeFrame, Alive, Own
  <2>2. /\ submitter' = [pc |-> "call", frame |-> stream[x].slot, state |-> 0]
        /\ UNCHANGED <<made, current, cam, jobs, remover, manager, managed, decoded>>
        /\ stream' = [stream EXCEPT ![x].slot = 0]
    BY <1>8 DEF TakeFrame, Call, onlyStream
  <2>3. /\ stream'[x].slot = 0 /\ stream'[x].submits
        /\ \A y \in Streams : y # x => stream'[y] = stream[y]
    BY <2>1, <2>2, <1>a DEF CameraStream
  <2>4. OneState'
    BY <2>2 DEF OneState, Quiet
  <2>5. Joined'
    BY <2>1, <2>2, <1>c DEF Joined, Quiet
  <2>6. Own'
    BY <2>1, <2>2, <2>3, <1>c DEF Own
  <2> QED BY <2>4, <2>5, <2>6 DEF Quiet
<1>9. CASE Crash
  <2>1. \A x \in Streams : stream'[x].slot = 0
    BY <1>9 DEF Crash, Gone, Unused
  <2>2. /\ made' = 0 /\ current' = 0 /\ cam' = [s \in States |-> Fresh] /\ jobs' = {}
        /\ submitter' = NoSubmit /\ remover' = NoRemove /\ manager' = "idle"
    BY <1>9 DEF Crash, Restart
  <2> QED BY <2>1, <2>2, <1>c DEF Quiet, OneState, Joined, Own, NoSubmit, NoRemove, Fresh, States
<1>f. ASSUME UNCHANGED videoVars
      PROVE  /\ UNCHANGED <<manager, managed, decoded, stream>>
             /\ \A x \in Streams : /\ stream'[x].submits = stream[x].submits
                                    /\ stream'[x].decoder = stream[x].decoder
                                    /\ stream'[x].slot \in {0, stream[x].slot}
  BY <1>f DEF videoVars
<1>g. submitter.pc \in {"inside", "enqueue"} =>
        /\ submitter.state = current /\ current \in States
        /\ submitter.frame \in Frames /\ decoded[submitter.frame] = managed
  BY <1>a, <1>c, FieldTypes DEF Own
<1>10. ASSUME SubmitEnters, UNCHANGED videoVars PROVE Quiet'
  <2>1. /\ submitter.pc = "call" /\ submitter' = [submitter EXCEPT !.pc = "inside", !.state = current']
        /\ UNCHANGED <<jobs, remover>>
    BY <1>10 DEF SubmitEnters
  <2>2. /\ submitter'.pc = "inside" /\ submitter'.state = current' /\ submitter'.frame = submitter.frame
        /\ managed # 0 /\ remover.pc = "idle"
    BY <2>1, <1>a, <1>c, FieldTypes DEF Submitter
  <2>3. CASE current # 0 /\ cam' = cam /\ current' = current /\ made' = made
    BY <2>1, <2>2, <2>3, <1>f, <1>10, <1>c DEF Quiet, OneState, Joined, Own
  <2>4. CASE /\ current = 0 /\ current' = made + 1 /\ made' = made + 1
             /\ Touches(made + 1, FALSE, 0)
    <3>1. /\ made + 1 \in States /\ ~cam'[made + 1].retired /\ cam'[made + 1].pending = 0
          /\ \A t \in States : t # made + 1 => cam'[t] = cam[t]
          /\ \A t \in States : t \in Nat
      BY <2>4 DEF Touches, States
    <3>2. OneState'
      <4>1. \A s \in States : s <= made' /\ s # current' => cam'[s].retired
        BY <2>2, <2>4, <3>1, <1>c DEF OneState
      <4>2. \A s \in States : made' < s => ~cam'[s].retired /\ cam'[s].pending = 0
        BY <2>4, <3>1, <1>c DEF OneState
      <4> QED BY <2>1, <2>2, <2>4, <3>1, <4>1, <4>2, <1>c DEF OneState
    <3>3. Joined'
      BY <2>1, <2>2, <1>10, <1>f, <1>c DEF Joined
    <3>4. Own'
      <4>1. \A j \in jobs : j.state # made + 1
        BY <1>c
      <4> QED BY <2>1, <2>2, <3>1, <4>1, <1>10, <1>f, <1>c DEF Own
    <3> QED BY <3>2, <3>3, <3>4 DEF Quiet
  <2> QED BY <2>3, <2>4, <1>10, <1>a, SubmitEntersFields
<1>11. ASSUME Refuse \/ ConfigFails \/ Skip \/ Hold, UNCHANGED videoVars PROVE Quiet'
  <2>1. /\ submitter' = NoSubmit /\ UNCHANGED <<made, current, jobs, remover>>
        /\ submitter.pc = "inside"
    BY <1>11 DEF Refuse, ConfigFails, Skip, Hold, Leaves, Inside
  <2>2. PICK f \in {0} \cup Frames :
          /\ Touches(current, cam[current].retired, f) \/ (cam' = cam /\ f = cam[current].pending)
          /\ f \in {0, cam[current].pending, submitter.frame}
    <3>1. CASE Refuse
      BY <3>1, <2>1, <1>a, <1>g, RefuseFields
    <3>2. CASE ConfigFails
      BY <3>2, <2>1, <1>a, <1>c, <1>g, ConfigFailsFields
    <3>3. CASE Skip
      BY <3>3, <2>1, <1>c, <1>g DEF Skip
    <3>4. CASE Hold
      BY <3>4, <2>1, <1>a, <1>g, HoldFields DEF PicksOne, Waiting
    <3> QED BY <1>11, <3>1, <3>2, <3>3, <3>4
  <2>3. f # 0 => managed # 0 /\ decoded[f] = managed
    BY <2>1, <2>2, <1>c, <1>g DEF Own
  <2> QED BY <1>f, <1>g, <1>11, <2>1, <2>2, <2>3, <1>c, QuietWorks
<1>12. ASSUME Schedule, UNCHANGED videoVars PROVE Quiet'
  <2>1. submitter.pc = "inside" /\ UNCHANGED <<made, current, jobs, remover>>
    BY <1>12 DEF Schedule, Inside
  <2>2. PICK f \in Frames :
          /\ Touches(current, cam[current].retired, 0) /\ f \in {submitter.frame} \cup Waiting(current)
          /\ submitter' = [pc |-> "enqueue", frame |-> f, state |-> current]
    BY <2>1, <1>12, <1>a, <1>g, ScheduleFields DEF PicksOne
  <2>3. decoded[f] = managed
    BY <2>1, <2>2, <1>c, <1>g DEF Own, Waiting
  <2> QED BY <1>f, <1>g, <1>12, <2>1, <2>2, <2>3, <1>c, QuietWorks
<1>13. ASSUME Enqueue, UNCHANGED videoVars PROVE Quiet'
  <2>1. /\ submitter.pc = "enqueue" /\ submitter' = NoSubmit /\ UNCHANGED <<made, current, cam, remover>>
        /\ jobs' = jobs \cup {[state |-> submitter.state, frame |-> submitter.frame, pc |-> "queued"]}
    BY <1>13 DEF Enqueue
  <2>2. \A k \in jobs' : k \in jobs \/
          (k.state = current /\ k.frame = submitter.frame /\ k.pc = "queued")
    BY <2>1, <1>g
  <2>3. cam[current].pending # 0 => managed # 0 /\ decoded[cam[current].pending] = managed
    BY <2>1, <1>c, <1>g DEF Own
  <2> QED BY <1>f, <1>g, <1>13, <2>1, <2>2, <2>3, <1>c, QuietWorks
<1>14. ASSUME EnqueueFails, \A x \in Streams : /\ stream'[x].submits = stream[x].submits
                                               /\ stream'[x].decoder = stream[x].decoder
                                               /\ stream'[x].slot = stream[x].slot,
              UNCHANGED <<manager, managed, decoded>>
       PROVE  Quiet'
  <2>1. submitter.pc = "enqueue" /\ submitter' = NoSubmit /\ UNCHANGED <<made, current, jobs, remover>>
    BY <1>14 DEF EnqueueFails
  <2>2. Touches(current, cam[current].retired, cam[current].pending)
    BY <2>1, <1>14, <1>a, <1>g, EnqueueFailsFields
  <2> QED BY <1>g, <1>14, <2>1, <2>2, <1>c, QuietWorks DEF Own
<1>15. ASSUME NEW x \in Streams, SubmitRaises(x) PROVE Quiet'
  <2>1. EnqueueFails /\ UNCHANGED <<manager, managed, decoded>>
        /\ stream' = [stream EXCEPT ![x].failed = TRUE]
    BY <1>15 DEF SubmitRaises, onlyStream
  <2> QED BY <2>1, <1>14, <1>a DEF CameraStream
<1>16. ASSUME NEW j \in jobs, Future(j), UNCHANGED videoVars PROVE Quiet'
  <2> DEFINE s == j.state
  <2>a. s \in States /\ s <= made /\ UNCHANGED <<made, current, submitter, remover>>
    BY <1>16, <1>c DEF Future, Claim, EnterCommit, Commit, InferFails, CommitFails, End
  <2>b. cam[s].pending # 0 => managed # 0 /\ decoded[cam[s].pending] = managed
    BY <2>a, <1>c DEF Own
  <2>1. PICK f \in {0, cam[s].pending} :
          Touches(s, cam[s].retired, f) \/ (cam' = cam /\ f = cam[s].pending)
    BY <1>16, <1>a, ClaimFields, EnterCommitFields, CommitFields, InferFailsFields,
       CommitFailsFields, EndFields DEF Future
  <2>2. \A k \in jobs' : k \in jobs \/
          /\ k.state = s /\ k.frame \in Frames /\ k.frame \in {j.frame, cam[s].pending}
          /\ k.pc = "committing" => ~cam[s].retired
    <3>1. CASE Claim(j)
      BY <3>1, <1>a, ClaimFields DEF Now
    <3>2. CASE EnterCommit(j)
      <4>1. PICK pc \in {"ending", "committing"} :
              Now(j, j.frame, pc) /\ (pc = "committing" => ~cam[s].retired)
        <5>1. CASE Now(j, j.frame, "ending")
          BY <5>1
        <5>2. CASE Now(j, j.frame, "committing") /\ ~cam[s].retired
          BY <5>2
        <5> QED BY <3>2, <5>1, <5>2, <1>a, EnterCommitFields
      <4> QED BY <4>1, <1>c DEF Now
    <3>3. CASE Commit(j) \/ InferFails(j) \/ CommitFails(j)
      BY <3>3, <1>a, <1>c, CommitFields, InferFailsFields, CommitFailsFields DEF Now
    <3>4. CASE End(j)
      BY <3>4 DEF End
    <3> QED BY <1>16, <3>1, <3>2, <3>3, <3>4 DEF Future
  <2>3. \A k \in jobs' : k \in jobs \/
          /\ k.state \in States /\ k.frame \in Frames
          /\ ~cam[k.state].retired => managed # 0 /\ decoded[k.frame] = managed
          /\ k.pc = "committing" => ~cam[k.state].retired
    BY <2>2, <2>a, <1>c DEF Own
  <2> QED BY <1>f, <1>16, <2>a, <2>b, <2>1, <2>3, <1>c, QuietWorks DEF Own
<1>17. ASSUME NEW s \in States, Settle(s), UNCHANGED videoVars PROVE Quiet'
  <2>1. /\ UNCHANGED <<made, current, jobs, submitter, remover>>
        /\ Touches(s, cam[s].retired, cam[s].pending)
    BY <1>17, <1>a, SettleFields DEF Settle
  <2> QED BY <1>f, <1>17, <2>1, <1>c, QuietWorks DEF Own
<1>18. ASSUME NEW x \in Streams, DrainPromotes(x) PROVE Quiet'
  <2>1. PICK g : (Promote(g) \/ PromoteFails(g)) /\ UNCHANGED videoVars
    BY <1>18 DEF DrainPromotes, OnWorker
  <2>2. /\ current # 0 /\ Touches(current, cam[current].retired, 0)
        /\ UNCHANGED <<made, current, submitter, remover>>
        /\ cam[current].pending # 0
        /\ jobs' = jobs \/ jobs' = jobs \cup {[state |-> current, frame |-> cam[current].pending, pc |-> "queued"]}
    BY <2>1, <1>a, PromoteFields DEF Promote, PromoteFails, Promotable
  <2>3. \A k \in jobs' : k \in jobs \/
          (k.state = current /\ k.frame = cam[current].pending /\ k.pc = "queued")
    BY <2>2
  <2> QED BY <1>f, <2>1, <2>2, <2>3, <1>c, QuietWorks DEF Own
<1>19. ASSUME Switching \/ Disable, UNCHANGED videoVars PROVE Quiet'
  <2>1. CASE SwitchEnters \/ SwitchFails \/ Disable
    BY <2>1, <1>19, <1>f, QuietStays DEF SwitchEnters, SwitchFails, Disable
  <2>2. CASE Switch
    <3>1. UNCHANGED <<made, current, jobs, submitter, remover>>
      BY <2>2 DEF Switch
    <3>2. CASE current = 0
      BY <3>1, <3>2, <2>2, <1>19, <1>f, QuietStays DEF Switch
    <3>3. CASE current # 0
      <4>1. Touches(current, cam[current].retired, 0)
        BY <2>2, <3>3, <1>a, SwitchFields
      <4> QED BY <1>f, <1>19, <3>1, <3>3, <4>1, <1>c, QuietWorks
    <3> QED BY <3>2, <3>3
  <2> QED BY <1>19, <2>1, <2>2 DEF Switching
<1>20. CASE UNCHANGED vars
  BY <1>20, QuietStays DEF vars, schedulerVars, videoVars
<1>21. CASE (Submission \/ Switching \/ Disable) /\ OnWorker
  BY <1>21, <1>10, <1>11, <1>12, <1>13, <1>19 DEF Submission, OnWorker
<1>22. ASSUME NEW j \in jobs, Future(j) /\ OnWorker PROVE Quiet'
  BY <1>22, <1>16 DEF OnWorker
<1>23. ASSUME NEW s \in States, Settle(s) /\ OnWorker PROVE Quiet'
  BY <1>23, <1>17 DEF OnWorker
<1> QED
  BY <1>1, <1>2, <1>3, <1>4, <1>5, <1>6, <1>7, <1>8, <1>9, <1>15, <1>18, <1>20, <1>21, <1>22,
     <1>23 DEF VideoNext

\* A stream that is gone is quiet (get, remove, _finish_stop, worker.remove).
THEOREM StoppedStreamsAreQuiet == VideoSpec => []StoppedIsQuiet
BY VideoInvInit, VideoInvStep, QuietInit, QuietStep, QuietImplies, PTL DEF VideoSpec
------------------------------------------------------------------------------
\* Frames are decoded in their order, only a decoded one can be submitted, and
\* the one in a slot is newer than all that were.
History ==
    /\ \A f, g \in Frames : f < g /\ decoded[g] # 0 => decoded[f] # 0
    /\ \A f \in Frames : fate[f] # "none" => decoded[f] # 0
    /\ \A x \in Streams, g \in Frames :
          stream[x].slot # 0 /\ stream[x].slot <= g => fate[g] = "none"

\* What is submitted, waits or is at work is in hand, ...
InHand ==
    /\ submitter.pc # "idle" => fate[submitter.frame] = "inhand"
    /\ \A s \in States : cam[s].pending # 0 => fate[cam[s].pending] = "inhand"
    /\ \A j \in jobs : j.pc # "ending" => fate[j.frame] = "inhand"

\* ... in one place, ...
Apart ==
    /\ submitter.pc # "idle" =>
         /\ \A s \in States : cam[s].pending # submitter.frame
         /\ \A j \in jobs : j.pc # "ending" => j.frame # submitter.frame
    /\ \A s \in States, j \in jobs : j.pc # "ending" => cam[s].pending # j.frame
    /\ \A j, k \in jobs : j.pc # "ending" /\ k.pc # "ending" /\ j.frame = k.frame => j = k

\* ... and the frames that may still be committed are newer than those that are;
\* what waits is newer than what is at work, what is submitted newer than both.
InOrder ==
    /\ submitter.pc \in {"call", "inside"} =>
         \A g \in Frames : fate[g] # "none" /\ g # submitter.frame => g < submitter.frame
    /\ submitter.pc = "enqueue" =>
         /\ cam[submitter.state].pending = 0
         /\ \A g \in Frames : fate[g] = "committed" => g < submitter.frame
    /\ \A j \in jobs, g \in Frames :
         ~cam[j.state].retired /\ j.pc # "ending" /\ fate[g] = "committed" => g < j.frame
    /\ \A s \in States, g \in Frames :
         cam[s].pending # 0 /\ fate[g] = "committed" => g < cam[s].pending
    /\ \A j \in jobs : j.pc # "ending" /\ cam[j.state].pending # 0 => j.frame < cam[j.state].pending

Ordered == History /\ InHand /\ Apart /\ InOrder

\* The start.
LEMMA OrderedInit == VideoInit => Ordered
BY FreshStreams, SchedulerAssumption
   DEF VideoInit, Init, Ordered, History, InHand, Apart, InOrder, NoSubmit, Fresh, Unused, States

\* Of the states that were made one at most is not retired.
LEMMA OneLive ==
    ASSUME Quiet, NEW s \in States, NEW t \in States,
           s <= made, t <= made, ~cam[s].retired, ~cam[t].retired
    PROVE  s = t
<1>1. 0 \notin States
  BY DEF States
<1> QED BY <1>1 DEF Quiet, OneState

\* So one frame at most waits, in that state.
LEMMA OneWaits ==
    ASSUME SchedulerInv, Quiet, NEW s \in States, cam[s].pending # 0
    PROVE  /\ s <= made /\ ~cam[s].retired
           /\ \A t \in States : t <= made /\ ~cam[t].retired => t = s
<1>1. made \in Nat /\ s \in Nat
  BY FieldTypes DEF States
<1>2. s <= made /\ ~cam[s].retired
  BY <1>1 DEF Quiet, OneState
<1> QED BY <1>2, OneLive

\* A step that drops the frames of F, with one fate, and moves no other.
LEMMA OrderedDrops ==
    ASSUME Ordered, NEW F \in SUBSET Frames, NEW v \in Fate, v \notin {"none", "inhand"},
           \A f \in Frames : fate'[f] = IF f \in F THEN v ELSE fate[f],
           \A f \in F : fate[f] = "inhand",
           submitter'.pc # "idle" =>
              submitter' = submitter /\ submitter.frame \notin F
              /\ submitter'.state = submitter.state,
           \A s \in States : /\ cam'[s].pending \in {0, cam[s].pending} \ F
                             /\ cam[s].retired => cam'[s].retired,
           \A k \in jobs' : k.pc # "ending" =>
              \E j \in jobs : j.pc # "ending" /\ j.state = k.state /\ j.frame = k.frame,
           \A k \in jobs' : k.pc # "ending" => k.frame \notin F /\ k.state \in States,
           \A k, l \in jobs' : k.pc # "ending" /\ l.pc # "ending" /\ k.frame = l.frame => k = l,
           v = "committed" => \A f \in F :
              /\ submitter'.pc = "enqueue" => f < submitter.frame
              /\ \A s \in States : cam'[s].pending # 0 => f < cam'[s].pending
              /\ \A k \in jobs' : ~cam'[k.state].retired /\ k.pc # "ending" => f < k.frame,
           submitter.pc = "enqueue" => submitter.state \in States,
           submitter.pc # "idle" => submitter.frame \in Frames,
           \A s \in States : cam[s].pending \in {0} \cup Frames,
           \A j \in jobs : j.frame \in Frames,
           0 \notin Frames, UNCHANGED decoded,
           \A x \in Streams : stream'[x].slot \in {0, stream[x].slot}
    PROVE  Ordered'
<1>1. History'
  BY DEF Ordered, History
<1>2. InHand'
  BY DEF Ordered, InHand
<1>3. Apart'
  BY DEF Ordered, Apart
<1>4. InOrder'
  <2>1. submitter'.pc \in {"call", "inside"} =>
          \A g \in Frames : fate'[g] # "none" /\ g # submitter'.frame => g < submitter'.frame
    BY DEF Ordered, InOrder
  <2>2. submitter'.pc = "enqueue" =>
          /\ cam'[submitter'.state].pending = 0
          /\ \A g \in Frames : fate'[g] = "committed" => g < submitter'.frame
    BY DEF Ordered, InOrder
  <2>3. \A j \in jobs', g \in Frames :
          ~cam'[j.state].retired /\ j.pc # "ending" /\ fate'[g] = "committed" => g < j.frame
    BY DEF Ordered, InOrder
  <2>4. \A s \in States, g \in Frames :
          cam'[s].pending # 0 /\ fate'[g] = "committed" => g < cam'[s].pending
    BY DEF Ordered, InOrder
  <2>5. \A j \in jobs' :
          j.pc # "ending" /\ cam'[j.state].pending # 0 => j.frame < cam'[j.state].pending
    BY DEF Ordered, InOrder
  <2> QED BY <2>1, <2>2, <2>3, <2>4, <2>5 DEF InOrder
<1> QED BY <1>1, <1>2, <1>3, <1>4 DEF Ordered

\* Every step keeps the order.
LEMMA OrderedStep == VideoInv /\ Quiet /\ Ordered /\ [VideoNext]_vars => Ordered'
<1> SUFFICES ASSUME VideoInv, Quiet, Ordered, [VideoNext]_vars PROVE Ordered'
  OBVIOUS
<1>a. /\ SchedulerInv /\ SingleStream /\ stream \in [Streams -> CameraStream]
      /\ decoded \in [Frames -> 0..opened] /\ fate \in [Frames -> Fate] /\ OneFuture
      /\ jobs \subseteq Job
  BY DEF VideoInv, VideoTypeOK, SchedulerInv, SchedulerTypeOK
<1>b. /\ \A j \in jobs : j \in Job /\ j.state \in States /\ j.frame \in Frames
      /\ \A j \in jobs : j.state <= made
      /\ \A s \in States : cam[s].pending \in {0} \cup Frames
      /\ submitter.pc # "idle" => submitter.frame \in Frames
      /\ submitter.pc \in {"inside", "enqueue"} =>
           submitter.state = current /\ current \in States /\ current # 0
      /\ current # 0 => current \in States /\ ~cam[current].retired /\ current <= made
      /\ 0 \notin Frames /\ 0 \notin States /\ 0 \notin Streams /\ (\A f \in Frames : f \in Nat)
  BY <1>a, FieldTypes DEF SchedulerInv, Placed, Quiet, OneState, Own, Frames, Streams
<1>c. History /\ InHand /\ Apart /\ InOrder /\ Own /\ OneState
  BY DEF Ordered, Quiet
<1>1. ASSUME UNCHANGED schedulerVars, UNCHANGED decoded,
             \A x \in Streams : stream'[x].slot \in {0, stream[x].slot}
      PROVE  Ordered'
  BY <1>1 DEF schedulerVars, Ordered, History, InHand, Apart, InOrder
<1>2. ASSUME NEW x \in Streams, BeginPass(x) \/ Queue(x) PROVE Ordered'
  <2>1. PICK f \in Frames : /\ NextFrame(f) /\ decoded' = [decoded EXCEPT ![f] = x]
                            /\ stream'[x].slot = f
                            /\ \A y \in Streams : y # x => stream'[y] = stream[y]
    <3>1. CASE Queue(x)
      <4>1. PICK f \in Frames : /\ NextFrame(f) /\ decoded' = [decoded EXCEPT ![f] = x]
                                /\ stream' = [stream EXCEPT ![x].slot = f]
        BY <3>1, Zenon DEF Queue
      <4> QED BY <4>1, <1>a DEF CameraStream
    <3>2. CASE BeginPass(x)
      <4>1. PICK f, k :
              /\ f \in Frames /\ NextFrame(f) /\ decoded' = [decoded EXCEPT ![f] = x]
              /\ stream' = [stream EXCEPT ![x].decoder = "pass", ![x].slot = f, ![x].token = k]
        BY <3>2, BeginFields
      <4> QED BY <4>1, <1>a DEF CameraStream
    <3> QED BY <1>2, <3>1, <3>2
  <2>2. UNCHANGED schedulerVars /\ x = managed
    BY <1>2, <1>a DEF BeginPass, Queue, At, SingleStream, Alive
  <2>3. \A g \in Frames : f <= g => decoded[g] = 0
    BY <2>1, <1>b, <1>c DEF NextFrame, History
  <2>4. History'
    <3>1. \A g \in Frames : decoded'[g] # 0 <=> decoded[g] # 0 \/ g = f
      BY <2>1, <1>a, <1>b
    <3>2. \A g \in Frames : f <= g => fate[g] = "none"
      BY <2>3, <1>c DEF History
    <3>3. \A g, h \in Frames : g < h /\ decoded'[h] # 0 => decoded'[g] # 0
      BY <3>1, <2>1, <1>c DEF History, NextFrame
    <3>4. \A y \in Streams : stream'[y].slot # 0 => y = x
      BY <2>1, <2>2, <1>c DEF Own
    <3> QED BY <2>1, <2>2, <3>1, <3>2, <3>3, <3>4, <1>c DEF History, schedulerVars
  <2> QED BY <2>2, <2>4, <1>c DEF schedulerVars, Ordered, InHand, Apart, InOrder
<1>3. ASSUME NEW x \in Streams, TakeFrame(x) PROVE Ordered'
  <2> DEFINE f == stream[x].slot
  <2>1. /\ f \in Frames /\ x = managed /\ decoded[f] # 0 /\ submitter.pc = "idle"
        /\ submitter' = [pc |-> "call", frame |-> f, state |-> 0]
        /\ fate' = Becomes({f}, "inhand") /\ UNCHANGED <<cam, jobs, decoded>>
        /\ stream' = [stream EXCEPT ![x].slot = 0]
    BY <1>3, <1>a, <1>b, <1>c, SchedulerAssumption DEF TakeFrame, Call, Own, CameraStream, Frames
  <2>2. \A g \in Frames : fate[g] # "none" => g < f
    BY <1>3, <1>b, <2>1 DEF TakeFrame, Call
  <2>3. \A g \in Frames : fate'[g] = IF g = f THEN "inhand" ELSE fate[g]
    BY <2>1, <1>a DEF Becomes
  <2>4. \A y \in Streams : stream'[y].slot = 0
    BY <2>1, <1>a, <1>c DEF Own, CameraStream
  <2> HIDE DEF f
  <2>5. History'
    BY <2>1, <2>3, <2>4, <1>c DEF History
  <2>6. InHand'
    BY <2>1, <2>2, <2>3, <1>b, <1>c DEF InHand
  <2>7. Apart'
    BY <2>1, <2>2, <1>b, <1>c DEF Apart, InHand
  <2>8. InOrder'
    BY <2>1, <2>2, <2>3, <1>b, <1>c DEF InOrder
  <2> QED BY <2>5, <2>6, <2>7, <2>8 DEF Ordered
<1>4. ASSUME SubmitEnters, UNCHANGED videoVars PROVE Ordered'
  <2>1. /\ submitter.pc = "call" /\ UNCHANGED <<fate, jobs, decoded, stream>>
        /\ submitter'.pc = "inside" /\ submitter'.frame = submitter.frame
    BY <1>4, <1>a, FieldTypes DEF SubmitEnters, videoVars, Submitter
  <2>2. /\ \A s \in States : cam'[s].pending = cam[s].pending
        /\ \A s \in States : s <= made => cam'[s].retired = cam[s].retired
    <3>1. CASE cam' = cam
      BY <3>1
    <3>2. CASE Touches(made + 1, FALSE, 0)
      <4>1. \A s \in States : s <= made => s # made + 1
        BY <1>a, FieldTypes DEF States
      <4>2. cam[made + 1].pending = 0
        BY <3>2, <1>a, <1>c, FieldTypes DEF Touches, OneState
      <4> QED BY <3>2, <4>1, <4>2 DEF Touches
    <3> QED BY <3>1, <3>2, <1>4, <1>a, SubmitEntersFields
  <2> QED BY <2>1, <2>2, <1>b, <1>c DEF Ordered, History, InHand, Apart, InOrder
<1>5. ASSUME Refuse \/ ConfigFails \/ Skip, UNCHANGED videoVars PROVE Ordered'
  <2>1. submitter.pc = "inside" /\ submitter'.pc = "idle" /\ jobs' = jobs
    BY <1>5 DEF Refuse, ConfigFails, Skip, Inside, Leaves, NoSubmit
  <2>2. PICK F \in SUBSET Frames, v \in {"lost", "skipped"} :
          /\ submitter.frame \in F /\ F \subseteq {submitter.frame} \cup Waiting(current)
          /\ \A f \in Frames : fate'[f] = IF f \in F THEN v ELSE fate[f]
          /\ \A s \in States : /\ cam'[s].pending \in {0, cam[s].pending} \ (F \ {submitter.frame})
                               /\ cam'[s].retired = cam[s].retired
    <3>1. CASE Refuse
      <4>1. /\ Touches(current, cam[current].retired, 0)
            /\ fate' = Becomes({submitter.frame} \cup Waiting(current), "lost")
        BY <3>1, <2>1, <1>a, <1>b, RefuseFields DEF Refuse
      <4> DEFINE F == {submitter.frame} \cup Waiting(current)
      <4>2. F \in SUBSET Frames /\ submitter.frame \in F
        BY <2>1, <1>b DEF Waiting
      <4>3. \A s \in States : /\ cam'[s].pending \in {0, cam[s].pending} \ Waiting(current)
                              /\ cam'[s].retired = cam[s].retired
        BY <4>1, <2>1, <1>a, <1>b, OneWaits DEF Touches, Waiting
      <4>4. \A f \in Frames : fate'[f] = IF f \in F THEN "lost" ELSE fate[f]
        BY <4>1, <1>a DEF Becomes
      <4>5. F \ {submitter.frame} \subseteq Waiting(current)
        OBVIOUS
      <4>6. \A s \in States : cam'[s].pending \in {0, cam[s].pending} \ (F \ {submitter.frame})
        BY <4>3, <4>5
      <4>7. F \subseteq {submitter.frame} \cup Waiting(current)
        OBVIOUS
      <4> HIDE DEF F
      <4> QED BY <4>2, <4>3, <4>4, <4>6, <4>7
    <3>2. CASE ConfigFails \/ Skip
      <4>1. PICK v \in {"lost", "skipped"} : fate' = Becomes({submitter.frame}, v)
        BY <3>2 DEF ConfigFails, Skip
      <4>2. \A s \in States : cam'[s].pending = cam[s].pending /\ cam'[s].retired = cam[s].retired
        BY <3>2, <2>1, <1>a, <1>b, ConfigFailsFields DEF Skip, Touches
      <4> QED BY <4>1, <4>2, <2>1, <1>a, <1>b DEF Becomes
    <3> QED BY <1>5, <3>1, <3>2
  <2>3. \A f \in F : fate[f] = "inhand"
    BY <2>1, <2>2, <1>b, <1>c DEF InHand, Waiting
  <2>4. \A s \in States : cam'[s].pending \in {0, cam[s].pending} \ F
    BY <2>1, <2>2, <1>b, <1>c DEF Apart
  <2>5. \A k \in jobs : k.pc # "ending" => k.frame \notin F
    BY <2>1, <2>2, <1>b, <1>c DEF Apart, Waiting
  <2> QED BY <2>1, <2>2, <2>3, <2>4, <2>5, <1>5, <1>b, <1>c, OrderedDrops, SMTT(30)
         DEF Apart, Fate, videoVars
<1>6. ASSUME Hold, UNCHANGED videoVars PROVE Ordered'
  <2>1. /\ submitter.pc = "inside" /\ submitter'.pc = "idle" /\ jobs' = jobs
    BY <1>6 DEF Hold, Inside, Leaves, NoSubmit
  <2>2. PICK f \in Frames : PicksOne(current, f) /\ Touches(current, cam[current].retired, f)
    BY <1>6, <2>1, <1>a, <1>b, HoldFields
  <2>3. /\ \A s \in States : cam'[s].retired = cam[s].retired
        /\ \A s \in States : s # current => cam[s].pending = 0
        /\ \A s \in States : cam'[s].pending = IF s = current THEN f ELSE 0
    BY <2>1, <2>2, <1>a, <1>b, OneWaits DEF Touches
  <2>4. /\ fate[f] = "inhand" /\ fate[submitter.frame] = "inhand"
        /\ cam[current].pending # 0 => fate[cam[current].pending] = "inhand"
        /\ f = submitter.frame \/ (f = cam[current].pending /\ f # 0)
    BY <2>1, <2>2, <1>b, <1>c DEF PicksOne, Waiting, InHand
  <2>5. \A g \in Frames : /\ (fate'[g] = "committed" <=> fate[g] = "committed")
                          /\ (fate'[g] = "none" <=> fate[g] = "none")
                          /\ fate'[g] = fate[g] \/ g = f \/ g = submitter.frame
                             \/ g = cam[current].pending
                          /\ fate'[f] = "inhand"
    BY <2>1, <2>2, <2>4, <1>b DEF PicksOne, Waiting
  <2>6. UNCHANGED <<stream, decoded>>
    BY <1>6 DEF videoVars
  <2>7. History'
    BY <2>5, <2>6, <1>b, <1>c DEF History
  <2>8. InHand'
    BY <2>1, <2>3, <2>5, <1>b, <1>c DEF InHand, Apart
  <2>9. Apart'
    BY <2>1, <2>3, <2>4, <1>b, <1>c DEF Apart
  <2>10. InOrder'
    <3>1. \A g \in Frames : fate[g] = "committed" => g < f
      BY <2>1, <2>4, <1>b, <1>c DEF InOrder
    <3>2. \A j \in jobs : j.pc # "ending" /\ j.state = current => j.frame < f
      BY <2>1, <2>4, <1>b, <1>c DEF InOrder, InHand, Apart
    <3> QED BY <2>1, <2>3, <2>5, <3>1, <3>2, <1>b, <1>c DEF InOrder
  <2> QED BY <2>7, <2>8, <2>9, <2>10 DEF Ordered
<1>7. ASSUME Schedule, UNCHANGED videoVars PROVE Ordered'
  <2>1. /\ submitter.pc = "inside" /\ jobs' = jobs /\ ~cam[current].busy
    BY <1>7, <1>b DEF Schedule, Inside
  <2>2. PICK f \in Frames :
          /\ PicksOne(current, f) /\ Touches(current, cam[current].retired, 0)
          /\ submitter' = [pc |-> "enqueue", frame |-> f, state |-> current]
    BY <1>7, <2>1, <1>a, <1>b, ScheduleFields
  <2>3. /\ \A s \in States : cam'[s].retired = cam[s].retired
        /\ \A s \in States : cam'[s].pending = 0
    BY <2>1, <2>2, <1>a, <1>b, OneWaits DEF Touches
  <2>4. /\ fate[f] = "inhand" /\ fate[submitter.frame] = "inhand"
        /\ cam[current].pending # 0 => fate[cam[current].pending] = "inhand"
        /\ f = submitter.frame \/ (f = cam[current].pending /\ f # 0)
    BY <2>1, <2>2, <1>b, <1>c DEF PicksOne, Waiting, InHand
  <2>5. \A g \in Frames : /\ (fate'[g] = "committed" <=> fate[g] = "committed")
                          /\ (fate'[g] = "none" <=> fate[g] = "none")
                          /\ fate'[g] = fate[g] \/ g = f \/ g = submitter.frame
                             \/ g = cam[current].pending
                          /\ fate'[f] = "inhand"
    BY <2>1, <2>2, <2>4, <1>b DEF PicksOne, Waiting
  <2>6. UNCHANGED <<stream, decoded>>
    BY <1>7 DEF videoVars
  <2>7. History'
    BY <2>5, <2>6, <1>b, <1>c DEF History
  <2>8. InHand'
    BY <2>1, <2>2, <2>3, <2>5, <1>b, <1>c DEF InHand, Apart
  <2>9. Apart'
    BY <2>1, <2>2, <2>3, <2>4, <1>b, <1>c DEF Apart
  <2>10. InOrder'
    <3>1. \A g \in Frames : fate[g] = "committed" => g < f
      BY <2>1, <2>4, <1>b, <1>c DEF InOrder
    <3> QED BY <2>1, <2>2, <2>3, <2>5, <3>1, <1>b, <1>c DEF InOrder
  <2> QED BY <2>7, <2>8, <2>9, <2>10 DEF Ordered
<1>8. ASSUME NEW s \in States, NEW f \in Frames, NEW k, k.state = s, k.frame = f, s = current,
             jobs' = jobs \cup {k}, k.pc = "queued",
             \/ /\ submitter.pc = "enqueue" /\ submitter.frame = f /\ submitter'.pc = "idle"
                /\ cam' = cam
             \/ /\ cam[s].pending = f /\ Touches(s, cam[s].retired, 0) /\ submitter' = submitter
                /\ submitter.pc # "enqueue",
             \A j \in jobs : j.state # s,
             UNCHANGED <<fate, decoded, stream>>
      PROVE  Ordered'
  <2>1. /\ \A t \in States : /\ cam'[t].retired = cam[t].retired
                             /\ cam'[t].pending \in {0, cam[t].pending}
        /\ cam'[s].pending = 0
        /\ \A t \in States : t # s => cam'[t].pending = cam[t].pending
    BY <1>8, <1>b, <1>c DEF Touches, InOrder
  <2>2. History'
    BY <1>8, <1>c DEF History
  <2>3. InHand'
    BY <1>8, <2>1, <1>b, <1>c DEF InHand
  <2>4. Apart'
    <3>1. \A t \in States : cam'[t].pending # f
      <4>1. CASE cam[s].pending = f
        BY <4>1, <2>1, <1>8, <1>a, <1>b, OneWaits
      <4>2. CASE cam[s].pending # f
        BY <4>2, <2>1, <1>8, <1>b, <1>c DEF Apart
      <4> QED BY <4>1, <4>2
    <3>2. \A j \in jobs : j.pc # "ending" => j.frame # f
      BY <1>8, <1>b, <1>c DEF Apart
    <3>3. submitter'.pc # "idle" => submitter'.frame # f
      BY <1>8, <1>b, <1>c DEF Apart
    <3> QED BY <1>8, <2>1, <3>1, <3>2, <3>3, <1>b, <1>c DEF Apart
  <2>5. InOrder'
    <3>1. \A g \in Frames : fate[g] = "committed" => g < f
      BY <1>8, <1>b, <1>c DEF InOrder
    <3> QED BY <1>8, <2>1, <3>1, <1>b, <1>c DEF InOrder
  <2> QED BY <2>2, <2>3, <2>4, <2>5 DEF Ordered
<1>9. ASSUME NEW j \in jobs, j.pc # "ending", NEW v \in {"lost", "committed"},
             Now(j, j.frame, "ending"), fate' = Becomes({j.frame}, v),
             Touches(j.state, cam[j.state].retired, cam[j.state].pending) \/ cam' = cam,
             v = "committed" => j.pc = "committing",
             UNCHANGED <<submitter, videoVars>>
      PROVE  Ordered'
  <2>1. /\ \A f \in Frames : fate'[f] = IF f \in {j.frame} THEN v ELSE fate[f]
        /\ \A f \in {j.frame} : fate[f] = "inhand"
        /\ {j.frame} \in SUBSET Frames
    BY <1>9, <1>a, <1>b, <1>c DEF Becomes, InHand
  <2>2. \A s \in States : cam'[s].pending = cam[s].pending /\ cam'[s].retired = cam[s].retired
    BY <1>9 DEF Touches
  <2>3. \A k \in jobs' : k.pc # "ending" => k \in jobs /\ k # j
    BY <1>9 DEF Now
  <2>4. ASSUME v = "committed"
        PROVE  /\ submitter.pc # "enqueue"
               /\ \A s \in States : cam'[s].pending # 0 => j.frame < cam'[s].pending
               /\ \A k \in jobs' : ~cam'[k.state].retired => k.pc = "ending"
    <3>1. ~cam[j.state].retired /\ j.state \in States /\ j.state <= made
      BY <2>4, <1>9, <1>b, <1>c DEF OneState
    <3>2. \A s \in States : s <= made /\ ~cam[s].retired => s = j.state
      BY <3>1, OneLive
    <3>3. submitter.pc # "enqueue"
      BY <3>2, <1>a, <1>b DEF OneFuture
    <3>4. \A s \in States : cam'[s].pending # 0 => j.frame < cam'[s].pending
      BY <3>2, <2>2, <1>9, <1>a, <1>c, OneWaits DEF InOrder
    <3>5. \A k \in jobs' : ~cam'[k.state].retired => k.pc = "ending"
      BY <3>2, <2>2, <2>3, <1>a, <1>b DEF OneFuture
    <3> QED BY <3>3, <3>4, <3>5
  <2>5. /\ submitter.pc # "idle" => submitter.frame # j.frame
        /\ \A s \in States : cam[s].pending # j.frame
        /\ \A k \in jobs : k.pc # "ending" /\ k # j => k.frame # j.frame
    BY <1>9, <1>c DEF Apart
  <2>6. \A k, l \in jobs' : k.pc # "ending" /\ l.pc # "ending" /\ k.frame = l.frame => k = l
    BY <2>3, <1>c DEF Apart
  <2>7. /\ \A s \in States : /\ cam'[s].pending \in {0, cam[s].pending} \ {j.frame}
                             /\ cam[s].retired => cam'[s].retired
        /\ \A k \in jobs' : k.pc # "ending" => k.frame \notin {j.frame} /\ k.state \in States
    BY <2>2, <2>3, <2>5, <1>b
  <2>8. v \in Fate /\ v \notin {"none", "inhand"}
    BY DEF Fate
  <2>9. UNCHANGED <<submitter, stream, decoded>>
    BY <1>9 DEF videoVars
  <2> DEFINE F == {j.frame}
  <2>10. submitter'.pc # "idle" => submitter' = submitter /\ submitter.frame \notin F
            /\ submitter'.state = submitter.state
    BY <2>5, <2>9
  <2>11. \A k \in jobs' : k.pc # "ending" =>
           \E l \in jobs : l.pc # "ending" /\ l.state = k.state /\ l.frame = k.frame
    BY <2>3
  <2>12. v = "committed" => \A f \in F :
            /\ submitter'.pc = "enqueue" => f < submitter.frame
            /\ \A s \in States : cam'[s].pending # 0 => f < cam'[s].pending
            /\ \A k \in jobs' : ~cam'[k.state].retired /\ k.pc # "ending" => f < k.frame
    BY <2>4, <2>9
  <2>13. /\ submitter.pc = "enqueue" => submitter.state \in States
         /\ submitter.pc # "idle" => submitter.frame \in Frames
         /\ \A s \in States : cam[s].pending \in {0} \cup Frames
         /\ \A i \in jobs : i.frame \in Frames
         /\ 0 \notin Frames
    BY <1>b
  <2>14. decoded' = decoded /\ \A x \in Streams : stream'[x].slot \in {0, stream[x].slot}
    BY <2>9
  <2>15. F \in SUBSET Frames /\ v \in Fate /\ v \notin {"none", "inhand"}
    BY <2>1, <2>8
  <2>16. \A f \in Frames : fate'[f] = IF f \in F THEN v ELSE fate[f]
    BY <2>1
  <2>17. \A f \in F : fate[f] = "inhand"
    BY <2>1
  <2>18. \A s \in States : /\ cam'[s].pending \in {0, cam[s].pending} \ F
                           /\ cam[s].retired => cam'[s].retired
    BY <2>7
  <2>19. \A k \in jobs' : k.pc # "ending" => k.frame \notin F /\ k.state \in States
    BY <2>7
  <2> HIDE DEF F
  <2> QED
    BY <2>6, <2>10, <2>11, <2>12, <2>13, <2>14, <2>15, <2>16, <2>17, <2>18, <2>19, OrderedDrops, ZenonT(60)
<1>10. ASSUME NEW s \in States, NEW b, Touches(s, b, 0), cam[s].retired => b,
              fate' = Becomes(Waiting(s), "lost"), jobs' \subseteq jobs,
              UNCHANGED <<submitter, videoVars>>
       PROVE  Ordered'
  <2> DEFINE F == Waiting(s)
             v == "lost"
  <2>1. /\ \A f \in Frames : fate'[f] = IF f \in F THEN v ELSE fate[f]
        /\ F \in SUBSET Frames
        /\ \A f \in F : fate[f] = "inhand"
    BY <1>10, <1>a, <1>b, <1>c DEF Becomes, InHand, Waiting
  <2>2. \A t \in States : /\ cam'[t].pending \in {0, cam[t].pending} \ F
                          /\ cam[t].retired => cam'[t].retired
    BY <1>10, <1>a, <1>b, OneWaits DEF Touches, Waiting
  <2>3. /\ submitter.pc # "idle" => submitter.frame \notin F
        /\ \A k \in jobs : k.pc # "ending" => k.frame \notin F
        /\ \A k, l \in jobs : k.pc # "ending" /\ l.pc # "ending" /\ k.frame = l.frame => k = l
    BY <1>10, <1>c DEF Apart, Waiting
  <2>4. v \in Fate /\ v \notin {"none", "inhand"} /\ v # "committed"
    BY DEF Fate
  <2>5. UNCHANGED <<submitter, stream, decoded>> /\ jobs' \subseteq jobs
    BY <1>10 DEF videoVars
  <2>6. /\ submitter'.pc # "idle" => /\ submitter' = submitter /\ submitter.frame \notin F
                                     /\ submitter'.state = submitter.state
        /\ \A x \in Streams : stream'[x].slot \in {0, stream[x].slot}
    BY <2>3, <2>5
  <2>7. /\ \A k \in jobs' : k.pc # "ending" =>
              \E j \in jobs : j.pc # "ending" /\ j.state = k.state /\ j.frame = k.frame
        /\ \A k \in jobs' : k.pc # "ending" => k.frame \notin F /\ k.state \in States
        /\ \A k, l \in jobs' : k.pc # "ending" /\ l.pc # "ending" /\ k.frame = l.frame => k = l
    BY <2>3, <2>5, <1>b
  <2>8. /\ submitter.pc = "enqueue" => submitter.state \in States
        /\ submitter.pc # "idle" => submitter.frame \in Frames
        /\ \A t \in States : cam[t].pending \in {0} \cup Frames
        /\ \A i \in jobs : i.frame \in Frames
        /\ 0 \notin Frames
    BY <1>b
  <2> HIDE DEF F, v
  <2> QED BY <2>1, <2>2, <2>4, <2>5, <2>6, <2>7, <2>8, OrderedDrops
<1>11. ASSUME \A s \in States : cam'[s].pending = cam[s].pending /\ cam'[s].retired = cam[s].retired,
              jobs' \subseteq jobs, UNCHANGED <<submitter, fate, decoded>>,
              \A x \in Streams : stream'[x].slot \in {0, stream[x].slot}
       PROVE  Ordered'
  <2>1. History' /\ InHand' /\ Apart'
    BY <1>11, <1>c DEF History, InHand, Apart
  <2>2. InOrder'
    BY <1>11, <1>b, <1>c DEF InOrder
  <2> QED BY <2>1, <2>2 DEF Ordered
<1>12. ASSUME NEW j \in jobs, Claim(j), UNCHANGED videoVars PROVE Ordered'
  <2> DEFINE s == j.state
  <2>1. PICK f \in Frames :
          /\ Touches(s, cam[s].retired, 0) /\ Now(j, f, "inferring")
          /\ f = j.frame \/ f = cam[s].pending
          /\ fate' = [g \in Frames |-> IF g = f THEN "inhand"
                                       ELSE IF g \in {j.frame, cam[s].pending} THEN "coalesced"
                                       ELSE fate[g]]
    BY <1>12, <1>a, ClaimFields
  <2>2. /\ j.pc = "queued" /\ s \in States /\ UNCHANGED <<submitter, decoded, stream>>
        /\ fate[j.frame] = "inhand"
        /\ cam[s].pending # 0 => fate[cam[s].pending] = "inhand"
    BY <1>12, <1>b, <1>c DEF Claim, InHand, videoVars
  <2>3. /\ \A t \in States : cam'[t].retired = cam[t].retired
        /\ cam'[s].pending = 0
        /\ \A t \in States : t # s => cam'[t].pending = cam[t].pending
        /\ cam[s].pending # 0 => \A t \in States : t # s => cam[t].pending = 0
    BY <2>1, <2>2, <1>a, <1>b, OneWaits DEF Touches
  <2>4. \A k \in jobs' : \/ k \in jobs /\ k # j
                         \/ k.state = s /\ k.frame = f /\ k.pc = "inferring" 
    BY <2>1 DEF Now
  <2>5. \A k, l \in jobs' : (k \notin jobs \/ k = j) /\ (l \notin jobs \/ l = j) => k = l
    BY <2>1 DEF Now
  <2>6. \A g \in Frames : /\ (fate'[g] = "committed" <=> fate[g] = "committed")
                          /\ (fate'[g] = "none" <=> fate[g] = "none")
                          /\ fate'[g] = fate[g] \/ g = j.frame \/ g = cam[s].pending
                          /\ fate'[f] = "inhand"
    <3>1. fate'[f] = "inhand" /\ fate[f] = "inhand"
      BY <2>1, <2>2, <1>b
    <3>2. ASSUME NEW g \in Frames, g # f, g = j.frame \/ g = cam[s].pending
          PROVE  fate'[g] = "coalesced" /\ fate[g] = "inhand"
      BY <3>2, <2>1, <2>2, <1>b
    <3>3. ASSUME NEW g \in Frames, g # j.frame, g # cam[s].pending PROVE fate'[g] = fate[g]
      BY <3>3, <2>1
    <3> QED BY <3>1, <3>2, <3>3
  <2>7. History'
    BY <2>2, <2>6, <1>b, <1>c DEF History
  <2>8. InHand'
    BY <2>2, <2>3, <2>4, <2>6, <1>b, <1>c DEF InHand, Apart
  <2>9. Apart'
    <3>1. /\ submitter.pc # "idle" => submitter.frame # f
          /\ \A t \in States : t # s => cam[t].pending # f
          /\ \A k \in jobs : k.pc # "ending" /\ k # j => k.frame # f
      BY <2>1, <2>2, <2>3, <1>b, <1>c DEF Apart
    <3>2. submitter'.pc # "idle" =>
             /\ \A t \in States : cam'[t].pending # submitter'.frame
             /\ \A k \in jobs' : k.pc # "ending" => k.frame # submitter'.frame
      BY <2>2, <2>3, <2>4, <3>1, <1>b, <1>c DEF Apart
    <3>3. \A t \in States, k \in jobs' : k.pc # "ending" => cam'[t].pending # k.frame
      BY <2>2, <2>3, <2>4, <3>1, <1>b, <1>c DEF Apart
    <3>4. \A k, l \in jobs' : k.pc # "ending" /\ l.pc # "ending" /\ k.frame = l.frame => k = l
      BY <2>4, <2>5, <3>1, <1>c DEF Apart
    <3> QED BY <3>2, <3>3, <3>4 DEF Apart
  <2>10. InOrder'
    <3>1. ~cam[s].retired => \A g \in Frames : fate[g] = "committed" => g < f
      BY <2>1, <2>2, <1>b, <1>c DEF InOrder
    <3>2. /\ submitter'.pc \in {"call", "inside"} =>
               \A g \in Frames : fate'[g] # "none" /\ g # submitter'.frame => g < submitter'.frame
          /\ submitter'.pc = "enqueue" =>
               /\ cam'[submitter'.state].pending = 0
               /\ \A g \in Frames : fate'[g] = "committed" => g < submitter'.frame
      BY <2>2, <2>3, <2>6, <1>b, <1>c DEF InOrder
    <3>3. \A k \in jobs', g \in Frames :
            ~cam'[k.state].retired /\ k.pc # "ending" /\ fate'[g] = "committed" => g < k.frame
      BY <2>2, <2>3, <2>4, <2>6, <3>1, <1>b, <1>c DEF InOrder
    <3>4. \A t \in States, g \in Frames :
            cam'[t].pending # 0 /\ fate'[g] = "committed" => g < cam'[t].pending
      BY <2>2, <2>3, <2>6, <1>b, <1>c DEF InOrder
    <3>5. \A k \in jobs' : k.pc # "ending" /\ cam'[k.state].pending # 0 => k.frame < cam'[k.state].pending
      BY <2>2, <2>3, <2>4, <1>b, <1>c DEF InOrder
    <3> QED BY <3>2, <3>3, <3>4, <3>5 DEF InOrder
  <2> QED BY <2>7, <2>8, <2>9, <2>10 DEF Ordered
<1>13. ASSUME NEW j \in jobs, EnterCommit(j), UNCHANGED videoVars PROVE Ordered'
  <2>1. j.pc = "inferring" /\ UNCHANGED <<submitter, decoded, stream>>
    BY <1>13 DEF EnterCommit, videoVars
  <2>2. CASE Now(j, j.frame, "ending") /\ fate' = Becomes({j.frame}, "lost") /\ cam' = cam
    BY <1>9, <2>1, <2>2, <1>13
  <2>3. CASE Now(j, j.frame, "committing") /\ UNCHANGED <<fate, cam>>
    <3>1. \A k \in jobs' : \/ k \in jobs /\ k # j
                           \/ k.state = j.state /\ k.frame = j.frame /\ k.pc = "committing"
      BY <2>3 DEF Now
    <3>2. \A k, l \in jobs' : (k \notin jobs \/ k = j) /\ (l \notin jobs \/ l = j) => k = l
      BY <2>3 DEF Now
    <3>3. History' /\ InHand'
      BY <2>1, <2>3, <3>1, <1>c DEF History, InHand
    <3>4. Apart'
      BY <2>1, <2>3, <3>1, <3>2, <1>c DEF Apart
    <3>5. InOrder'
      BY <2>1, <2>3, <3>1, <1>c DEF InOrder
    <3> QED BY <3>3, <3>4, <3>5 DEF Ordered
  <2> QED BY <2>2, <2>3, <1>13, <1>a, EnterCommitFields
<1>14. ASSUME NEW j \in jobs, Commit(j) \/ InferFails(j) \/ CommitFails(j), UNCHANGED videoVars
       PROVE  Ordered'
  <2>1. j.pc # "ending" /\ submitter' = submitter
    BY <1>14 DEF Commit, InferFails, CommitFails
  <2>2. CASE Commit(j)
    <3>1. fate' = Becomes({j.frame}, "committed") /\ j.pc = "committing"
      BY <2>2 DEF Commit
    <3> QED BY <2>1, <2>2, <3>1, <1>9, <1>14, <1>a, CommitFields
  <2>3. CASE InferFails(j)
    <3>1. fate' = Becomes({j.frame}, "lost")
      BY <2>3 DEF InferFails
    <3> QED BY <2>1, <2>3, <3>1, <1>9, <1>14, <1>a, InferFailsFields
  <2>4. CASE CommitFails(j)
    <3>1. fate' = Becomes({j.frame}, "lost")
      BY <2>4 DEF CommitFails
    <3> QED BY <2>1, <2>4, <3>1, <1>9, <1>14, <1>a, CommitFailsFields
  <2> QED BY <1>14, <2>2, <2>3, <2>4
<1>15. ASSUME NEW j \in jobs, End(j), UNCHANGED videoVars PROVE Ordered'
  <2> DEFINE s == j.state
  <2>1. jobs' = jobs \ {j} /\ submitter' = submitter /\ s \in States
        /\ UNCHANGED <<decoded, stream>>
    BY <1>15, <1>b DEF End, videoVars
  <2>2. CASE cam[s].retired \/ born[j.frame] # generation
    <3>1. fate' = Becomes(Waiting(s), "lost")
      BY <1>15, <2>2 DEF End
    <3>2. cam' = [cam EXCEPT ![s].busy = FALSE, ![s].pending = 0]
      BY <1>15, <2>2 DEF End
    <3>3. Touches(s, cam[s].retired, 0)
      BY <3>2, <2>1, <1>a, FieldTypes DEF Touches, Camera
    <3> QED BY <1>10, <1>15, <2>1, <3>1, <3>3
  <2>3. CASE ~(cam[s].retired \/ born[j.frame] # generation)
    <3>1. fate' = fate /\ cam' = [cam EXCEPT ![s].busy = FALSE]
      BY <1>15, <2>3 DEF End
    <3>2. \A t \in States : cam'[t].pending = cam[t].pending /\ cam'[t].retired = cam[t].retired
      BY <3>1, <2>1, <1>a, FieldTypes DEF Camera
    <3> QED BY <1>11, <2>1, <3>1, <3>2
  <2> QED BY <2>2, <2>3
<1>16. ASSUME EnqueueFails, NEW x \in Streams, stream' = [stream EXCEPT ![x].failed = TRUE],
              UNCHANGED decoded
       PROVE  Ordered'
  <2>1. /\ submitter.pc = "enqueue" /\ submitter'.pc = "idle" /\ jobs' = jobs
        /\ fate' = Becomes({submitter.frame}, "lost")
    BY <1>16 DEF EnqueueFails, NoSubmit
  <2>2. \A s \in States : cam'[s].pending = cam[s].pending /\ cam'[s].retired = cam[s].retired
    BY <1>16, <1>a, EnqueueFailsFields DEF Touches
  <2>3. \A y \in Streams : stream'[y].slot = stream[y].slot
    BY <1>16, <1>a DEF CameraStream
  <2>4. /\ \A f \in Frames : fate'[f] = IF f \in {submitter.frame} THEN "lost" ELSE fate[f]
        /\ {submitter.frame} \in SUBSET Frames
        /\ \A f \in {submitter.frame} : fate[f] = "inhand"
    BY <2>1, <1>a, <1>b, <1>c DEF Becomes, InHand
  <2>5. /\ \A s \in States : cam'[s].pending \in {0, cam[s].pending} \ {submitter.frame}
        /\ \A k \in jobs : k.pc # "ending" => k.frame \notin {submitter.frame}
        /\ \A k, l \in jobs : k.pc # "ending" /\ l.pc # "ending" /\ k.frame = l.frame => k = l
    BY <2>1, <2>2, <1>c DEF Apart
  <2> QED BY <2>1, <2>2, <2>3, <2>4, <2>5, <1>16, <1>b, OrderedDrops DEF Fate
<1>17. ASSUME NEW g, Promote(g) \/ PromoteFails(g), UNCHANGED videoVars PROVE Ordered'
  <2>1. /\ current # 0 /\ current \in States /\ cam[current].pending # 0 /\ ~cam[current].busy
        /\ submitter' = submitter /\ UNCHANGED <<decoded, stream>>
    BY <1>17, <1>b DEF Promote, PromoteFails, Promotable, videoVars
  <2>2. Touches(current, cam[current].retired, 0)
    BY <1>17, <1>a, PromoteFields
  <2>3. CASE Promote(g)
    <3> DEFINE k == [state |-> current, frame |-> cam[current].pending, pc |-> "queued"]
    <3>1. jobs' = jobs \cup {k} /\ fate' = Becomes(Waiting(current), "inhand")
      BY <2>3 DEF Promote
    <3>2. fate' = fate
      BY <3>1, <2>1, <1>a, <1>c DEF Becomes, Waiting, InHand
    <3>3. /\ submitter.pc # "enqueue" /\ \A j \in jobs : j.state # current
          /\ cam[current].pending \in Frames
      BY <2>1, <1>a, <1>b DEF OneFuture
    <3>4. k.state = current /\ k.frame = cam[current].pending /\ k.pc = "queued"
      OBVIOUS
    <3> HIDE DEF k
    <3> QED BY <1>8, <2>1, <2>2, <3>1, <3>2, <3>3, <3>4
  <2>4. CASE PromoteFails(g)
    <3>1. jobs' = jobs /\ fate' = Becomes(Waiting(current), "lost")
      BY <2>4 DEF PromoteFails
    <3> QED BY <1>10, <1>17, <2>1, <2>2, <3>1
  <2> QED BY <1>17, <2>3, <2>4
<1>18. ASSUME Enqueue, UNCHANGED videoVars PROVE Ordered'
  <2> DEFINE k == [state |-> current, frame |-> submitter.frame, pc |-> "queued"]
  <2>1. /\ submitter.pc = "enqueue" /\ submitter.state = current /\ submitter.frame \in Frames
        /\ current \in States /\ submitter'.pc = "idle" /\ cam' = cam /\ fate' = fate
        /\ UNCHANGED <<decoded, stream>> /\ jobs' = jobs \cup {k}
    BY <1>18, <1>b DEF Enqueue, NoSubmit, videoVars
  <2>2. \A j \in jobs : j.state # current
    BY <2>1, <1>a DEF OneFuture
  <2>3. k.state = current /\ k.frame = submitter.frame /\ k.pc = "queued"
    OBVIOUS
  <2> HIDE DEF k
  <2> QED BY <1>8, <2>1, <2>2, <2>3
<1>19. ASSUME Switching \/ Disable, UNCHANGED videoVars PROVE Ordered'
  <2>1. CASE Switch
    <3>1. jobs' = jobs /\ submitter' = submitter
      BY <2>1 DEF Switch
    <3>2. CASE current = 0
      BY <1>11, <1>19, <2>1, <3>1, <3>2, <1>a, SwitchFields DEF videoVars
    <3>3. CASE current # 0
      BY <1>10, <1>19, <2>1, <3>1, <3>3, <1>a, <1>b, SwitchFields
    <3> QED BY <3>2, <3>3
  <2>2. CASE SwitchEnters \/ SwitchFails \/ Disable
    <3>1. UNCHANGED <<cam, jobs, submitter, fate>>
      BY <2>2 DEF SwitchEnters, SwitchFails, Disable
    <3> QED BY <1>11, <1>19, <3>1 DEF videoVars
  <2> QED BY <1>19, <2>1, <2>2 DEF Switching
<1>20. ASSUME NEW s \in States, Settle(s), UNCHANGED videoVars PROVE Ordered'
  <2>1. UNCHANGED <<jobs, submitter, fate>>
    BY <1>20 DEF Settle
  <2> QED BY <1>11, <1>20, <2>1, <1>a, SettleFields DEF Touches, videoVars
<1>21. ASSUME NEW started \in BOOLEAN, NEW old,
              Create(started, old) \/ Drop(old) \/ UNCHANGED stream
       PROVE  \A x \in Streams : stream'[x].slot \in {0, stream[x].slot}
  <2>1. Gone.slot = 0 /\ Opened(started).slot = 0
    BY DEF Gone, Opened, Unused
  <2> QED BY <2>1, <1>21 DEF Create, Drop
<1>22. ASSUME WorkerStops PROVE Ordered'
  <2>1. CASE RemoveRetires /\ UNCHANGED videoVars
    <3>1. /\ remover.state \in States /\ jobs' = jobs /\ submitter' = submitter
          /\ fate' = Becomes(Waiting(remover.state), "lost")
      BY <2>1, <1>a, FieldTypes DEF RemoveRetires
    <3> QED BY <1>10, <2>1, <3>1, <1>a, RetireFields
  <2>2. CASE ~RemoveRetires
    <3>1. UNCHANGED <<cam, jobs, submitter, fate, decoded>>
      BY <1>22, <2>2
         DEF WorkerStops, RemovePop, RemoveEnds, Stopped, GivesUp, videoVars, schedulerVars
    <3>2. manager \in Requests => requests[manager].started \in BOOLEAN
      BY DEF VideoInv, VideoTypeOK
    <3>3. \A x \in Streams : stream'[x].slot \in {0, stream[x].slot}
      <4>1. CASE Stopped
        <5>1. \/ manager \in Requests /\ Create(requests[manager].started, managed)
              \/ Drop(managed)
          BY <4>1 DEF Stopped
        <5> QED BY <5>1, <3>2, <1>21
      <4>2. CASE ~Stopped
        BY <4>2, <1>22, <2>2 DEF WorkerStops, GivesUp, videoVars
      <4> QED BY <4>1, <4>2
    <3> QED BY <1>11, <3>1, <3>3
  <2>3. RemoveRetires => UNCHANGED videoVars
    BY <1>22 DEF WorkerStops, RemoveRetires, RemovePop, RemoveEnds
  <2> QED BY <2>1, <2>2, <2>3
<1>23. ASSUME (\E r \in Requests : Read(r) \/ Get(r)) \/ Remove \/ JoinTimesOut PROVE Ordered'
  <2>1. UNCHANGED schedulerVars /\ UNCHANGED decoded
    BY <1>23 DEF Read, Get, Remove, JoinTimesOut, GivesUp
  <2>2. ASSUME NEW who, RequestStop(who)
        PROVE  \A x \in Streams : stream'[x].slot \in {0, stream[x].slot}
    BY <2>2, <1>a DEF RequestStop, CameraStream
  <2>3. \A r \in Requests : requests[r].started \in BOOLEAN
    BY DEF VideoInv, VideoTypeOK
  <2>4. \A x \in Streams : stream'[x].slot \in {0, stream[x].slot}
    <3>1. CASE \E r \in Requests : Get(r)
      BY <3>1, <2>2, <2>3, <1>21 DEF Get
    <3>2. CASE ~\E r \in Requests : Get(r)
      BY <3>2, <1>23, <2>2 DEF Read, Remove, JoinTimesOut, GivesUp
    <3> QED BY <3>1, <3>2
  <2> QED BY <1>1, <2>1, <2>4
<1>24. ASSUME NEW x \in Streams, Decoding(x) \/ SubmitterExits(x),
              ~BeginPass(x), ~Queue(x), ~DrainPromotes(x)
       PROVE  Ordered'
  <2>1. UNCHANGED schedulerVars /\ UNCHANGED decoded
    BY <1>24 DEF Decoding, SubmitterExits, MarkStarted, MarkFails, DecodeFails, EndOfFile,
                 HandedOff, PassFails, Drained, Complete, ClaimLost, DecoderExits
  <2>2. \/ \E pc : GoesTo(x, pc)
        \/ Interrupt(x)
        \/ stream' = [stream EXCEPT ![x].submits = FALSE]
    BY <1>24 DEF Decoding, SubmitterExits, MarkStarted, MarkFails, DecodeFails, EndOfFile,
                 HandedOff, PassFails, Drained, Complete, ClaimLost, DecoderExits
  <2>3. \A y \in Streams : stream'[y].slot = stream[y].slot
    BY <2>2, <1>a DEF GoesTo, Interrupt, CameraStream
  <2> QED BY <1>1, <2>1, <2>3
<1>25. ASSUME Crash PROVE Ordered'
  <2>1. /\ fate' = Becomes({f \in Frames : fate[f] = "inhand"}, "lost")
        /\ submitter'.pc = "idle" /\ jobs' = {} /\ decoded' = decoded
        /\ \A s \in States : cam'[s].pending = 0
    BY <1>25 DEF Crash, Restart, NoSubmit, Fresh
  <2>2. \A y \in Streams : stream'[y].slot = 0
    BY <1>25 DEF Crash, Gone, Unused
  <2>3. \A f \in Frames : /\ (fate'[f] = "none" <=> fate[f] = "none")
    BY <2>1, <1>a DEF Becomes
  <2> QED BY <2>1, <2>2, <2>3, <1>c DEF Ordered, History, InHand, Apart, InOrder
<1>26. CASE UNCHANGED vars
  BY <1>1, <1>26 DEF vars, videoVars
<1>27. ASSUME OnWorker PROVE UNCHANGED videoVars
  BY <1>27 DEF OnWorker
<1>28. ASSUME NEW x \in Streams, SubmitRaises(x) PROVE Ordered'
  BY <1>16, <1>28 DEF SubmitRaises
<1>29. ASSUME NEW x \in Streams, DrainPromotes(x) PROVE Ordered'
  BY <1>17, <1>27, <1>29 DEF DrainPromotes
<1>30. ASSUME NEW j \in jobs, Future(j), OnWorker PROVE Ordered'
  BY <1>12, <1>13, <1>14, <1>15, <1>27, <1>30 DEF Future
<1>31. ASSUME Submission, OnWorker PROVE Ordered'
  BY <1>4, <1>5, <1>6, <1>7, <1>18, <1>27, <1>31 DEF Submission
<1>32. CASE VideoNext
  BY <1>2, <1>3, <1>19, <1>20, <1>22, <1>23, <1>24, <1>25, <1>27, <1>28, <1>29, <1>30, <1>31, <1>32
     DEF VideoNext
<1> QED BY <1>26, <1>32

\* Only a commit commits a frame.
LEMMA OnlyCommits ==
    ASSUME VideoInv, [VideoNext]_vars, NEW f \in Frames, fate'[f] = "committed"
    PROVE  fate[f] = "committed" \/ \E j \in jobs : Commit(j) /\ j.frame = f
<1> SUFFICES ASSUME ~\E j \in jobs : Commit(j) /\ j.frame = f PROVE fate[f] = "committed"
  OBVIOUS
<1>a. SchedulerInv /\ fate \in [Frames -> Fate]
  BY FieldTypes DEF VideoInv
<1>1. ASSUME NEW F, NEW v, fate' = Becomes(F, v), v # "committed" PROVE fate[f] = "committed"
  BY <1>1 DEF Becomes
<1>2. CASE fate' = fate
  BY <1>2
<1>3. ASSUME NEW s, Hold \/ Schedule, s = submitter.state PROVE fate[f] = "committed"
  BY <1>3 DEF Hold, Schedule
<1>4. CASE Submission \/ EnqueueFails
  <2>1. CASE Refuse \/ ConfigFails \/ Skip \/ EnqueueFails
    BY <2>1, <1>1 DEF Refuse, ConfigFails, Skip, EnqueueFails
  <2>2. CASE SubmitEnters \/ Enqueue
    BY <2>2, <1>2 DEF SubmitEnters, Enqueue
  <2> QED BY <2>1, <2>2, <1>3, <1>4 DEF Submission
<1>5. ASSUME NEW j \in jobs, Future(j) PROVE fate[f] = "committed"
  <2>1. CASE Claim(j)
    BY <2>1 DEF Claim
  <2>2. CASE EnterCommit(j) \/ InferFails(j) \/ CommitFails(j) \/ End(j)
    BY <2>2, <1>1, <1>2, SMTT(30) DEF EnterCommit, InferFails, CommitFails, End
  <2>3. CASE Commit(j)
    BY <2>3 DEF Commit, Becomes
  <2> QED BY <1>5, <2>1, <2>2, <2>3 DEF Future
<1>6. ASSUME NEW g, Promote(g) \/ PromoteFails(g) PROVE fate[f] = "committed"
  BY <1>6, <1>1 DEF Promote, PromoteFails
<1>7. CASE Switching \/ Disable
  BY <1>7, <1>1, <1>2 DEF Switching, SwitchEnters, Switch, SwitchFails, Disable
<1>8. CASE WorkerStops
  BY <1>8, <1>1, <1>2 DEF WorkerStops, RemovePop, RemoveRetires, RemoveEnds, schedulerVars
<1>9. CASE Crash
  BY <1>9, <1>1 DEF Crash, Restart
<1>10. CASE (\E r \in Requests : Read(r) \/ Get(r)) \/ Remove \/ JoinTimesOut
  BY <1>10, <1>2 DEF Read, Get, Remove, JoinTimesOut, schedulerVars
<1>11. ASSUME NEW x \in Streams, Decoding(x) \/ SubmitterExits(x), ~DrainPromotes(x)
       PROVE  fate[f] = "committed"
  BY <1>11, <1>2
     DEF Decoding, SubmitterExits, MarkStarted, MarkFails, BeginPass, Queue, DecodeFails, EndOfFile,
         HandedOff, PassFails, Drained, Complete, ClaimLost, DecoderExits, schedulerVars
<1>12. ASSUME NEW x \in Streams, TakeFrame(x) \/ SubmitRaises(x) \/ DrainPromotes(x)
       PROVE  fate[f] = "committed"
  BY <1>12, <1>1, <1>4, <1>6 DEF TakeFrame, Call, SubmitRaises, DrainPromotes
<1>13. ASSUME NEW s \in States, Settle(s) PROVE fate[f] = "committed"
  BY <1>13, <1>2 DEF Settle
<1>14. CASE UNCHANGED vars
  BY <1>2, <1>14 DEF vars, schedulerVars
<1>15. CASE VideoNext
  BY <1>4, <1>5, <1>7, <1>8, <1>9, <1>10, <1>11, <1>12, <1>13, <1>15 DEF VideoNext
<1> QED BY <1>14, <1>15

\* Readings reach the database in the order of the frames, through coalescing,
\* promotion, removal and re-creation of the camera, and a crash.
THEOREM ReadingsKeepOrder == VideoSpec => FramesInOrder
<1>1. VideoInit => Ordered
  BY OrderedInit
<1>2. VideoInv /\ Quiet /\ Ordered /\ [VideoNext]_vars => Ordered'
  BY OrderedStep
<1>3. VideoInv /\ Quiet /\ Ordered /\ [VideoNext]_vars =>
        [\A f, g \in Frames :
           f < g /\ fate[g] = "committed" => (fate'[f] = "committed" => fate[f] = "committed")]_vars
  <2> SUFFICES ASSUME VideoInv, Quiet, Ordered, [VideoNext]_vars, NEW f \in Frames, NEW g \in Frames,
                      f < g, fate[g] = "committed", fate'[f] = "committed", fate[f] # "committed"
               PROVE  FALSE
    OBVIOUS
  <2>1. PICK j \in jobs : Commit(j) /\ j.frame = f
    BY OnlyCommits
  <2>2. j.pc = "committing" /\ j.state \in States /\ f \in Nat /\ g \in Nat
    BY <2>1, FieldTypes DEF Commit, VideoInv, Frames
  <2>3. ~cam[j.state].retired
    BY <2>2 DEF Quiet, OneState
  <2> QED BY <2>1, <2>2, <2>3 DEF Ordered, InOrder
<1> QED BY <1>1, <1>2, <1>3, QuietInit, QuietStep, VideoInvInit, VideoInvStep, PTL
        DEF VideoSpec, FramesInOrder
------------------------------------------------------------------------------
\* Where the frame f is in hand: with the submitter, waiting, or at work.
AtWork(f) ==
    \/ submitter.frame = f
    \/ current # 0 /\ cam[current].pending = f
    \/ \E j \in jobs : j.state = current /\ j.frame = f /\ j.pc # "ending"

\* What became of the frames of a pass that counts from zero: each was
\* committed, gave way, was left out, is still on its way, or was lost, and the
\* counters tell of that.
Reported == current # 0 /\ (cam[current].errors > 0 \/ cam[current].refused > 0)

Accounted(x, f) ==
    \/ fate[f] \in {"coalesced", "skipped"}
    \/ fate[f] = "committed" /\ born[f] = generation
    \/ f \in replaced \/ stream[x].slot = f
    \/ fate[f] = "none" /\ stream[x].stopping /\ stream[x].decoder # "drain"
    \/ fate[f] = "inhand" /\ AtWork(f)
    \/ fate[f] = "lost" /\ Reported

OfPass ==
    /\ \A j \in jobs : j.state = current => born[j.frame] = generation
    /\ submitter.pc \in {"inside", "enqueue"} => born[submitter.frame] = generation

Counted(x) ==
    current # 0 /\ cam[current].processed > 0 =>
       \/ cam[current].errors > 0
       \/ \E f \in Frames : decoded[f] = x /\ fate[f] = "committed"

InPass == {"pass", "handoff", "drain"}

Told(x) ==
    stream[x].decoder \in InPass =>
       LET t == stream[x].token IN
       /\ t.processed = 0 /\ t.errors = 0 /\ t.refused = 0 /\ t.generation <= generation
       /\ t.generation = generation =>
            OfPass /\ Counted(x) /\ \A f \in Frames : decoded[f] = x => Accounted(x, f)

\* A pass that may be marked, or was.
Settled(x) ==
    /\ \E f \in Frames : decoded[f] = x /\ fate[f] = "committed"
    /\ \A f, g \in Frames :
         decoded[f] = x /\ decoded[g] = x /\ fate[f] = "committed" /\ fate[g] = "committed"
         => born[f] = born[g]
    /\ \A f \in Frames : decoded[f] = x =>
         fate[f] \in {"committed", "coalesced", "skipped"} \/ f \in replaced

Before(x) == stream[x].decoder \in {"open", "marked"} =>
               current = 0 /\ \A f \in Frames : decoded[f] # x
After(x)  == stream[x].decoder \in {"drain", "claim"} =>
               stream[x].slot = 0 /\ submitter.pc = "idle"

\* Who gave way in the slot is in no slot any more, and is never submitted.
GaveWay ==
    \A f \in replaced :
       decoded[f] # 0 /\ fate[f] = "none" /\ \A x \in Streams : stream[x].slot # f

PassTold ==
    /\ GaveWay
    /\ \A x \in Streams : Before(x) /\ After(x) /\ Told(x)
    /\ \A x \in Streams : stream[x].decoder = "claim" => Settled(x)
    /\ mark = "completed" =>
         \E x \in Streams : Settled(x) /\ stream[x].decoder \in {"shown", "dead"}

\* The start.
LEMMA PassInit == VideoInit => PassTold
BY FreshStreams
   DEF VideoInit, Init, PassTold, GaveWay, Before, After, Told, InPass, Settled, NoSubmit, Unused

\* The invariant says what the property does.
LEMMA PassImplies == PassTold => CompletedIsWhole
<1> SUFFICES ASSUME PassTold, mark = "completed" PROVE \E x \in Streams : Whole(x)
  BY DEF CompletedIsWhole
<1>1. PICK x \in Streams : Settled(x)
  BY DEF PassTold
<1>2. Whole(x)
  BY <1>1 DEF Settled, Whole
<1> QED BY <1>2

\* Only what is in hand gets another fate, or what leaves the slot.
LEMMA FatesEnd ==
    ASSUME VideoInv, Ordered, [VideoNext]_vars, NEW f \in Frames, fate[f] # "inhand",
           ~\E x \in Streams : TakeFrame(x) /\ stream[x].slot = f
    PROVE  fate'[f] = fate[f]
<1>a. /\ SchedulerInv /\ fate \in [Frames -> Fate] /\ InHand
      /\ \A s \in States : cam[s].pending \in Frames \cup {0}
      /\ current # 0 => current \in States
      /\ \A j \in jobs : j.state \in States
      /\ submitter.pc \in {"inside", "enqueue"} => submitter.state \in States
      /\ remover.pc # "idle" => remover.state \in States
      /\ 0 \notin Frames
  BY FieldTypes DEF VideoInv, Ordered
<1>b. /\ \A s \in States : f \notin Waiting(s)
      /\ submitter.pc # "idle" => f # submitter.frame
      /\ \A j \in jobs : j.pc # "ending" => f # j.frame
  BY <1>a DEF InHand, Waiting
<1>1. ASSUME NEW F, NEW v, fate' = Becomes(F, v), f \notin F PROVE fate'[f] = fate[f]
  BY <1>1 DEF Becomes
<1>2. ASSUME fate' = fate PROVE fate'[f] = fate[f]
  BY <1>2
<1>3. ASSUME Submission \/ EnqueueFails PROVE fate'[f] = fate[f]
  <2>1. CASE Refuse
    BY <2>1, <1>a, <1>b, <1>1 DEF Refuse, Inside
  <2>2. CASE ConfigFails \/ Skip \/ EnqueueFails
    BY <2>2, <1>b, <1>1 DEF ConfigFails, Skip, EnqueueFails
  <2>3. CASE SubmitEnters \/ Enqueue
    BY <2>3, <1>2 DEF SubmitEnters, Enqueue
  <2>4. CASE Hold \/ Schedule
    <3>1. f # submitter.frame /\ f \notin Waiting(submitter.state)
      BY <2>4, <1>a, <1>b DEF Hold, Schedule, Inside
    <3>2. \E g \in Frames : PicksOne(submitter.state, g)
      BY <2>4, <1>a, HoldFields, ScheduleFields
    <3> QED BY <3>1, <3>2 DEF PicksOne
  <2> QED BY <2>1, <2>2, <2>3, <2>4, <1>3 DEF Submission
<1>4. ASSUME NEW j \in jobs, Future(j) PROVE fate'[f] = fate[f]
  <2>1. CASE Claim(j)
    <3>1. f # j.frame /\ f # cam[j.state].pending
      BY <2>1, <1>a, <1>b DEF Claim, Waiting
    <3> QED BY <2>1, <3>1, <1>a, ClaimFields
  <2>2. CASE EnterCommit(j) \/ InferFails(j) \/ CommitFails(j) \/ Commit(j)
    <3>1. f # j.frame
      BY <2>2, <1>b DEF EnterCommit, InferFails, CommitFails, Commit
    <3> QED BY <2>2, <3>1, <1>1, <1>2 DEF EnterCommit, InferFails, CommitFails, Commit
  <2>3. CASE End(j)
    BY <2>3, <1>a, <1>b, <1>1, <1>2 DEF End
  <2> QED BY <1>4, <2>1, <2>2, <2>3 DEF Future
<1>5. ASSUME NEW g, Promote(g) \/ PromoteFails(g) PROVE fate'[f] = fate[f]
  BY <1>5, <1>a, <1>b, <1>1 DEF Promote, PromoteFails, Promotable
<1>6. ASSUME Switching \/ Disable PROVE fate'[f] = fate[f]
  BY <1>6, <1>a, <1>b, <1>1, <1>2 DEF Switching, SwitchEnters, Switch, SwitchFails, Disable
<1>7. ASSUME WorkerStops PROVE fate'[f] = fate[f]
  BY <1>7, <1>a, <1>b, <1>1, <1>2
     DEF WorkerStops, RemovePop, RemoveRetires, RemoveEnds, schedulerVars
<1>8. ASSUME Crash PROVE fate'[f] = fate[f]
  BY <1>8, <1>1 DEF Crash, Restart
<1>9. ASSUME (\E r \in Requests : Read(r) \/ Get(r)) \/ Remove \/ JoinTimesOut
      PROVE  fate'[f] = fate[f]
  BY <1>9, <1>2 DEF Read, Get, Remove, JoinTimesOut, schedulerVars
<1>10. ASSUME NEW x \in Streams, Decoding(x) \/ SubmitterExits(x), ~DrainPromotes(x)
       PROVE  fate'[f] = fate[f]
  BY <1>10, <1>2
     DEF Decoding, SubmitterExits, MarkStarted, MarkFails, BeginPass, Queue, DecodeFails, EndOfFile,
         HandedOff, PassFails, Drained, Complete, ClaimLost, DecoderExits, schedulerVars
<1>11. ASSUME NEW x \in Streams, TakeFrame(x) PROVE fate'[f] = fate[f]
  BY <1>11, <1>1 DEF TakeFrame, Call
<1>12. ASSUME NEW x \in Streams, SubmitRaises(x) \/ DrainPromotes(x) PROVE fate'[f] = fate[f]
  BY <1>12, <1>3, <1>5 DEF SubmitRaises, DrainPromotes
<1>13. ASSUME NEW s \in States, Settle(s) PROVE fate'[f] = fate[f]
  BY <1>13, <1>2 DEF Settle
<1>14. CASE UNCHANGED vars
  BY <1>2, <1>14 DEF vars, schedulerVars
<1>15. CASE VideoNext
  BY <1>3, <1>4, <1>6, <1>7, <1>8, <1>9, <1>10, <1>11, <1>12, <1>13, <1>15 DEF VideoNext
<1> QED BY <1>14, <1>15

\* What is committed stays so, with the generation it was submitted in.
LEMMA CommitsStay ==
    ASSUME VideoInv, Ordered, [VideoNext]_vars, NEW f \in Frames, fate[f] = "committed"
    PROVE  born'[f] = born[f]
<1>a. born \in [Frames -> 0..MaxGeneration] /\ InHand
  BY DEF VideoInv, SchedulerInv, SchedulerTypeOK, Ordered
<1>1. CASE SubmitEnters
  BY <1>1, <1>a DEF SubmitEnters, InHand
<1>2. CASE Crash
  BY <1>2, <1>a DEF Crash, Restart
<1>3. CASE [VideoNext]_vars /\ ~SubmitEnters /\ ~Crash
  <2>1. CASE UNCHANGED vars
    BY <2>1 DEF vars, schedulerVars
  <2>2. ASSUME (\E r \in Requests : Read(r) \/ Get(r)) \/ Remove \/ JoinTimesOut \/ WorkerStops
        PROVE  born' = born
    BY <2>2 DEF Read, Get, Remove, JoinTimesOut, WorkerStops, RemovePop, RemoveRetires, RemoveEnds,
                schedulerVars
  <2>3. ASSUME NEW x \in Streams, Decoding(x) \/ TakeFrame(x) \/ SubmitRaises(x) \/ SubmitterExits(x)
        PROVE  born' = born
    BY <2>3
       DEF Decoding, SubmitterExits, MarkStarted, MarkFails, BeginPass, Queue, DecodeFails,
           EndOfFile, HandedOff, PassFails, Drained, Complete, ClaimLost, DecoderExits, DrainPromotes,
           Promote, PromoteFails, TakeFrame, Call, SubmitRaises, EnqueueFails, schedulerVars
  <2>4. ASSUME Submission \/ Switching \/ Disable PROVE born' = born
    BY <2>4, <1>3
       DEF Submission, Refuse, ConfigFails, Skip, Hold, Schedule, Enqueue, Switching, SwitchEnters,
           Switch, SwitchFails, Disable
  <2>5. ASSUME NEW j \in jobs, Future(j) PROVE born' = born
    BY <2>5 DEF Future, Claim, EnterCommit, Commit, InferFails, CommitFails, End
  <2>6. ASSUME NEW s \in States, Settle(s) PROVE born' = born
    BY <2>6 DEF Settle
  <2> QED BY <1>3, <2>1, <2>2, <2>3, <2>4, <2>5, <2>6 DEF VideoNext
<1> QED BY <1>1, <1>2, <1>3

\* Who decodes a frame, and what gives way to it.
LEMMA DecodesNext ==
    ASSUME VideoInv, [VideoNext]_vars
    PROVE  \/ UNCHANGED <<decoded, replaced>>
           \/ \E x \in Streams, f \in Frames :
                /\ BeginPass(x) \/ Queue(x)
                /\ NextFrame(f) /\ decoded' = [decoded EXCEPT ![f] = x]
                /\ stream'[x].slot = f /\ \A y \in Streams : y # x => stream'[y] = stream[y]
                /\ replaced' = replaced \cup ((IF Queue(x) THEN {stream[x].slot} ELSE {}) \ {0})
<1>a. stream \in [Streams -> CameraStream]
  BY DEF VideoInv, VideoTypeOK
<1>1. ASSUME NEW x \in Streams, Queue(x)
      PROVE  \E f \in Frames :
                /\ NextFrame(f) /\ decoded' = [decoded EXCEPT ![f] = x]
                /\ stream'[x].slot = f /\ \A y \in Streams : y # x => stream'[y] = stream[y]
                /\ replaced' = replaced \cup ({stream[x].slot} \ {0})
  <2>1. PICK f \in Frames : /\ NextFrame(f) /\ decoded' = [decoded EXCEPT ![f] = x]
                            /\ stream' = [stream EXCEPT ![x].slot = f]
                            /\ replaced' = replaced \cup ({stream[x].slot} \ {0})
    BY <1>1, Zenon DEF Queue
  <2>2. stream'[x].slot = f /\ \A y \in Streams : y # x => stream'[y] = stream[y]
    BY <2>1, <1>a DEF CameraStream
  <2> QED BY <2>1, <2>2
<1>2. ASSUME NEW x \in Streams, BeginPass(x)
      PROVE  \E f \in Frames :
                /\ NextFrame(f) /\ decoded' = [decoded EXCEPT ![f] = x]
                /\ stream'[x].slot = f /\ \A y \in Streams : y # x => stream'[y] = stream[y]
                /\ replaced' = replaced /\ ~Queue(x)
  <2>1. PICK f, k :
          /\ f \in Frames /\ NextFrame(f) /\ decoded' = [decoded EXCEPT ![f] = x]
          /\ stream' = [stream EXCEPT ![x].decoder = "pass", ![x].slot = f, ![x].token = k]
    BY <1>2, BeginFields
  <2>2. stream'[x].slot = f /\ \A y \in Streams : y # x => stream'[y] = stream[y]
    BY <2>1, <1>a DEF CameraStream
  <2>3. replaced' = replaced /\ ~Queue(x)
    BY <1>2 DEF BeginPass, Queue, At
  <2> QED BY <2>1, <2>2, <2>3
<1>3. ASSUME NEW x \in Streams, Decoding(x) \/ TakeFrame(x) \/ SubmitRaises(x) \/ SubmitterExits(x),
             ~BeginPass(x), ~Queue(x)
      PROVE  UNCHANGED <<decoded, replaced>>
  BY <1>3
     DEF Decoding, SubmitterExits, MarkStarted, MarkFails, DecodeFails, EndOfFile, HandedOff,
         PassFails, Drained, Complete, ClaimLost, DecoderExits, DrainPromotes, OnWorker, TakeFrame,
         SubmitRaises, videoVars
<1>4. ASSUME (\E r \in Requests : Read(r) \/ Get(r)) \/ Remove \/ JoinTimesOut \/ WorkerStops \/ Crash
      PROVE  UNCHANGED <<decoded, replaced>>
  BY <1>4 DEF Read, Get, Remove, JoinTimesOut, GivesUp, WorkerStops, Stopped, Crash, videoVars
<1>5. CASE OnWorker
  BY <1>5 DEF OnWorker, videoVars
<1>6. CASE UNCHANGED vars
  BY <1>6 DEF vars, videoVars
<1>7. CASE VideoNext
  <2>1. CASE \E x \in Streams : Queue(x)
    BY <2>1, <1>1
  <2>2. CASE \E x \in Streams : BeginPass(x)
    <3>1. PICK x \in Streams : BeginPass(x)
      BY <2>2
    <3>2. PICK f \in Frames :
                /\ NextFrame(f) /\ decoded' = [decoded EXCEPT ![f] = x]
                /\ stream'[x].slot = f /\ \A y \in Streams : y # x => stream'[y] = stream[y]
                /\ replaced' = replaced /\ ~Queue(x)
      BY <3>1, <1>2
    <3> QED BY <3>1, <3>2
  <2>3. CASE ~(\E x \in Streams : Queue(x)) /\ ~(\E x \in Streams : BeginPass(x))
    BY <2>3, <1>3, <1>4, <1>5, <1>7 DEF VideoNext
  <2> QED BY <2>1, <2>2, <2>3
<1> QED BY <1>6, <1>7

\* Only the decoder fills the slot.
LEMMA SlotsEmpty ==
    ASSUME VideoInv, [VideoNext]_vars, NEW x \in Streams, ~BeginPass(x), ~Queue(x)
    PROVE  stream'[x].slot \in {0, stream[x].slot}
<1>a. /\ stream \in [Streams -> CameraStream]
      /\ \A r \in Requests : requests[r].started \in BOOLEAN
      /\ \A b \in BOOLEAN : Opened(b).slot = 0
      /\ Gone.slot = 0 /\ Unused.slot = 0
  BY DEF VideoInv, VideoTypeOK, Opened, Gone, Unused
<1>1. ASSUME NEW b \in BOOLEAN, NEW old, Create(b, old) \/ Drop(old)
      PROVE  stream'[x].slot \in {0, stream[x].slot}
  BY <1>1, <1>a DEF Create, Drop
<1>2. ASSUME NEW who, RequestStop(who) PROVE stream'[x].slot \in {0, stream[x].slot}
  BY <1>2, <1>a DEF RequestStop, CameraStream
<1>3. CASE stream' = stream
  BY <1>3
<1>4. ASSUME NEW r \in Requests, Read(r) \/ Get(r) PROVE stream'[x].slot \in {0, stream[x].slot}
  BY <1>1, <1>2, <1>3, <1>4, <1>a DEF Read, Get
<1>5. ASSUME Remove \/ JoinTimesOut PROVE stream'[x].slot \in {0, stream[x].slot}
  BY <1>2, <1>3, <1>5 DEF Remove, JoinTimesOut, GivesUp
<1>6. ASSUME WorkerStops PROVE stream'[x].slot \in {0, stream[x].slot}
  <2>1. Stopped => stream'[x].slot \in {0, stream[x].slot}
    BY <1>1, <1>a DEF Stopped
  <2> QED BY <2>1, <1>3, <1>6 DEF WorkerStops, GivesUp, videoVars
<1>7. ASSUME NEW y \in Streams, Decoding(y) \/ SubmitterExits(y), ~DrainPromotes(y)
      PROVE  stream'[x].slot \in {0, stream[x].slot}
  <2>1. CASE y = x /\ (BeginPass(y) \/ Queue(y))
    BY <2>1
  <2>2. CASE y # x /\ BeginPass(y)
    <3>1. PICK s : stream' = [stream EXCEPT ![y] = s]
      <4>0. BeginPass(y)
        BY <2>2
      <4>1. PICK f, k :
              /\ f \in Frames /\ NextFrame(f) /\ decoded' = [decoded EXCEPT ![f] = y]
              /\ stream' = [stream EXCEPT ![y].decoder = "pass", ![y].slot = f, ![y].token = k]
        BY <4>0, BeginFields
      <4> QED BY <4>1
    <3> QED BY <3>1, <2>2, <1>a
  <2>3. CASE y # x /\ Queue(y)
    <3>1. PICK f \in Frames : stream' = [stream EXCEPT ![y].slot = f]
      BY <2>3, Zenon DEF Queue
    <3> QED BY <3>1, <2>3, <1>a
  <2>4. CASE ~BeginPass(y) /\ ~Queue(y)
    <3>1. \/ \E pc : GoesTo(y, pc)
          \/ Interrupt(y)
          \/ stream' = [stream EXCEPT ![y].submits = FALSE]
      BY <1>7, <2>4
         DEF Decoding, SubmitterExits, MarkStarted, MarkFails, DecodeFails, EndOfFile,
             HandedOff, PassFails, Drained, Complete, ClaimLost, DecoderExits
    <3> QED BY <3>1, <1>a, SMTT(30) DEF GoesTo, Interrupt, CameraStream
  <2> QED BY <2>1, <2>2, <2>3, <2>4
<1>8. ASSUME NEW y \in Streams, TakeFrame(y) \/ SubmitRaises(y) \/ DrainPromotes(y)
      PROVE  stream'[x].slot \in {0, stream[x].slot}
  BY <1>8, <1>3, <1>a DEF TakeFrame, SubmitRaises, DrainPromotes, OnWorker, videoVars, CameraStream
<1>9. CASE OnWorker
  BY <1>3, <1>9 DEF OnWorker, videoVars
<1>10. CASE Crash
  BY <1>10, <1>a DEF Crash
<1>11. CASE UNCHANGED vars
  BY <1>3, <1>11 DEF vars, videoVars
<1>12. CASE VideoNext
  BY <1>4, <1>5, <1>6, <1>7, <1>8, <1>9, <1>10, <1>12 DEF VideoNext
<1> QED BY <1>11, <1>12

\* What gave way stays so.
LEMMA GaveWayStep ==
    ASSUME VideoInv, Quiet, Ordered, GaveWay, [VideoNext]_vars PROVE GaveWay'
<1>a. /\ stream \in [Streams -> CameraStream] /\ replaced \subseteq Frames
      /\ decoded \in [Frames -> 0..opened] /\ 0 \notin Frames /\ 0 \notin Streams
      /\ \A x \in Streams : stream[x].slot \in Frames \cup {0}
      /\ \A x \in Streams : stream[x].slot # 0 => x = managed /\ decoded[stream[x].slot] = x
      /\ \A x \in Streams : stream[x].slot # 0 => fate[stream[x].slot] = "none"
      /\ \A f \in Frames : f <= f
  BY SchedulerAssumption, SMTT(30)
     DEF VideoInv, VideoTypeOK, Frames, Streams, CameraStream, Quiet, Own, Ordered, History
<1>1. \A f \in Frames :
        fate[f] = "none" /\ (\A x \in Streams : stream[x].slot # f) => fate'[f] = "none"
  BY FatesEnd
<1>2. CASE UNCHANGED <<decoded, replaced>>
  <2>1. ASSUME NEW x \in Streams, BeginPass(x) \/ Queue(x) PROVE FALSE
    <3>1. PICK f \in Frames : NextFrame(f) /\ decoded' = [decoded EXCEPT ![f] = x]
      BY <2>1, Zenon DEF BeginPass, Queue
    <3> QED BY <3>1, <1>2, <1>a DEF NextFrame
  <2>2. \A x \in Streams : stream'[x].slot \in {0, stream[x].slot}
    BY <2>1, SlotsEmpty
  <2> QED BY <1>1, <1>2, <1>a, <2>2 DEF GaveWay
<1>3. ASSUME NEW x \in Streams, NEW f \in Frames,
             NextFrame(f), decoded' = [decoded EXCEPT ![f] = x],
             stream'[x].slot = f, \A y \in Streams : y # x => stream'[y] = stream[y],
             BeginPass(x) \/ Queue(x),
             replaced' = replaced \cup ((IF Queue(x) THEN {stream[x].slot} ELSE {}) \ {0})
      PROVE  GaveWay'
  <2>1. /\ fate' = fate /\ x = managed
        /\ \A y \in Streams : y # x => stream[y].slot = 0
    BY <1>3, <1>a DEF BeginPass, Queue, schedulerVars, At, VideoInv, SingleStream, Alive
  <2>2. ASSUME NEW g \in replaced'
        PROVE  g \in Frames /\ decoded[g] # 0 /\ fate[g] = "none" /\ g # f
    BY <1>3, <2>2, <1>a DEF GaveWay, NextFrame
  <2>3. ASSUME NEW g \in replaced', NEW y \in Streams PROVE stream'[y].slot # g
    BY <1>3, <2>1, <2>2, <2>3, <1>a
  <2>4. ASSUME NEW g \in replaced' PROVE decoded'[g] # 0
    BY <1>3, <2>2, <2>4, <1>a
  <2> QED BY <2>1, <2>2, <2>3, <2>4 DEF GaveWay
<1> QED BY <1>2, <1>3, DecodesNext

\* A pass that is settled stays settled.
LEMMA SettledStays ==
    ASSUME VideoInv, Quiet, Ordered, GaveWay, [VideoNext]_vars, NEW x \in Streams, Settled(x),
           stream[x].decoder \notin {"marked", "pass"}
    PROVE  Settled(x)'
<1>a. /\ decoded \in [Frames -> 0..opened]
      /\ \A y \in Streams : stream[y].slot # 0 => fate[stream[y].slot] = "none"
      /\ \A y \in Streams : stream[y].slot \in Frames \cup {0} /\ 0 \notin Frames
  BY SchedulerAssumption DEF VideoInv, VideoTypeOK, Frames, CameraStream, Ordered, History
<1>1. /\ \A f \in Frames : decoded'[f] = x <=> decoded[f] = x
      /\ replaced \subseteq replaced'
  <2>1. ~BeginPass(x) /\ ~Queue(x)
    BY DEF BeginPass, Queue, At
  <2>2. CASE UNCHANGED <<decoded, replaced>>
    BY <2>2
  <2>3. ASSUME NEW y \in Streams, NEW f \in Frames, BeginPass(y) \/ Queue(y),
               NextFrame(f), decoded' = [decoded EXCEPT ![f] = y],
               replaced' = replaced \cup ((IF Queue(y) THEN {stream[y].slot} ELSE {}) \ {0})
        PROVE  /\ \A g \in Frames : decoded'[g] = x <=> decoded[g] = x
               /\ replaced \subseteq replaced'
    BY <2>1, <2>3, <1>a DEF NextFrame, Streams
  <2> QED BY <2>2, <2>3, DecodesNext
<1>2. \A f \in Frames : fate[f] \in {"committed", "coalesced", "skipped"} => fate'[f] = fate[f]
  BY <1>a, FatesEnd
<1>3. \A f \in Frames : f \in replaced => fate'[f] = "none"
  BY FatesEnd DEF GaveWay
<1>4. \A f \in Frames : fate[f] = "committed" => born'[f] = born[f]
  BY CommitsStay
<1>5. \A f \in Frames : decoded[f] = x /\ fate'[f] = "committed" => fate[f] = "committed"
  BY <1>2, <1>3 DEF Settled
<1> QED BY <1>1, <1>2, <1>4, <1>5 DEF Settled

\* A step of a stream or of the manager: the pass begins over, goes on, or ends,
\* and the worker does nothing.
LEMMA StreamsTold ==
    ASSUME VideoInv, Quiet, Ordered, PassTold, [VideoNext]_vars,
           UNCHANGED <<cam, jobs, submitter, current, fate, born, generation, decoded, replaced>>,
           \A y \in Streams :
              \/ stream'[y].decoder \in {"off", "shown", "dead"}
              \/ /\ stream'[y].decoder = "open" /\ current = 0
                 /\ \A f \in Frames : decoded[f] # y
              \/ stream'[y].decoder = "marked" /\ stream[y].decoder = "open"
              \/ /\ stream'[y].decoder = stream[y].decoder /\ stream'[y].token = stream[y].token
                 /\ \/ stream'[y].stopping /\ stream'[y].slot \in {0, stream[y].slot}
                    \/ /\ stream'[y].stopping = stream[y].stopping
                       /\ stream'[y].slot = stream[y].slot
              \/ /\ stream[y].decoder = "pass" /\ stream'[y].decoder = "handoff"
                 /\ stream'[y].token = stream[y].token
                 /\ stream'[y].stopping = stream[y].stopping /\ stream'[y].slot = stream[y].slot
              \/ /\ stream[y].decoder = "handoff" /\ stream'[y].decoder = "drain"
                 /\ stream'[y].token = stream[y].token /\ ~stream[y].stopping
                 /\ stream[y].slot = 0 /\ stream'[y].slot = 0 /\ submitter.pc = "idle"
              \/ /\ stream[y].decoder = "drain" /\ stream'[y].decoder = "claim"
                 /\ stream'[y].slot = stream[y].slot /\ Settled(y),
           \A y \in Streams :
              stream[y].decoder \in {"shown", "dead"} /\ (\E f \in Frames : decoded[f] = y)
              => stream'[y].decoder \in {"shown", "dead"},
           \/ mark' = "completed" => mark = "completed"
           \/ \E y \in Streams : Settled(y) /\ stream'[y].decoder = "shown"
    PROVE  PassTold'
<1>a. \A y \in Streams : stream[y].slot # 0 =>
        stream[y].slot \in Frames /\ fate[stream[y].slot] = "none"
  <2>1. \A y \in Streams : stream[y].slot \in 0..MaxFrames
    BY DEF VideoInv, VideoTypeOK, CameraStream
  <2> QED BY <2>1, SchedulerAssumption DEF Frames, Ordered, History
<1>b. \A y \in Streams : Settled(y)' <=> Settled(y)
  BY DEF Settled
<1>1. GaveWay'
  BY GaveWayStep DEF PassTold
<1>2. ASSUME NEW y \in Streams PROVE Before(y)' /\ After(y)'
  BY DEF PassTold, Before, After
<1>3. ASSUME NEW y \in Streams PROVE Told(y)'
  <2>1. SUFFICES ASSUME stream'[y].decoder \in InPass
                 PROVE  Told(y)'
    BY DEF Told
  <2>2. stream[y].decoder \in InPass /\ stream'[y].token = stream[y].token
    BY <2>1 DEF InPass
  <2>3. OfPass' <=> OfPass
    BY DEF OfPass
  <2>4. Counted(y)' <=> Counted(y)
    BY DEF Counted
  <2>5. \A f \in Frames : AtWork(f)' <=> AtWork(f)
    BY DEF AtWork
  <2>6. Reported' <=> Reported
    BY DEF Reported
  <2>7. ASSUME NEW f \in Frames, Accounted(y, f) PROVE Accounted(y, f)'
    <3>1. stream[y].decoder = "drain" => stream[y].slot = 0
      BY DEF PassTold, After
    <3>2. CASE stream[y].slot = f /\ stream'[y].slot # f
      <4>0. f # 0
        BY FieldTypes DEF VideoInv
      <4>1. fate[f] = "none"
        BY <3>2, <4>0, <1>a
      <4>3. stream'[y].stopping /\ stream'[y].decoder # "drain"
        BY <2>1, <2>2, <3>1, <3>2, <4>0 DEF InPass
      <4> QED BY <4>1, <4>3 DEF Accounted
    <3>3. CASE stream[y].slot = f => stream'[y].slot = f
      <4>1. fate[f] = "none" /\ stream[y].stopping /\ stream[y].decoder # "drain" =>
              stream'[y].stopping /\ stream'[y].decoder # "drain"
        BY <2>1, <2>2 DEF InPass
      <4> QED BY <2>5, <2>6, <2>7, <3>3, <4>1 DEF Accounted
    <3> QED BY <3>2, <3>3
  <2>8. Told(y)
    BY DEF PassTold
  <2> HIDE DEF Told
  <2>9. /\ stream'[y].token.processed = 0 /\ stream'[y].token.errors = 0
        /\ stream'[y].token.refused = 0 /\ stream'[y].token.generation <= generation'
    BY <2>2, <2>8 DEF Told
  <2>10. stream'[y].token.generation = generation' =>
           OfPass' /\ Counted(y)' /\ \A f \in Frames : decoded'[f] = y => Accounted(y, f)'
    BY <2>2, <2>3, <2>4, <2>7, <2>8 DEF Told
  <2> QED BY <2>9, <2>10 DEF Told
<1>4. \A y \in Streams : stream'[y].decoder = "claim" => Settled(y)'
  BY <1>b DEF PassTold
<1>5. mark' = "completed" =>
        \E y \in Streams : Settled(y)' /\ stream'[y].decoder \in {"shown", "dead"}
  <2>1. CASE \E y \in Streams : Settled(y) /\ stream'[y].decoder = "shown"
    BY <2>1, <1>b
  <2>2. CASE mark' = "completed" => mark = "completed"
    <3>1. SUFFICES ASSUME mark = "completed"
                   PROVE  \E y \in Streams : Settled(y)' /\ stream'[y].decoder \in {"shown", "dead"}
      BY <2>2
    <3>2. PICK y \in Streams : Settled(y) /\ stream[y].decoder \in {"shown", "dead"}
      BY <3>1 DEF PassTold
    <3>3. \E f \in Frames : decoded[f] = y
      BY <3>2 DEF Settled
    <3> QED BY <1>b, <3>2, <3>3
  <2> QED BY <2>1, <2>2
<1> QED BY <1>1, <1>2, <1>3, <1>4, <1>5 DEF PassTold

\* What a pass that counts from zero and has the present detector is told.
Passing(y) ==
    /\ y = managed /\ stream[y].decoder \in InPass /\ remover.pc = "idle"
    /\ OfPass /\ Counted(y)
    /\ \A f \in Frames : decoded[f] = y => Accounted(y, f)

\* What a step of the worker owes to such a pass.
Goes(y) ==
    /\ OfPass' /\ Counted(y)' /\ (Reported => Reported')
    /\ \A f \in Frames :
         decoded[f] = y /\ ((fate[f] = "inhand" /\ AtWork(f)) \/ stream[y].slot = f) =>
           Accounted(y, f)'

\* A step of the worker, or of the submitter.
LEMMA WorkTold ==
    ASSUME VideoInv, Quiet, Ordered, PassTold, [VideoNext]_vars,
           UNCHANGED <<mark, decoded, replaced>>,
           \A y \in Streams : /\ stream'[y].decoder = stream[y].decoder
                              /\ stream'[y].token = stream[y].token
                              /\ stream'[y].stopping = stream[y].stopping
                              /\ stream'[y].slot \in {0, stream[y].slot},
           current' # 0 => current # 0 \/ submitter.pc # "idle",
           submitter'.pc # "idle" => submitter.pc # "idle" \/ \E y \in Streams : stream[y].slot # 0,
           generation' \in Nat /\ generation <= generation',
           \A y \in Streams : Passing(y) /\ generation' = generation => Goes(y)
    PROVE  PassTold'
<1>a. /\ SingleStream /\ Own /\ generation \in Nat /\ Joined
      /\ submitter.pc # "idle" => submitter.frame \in Frames
      /\ \A y \in Streams : stream[y].slot # 0 =>
           y = managed /\ stream[y].slot \in Frames /\ fate[stream[y].slot] = "none"
  <2>1. \A y \in Streams : stream[y].slot \in 0..MaxFrames
    BY DEF VideoInv, VideoTypeOK, CameraStream
  <2> QED BY <2>1, SchedulerAssumption
          DEF VideoInv, Frames, Ordered, History, Quiet, Own, SchedulerInv, SchedulerTypeOK, Placed
<1>1. GaveWay'
  BY GaveWayStep DEF PassTold
<1>b. \A y \in Streams : stream[y].decoder \notin {"off", "dead"} => y = managed
  BY <1>a DEF SingleStream, Alive
<1>2. ASSUME NEW y \in Streams PROVE Before(y)'
  <2>1. SUFFICES ASSUME stream[y].decoder \in {"open", "marked"} PROVE current' = 0
    BY DEF PassTold, Before
  <2> QED BY <2>1, <1>a, <1>b DEF PassTold, Before, Own
<1>3. ASSUME NEW y \in Streams PROVE After(y)'
  <2>1. SUFFICES ASSUME stream[y].decoder \in {"drain", "claim"}
                 PROVE  stream'[y].slot = 0 /\ submitter'.pc = "idle"
    BY DEF After
  <2> QED BY <2>1, <1>a, <1>b DEF PassTold, After
<1>4. ASSUME NEW y \in Streams PROVE Told(y)'
  <2>1. SUFFICES ASSUME stream[y].decoder \in InPass PROVE Told(y)'
    BY DEF Told
  <2>2. /\ Told(y)
        /\ stream'[y].token.processed = 0 /\ stream'[y].token.errors = 0
        /\ stream'[y].token.refused = 0 /\ stream'[y].token.generation <= generation
        /\ stream'[y].token.generation = stream[y].token.generation
    BY <2>1 DEF PassTold, Told
  <2>3. stream[y].token.generation \in Nat
    BY DEF VideoInv, VideoTypeOK, CameraStream, Token
  <2>4. SUFFICES ASSUME generation' = generation, stream[y].token.generation = generation
                 PROVE  OfPass' /\ Counted(y)' /\ \A f \in Frames : decoded'[f] = y => Accounted(y, f)'
    BY <2>2, <2>3, <1>a DEF Told
  <2>5. Passing(y)
    <3>1. OfPass /\ Counted(y) /\ \A f \in Frames : decoded[f] = y => Accounted(y, f)
      BY <2>1, <2>2, <2>4 DEF Told
    <3>2. y = managed /\ remover.pc = "idle"
      BY <2>1, <1>a, <1>b DEF Joined, Dead, InPass
    <3> QED BY <2>1, <3>1, <3>2 DEF Passing
  <2>6. Goes(y)
    BY <2>4, <2>5
  <2>7. ASSUME NEW f \in Frames, decoded[f] = y PROVE Accounted(y, f)'
    <3>1. Accounted(y, f)
      BY <2>5, <2>7 DEF Passing
    <3>2. CASE (fate[f] = "inhand" /\ AtWork(f)) \/ stream[y].slot = f
      BY <2>6, <2>7, <3>2 DEF Goes
    <3>3. CASE f \in replaced
      BY <3>3 DEF Accounted
    <3>4. CASE fate[f] # "inhand" /\ stream[y].slot # f
      <4>1. ASSUME NEW x \in Streams, stream[x].slot = f PROVE FALSE
        <5>1. x = managed /\ f # 0
          BY <1>a, <4>1, FieldTypes DEF VideoInv
        <5>2. y = managed
          BY <2>5 DEF Passing
        <5> QED BY <3>4, <4>1, <5>1, <5>2
      <4>2. fate'[f] = fate[f]
        BY <3>4, <4>1, FatesEnd
      <4>3. fate[f] = "committed" => born'[f] = born[f]
        BY CommitsStay
      <4>4. Reported => Reported'
        BY <2>6 DEF Goes
      <4> QED BY <2>4, <3>1, <3>4, <4>2, <4>3, <4>4 DEF Accounted
    <3> QED BY <3>1, <3>2, <3>3, <3>4 DEF Accounted
  <2> QED BY <2>6, <2>7 DEF Goes
<1>5. \A y \in Streams : stream'[y].decoder = "claim" => Settled(y)'
  BY SettledStays DEF PassTold
<1>6. mark' = "completed" =>
        \E y \in Streams : Settled(y)' /\ stream'[y].decoder \in {"shown", "dead"}
  BY SettledStays DEF PassTold
<1> QED BY <1>1, <1>2, <1>3, <1>4, <1>5, <1>6 DEF PassTold

\* What is in hand is in one place of the pass, or of a state that is retired.
LEMMA Stale ==
    ASSUME VideoInv, Quiet, NEW y \in Streams, Passing(y), NEW j \in jobs, j.state # current
    PROVE  cam[j.state].retired /\ cam[j.state].pending = 0 /\ j.pc # "committing"
BY FieldTypes DEF VideoInv, Quiet, OneState, Passing, SchedulerInv, Placed

\* What the pass is told of the frames at work.
LEMMA PassingFacts ==
    ASSUME VideoInv, Quiet, NEW y \in Streams, Passing(y)
    PROVE  /\ SchedulerInv /\ y = managed /\ 0 \notin Frames /\ 0 \notin States
           /\ fate \in [Frames -> Fate] /\ born \in [Frames -> 0..MaxGeneration]
           /\ generation \in Nat /\ made \in Nat /\ current \in 0..made
           /\ current # 0 =>
                /\ current \in States /\ ~cam[current].retired
                /\ cam[current].processed \in Nat /\ cam[current].errors \in Nat
                /\ cam[current].refused \in Nat /\ cam[current].pending \in Frames \cup {0}
           /\ submitter.pc = "idle" => submitter.frame = 0
           /\ submitter.pc # "idle" => submitter.frame \in Frames
           /\ submitter.pc \in {"inside", "enqueue"} =>
                /\ submitter.state = current /\ current # 0
                /\ born[submitter.frame] = generation
           /\ \A j \in jobs : /\ j \in Job /\ j.state \in States /\ j.frame \in Frames
                              /\ j.state <= made
                              /\ j.state = current =>
                                   born[j.frame] = generation /\ decoded[j.frame] = y /\ current # 0
<1>1. /\ SchedulerInv /\ y = managed /\ 0 \notin Frames /\ 0 \notin States
      /\ fate \in [Frames -> Fate] /\ born \in [Frames -> 0..MaxGeneration]
      /\ generation \in Nat /\ made \in Nat /\ current \in 0..made
  BY FieldTypes, SchedulerAssumption DEF VideoInv, Passing, SchedulerInv, SchedulerTypeOK
<1>2. current # 0 =>
        /\ current \in States /\ ~cam[current].retired
        /\ cam[current].processed \in Nat /\ cam[current].errors \in Nat
        /\ cam[current].refused \in Nat /\ cam[current].pending \in Frames \cup {0}
  BY <1>1, FieldTypes DEF Quiet, OneState
<1>3. /\ submitter.pc = "idle" => submitter.frame = 0
      /\ submitter.pc # "idle" => submitter.frame \in Frames
      /\ submitter.pc \in {"inside", "enqueue"} =>
           /\ submitter.state = current /\ current # 0
           /\ born[submitter.frame] = generation
  BY <1>1, FieldTypes DEF Quiet, Own, Passing, OfPass, SchedulerInv, Placed
<1>4. \A j \in jobs : /\ j \in Job /\ j.state \in States /\ j.frame \in Frames
                      /\ j.state <= made
                      /\ j.state = current =>
                           born[j.frame] = generation /\ decoded[j.frame] = y /\ current # 0
  BY <1>1, <1>2, FieldTypes DEF Quiet, Own, Passing, OfPass, SchedulerInv, Placed
<1> QED BY <1>1, <1>2, <1>3, <1>4

\* A step of the worker that leaves the frames of the pass where they are.
LEMMA GoesOn ==
    ASSUME VideoInv, Ordered, NEW y \in Streams, Passing(y),
           UNCHANGED <<current, generation, born, submitter, stream>>,
           current # 0 =>
              /\ cam'[current].pending = cam[current].pending
              /\ cam'[current].errors = cam[current].errors
              /\ cam'[current].refused = cam[current].refused
              /\ cam'[current].processed = cam[current].processed,
           \A k \in jobs' : k.state = current => k \in jobs,
           \A k \in jobs : k.state = current /\ k.pc # "ending" => k \in jobs',
           \A f \in Frames : decoded[f] = y /\ fate[f] = "committed" => fate'[f] = "committed",
           \A f \in Frames : fate[f] = "inhand" /\ AtWork(f) => fate'[f] = "inhand",
           UNCHANGED decoded
    PROVE  Goes(y)
<1>1. OfPass'
  BY DEF Passing, OfPass
<1>2. Counted(y)'
  BY DEF Passing, Counted
<1>3. Reported => Reported'
  BY DEF Reported
<1>4. \A f \in Frames : AtWork(f) => AtWork(f)'
  BY DEF AtWork
<1>5. ASSUME NEW f \in Frames, decoded[f] = y,
             (fate[f] = "inhand" /\ AtWork(f)) \/ stream[y].slot = f
      PROVE  Accounted(y, f)'
  BY <1>4, <1>5 DEF Accounted
<1> QED BY <1>1, <1>2, <1>3, <1>5 DEF Goes

\* A step of the worker that drops frames of the pass, or commits one, and counts.
LEMMA GoesBy ==
    ASSUME NEW y \in Streams, Passing(y), generation' = generation,
           stream'[y].slot = stream[y].slot, OfPass', Counted(y)', Reported => Reported',
           \A f \in Frames : decoded[f] = y /\ fate[f] = "inhand" /\ AtWork(f) =>
              \/ fate'[f] \in {"coalesced", "skipped"}
              \/ fate'[f] = "committed" /\ born'[f] = generation
              \/ fate'[f] = "lost" /\ Reported'
              \/ fate'[f] = "inhand" /\ AtWork(f)'
    PROVE  Goes(y)
<1>1. ASSUME NEW f \in Frames, decoded[f] = y,
             (fate[f] = "inhand" /\ AtWork(f)) \/ stream[y].slot = f
      PROVE  Accounted(y, f)'
  BY <1>1 DEF Accounted
<1> QED BY <1>1 DEF Goes

\* submit enters.
LEMMA SubmitEntersGoes ==
    ASSUME VideoInv, Quiet, Ordered, NEW y \in Streams, Passing(y), SubmitEnters, UNCHANGED videoVars
    PROVE  Goes(y)
<1>a. /\ submitter.pc = "call" /\ submitter'.pc = "inside" /\ submitter'.frame = submitter.frame
      /\ born' = [born EXCEPT ![submitter.frame] = generation]
      /\ UNCHANGED <<fate, jobs, decoded, stream, generation>>
  BY FieldTypes DEF SubmitEnters, videoVars, VideoInv, Submitter
<1>b. submitter.frame \in Frames
  BY <1>a, PassingFacts
<1>1. CASE current # 0 /\ cam' = cam /\ current' = current
  <2>1. OfPass'
    BY <1>1, <1>a, <1>b, PassingFacts DEF OfPass
  <2>2. Counted(y)' /\ (Reported => Reported')
    BY <1>1, <1>a DEF Counted, Reported, Passing
  <2>3. \A f \in Frames : AtWork(f) => AtWork(f)'
    BY <1>1, <1>a DEF AtWork
  <2> QED BY <1>a, <2>1, <2>2, <2>3, GoesBy
<1>2. CASE current = 0 /\ current' = made + 1 /\ cam'[made + 1].processed = 0
  <2>1. OfPass'
    BY <1>2, <1>a, <1>b, PassingFacts DEF OfPass
  <2>2. Counted(y)' /\ (Reported => Reported')
    BY <1>2, <1>a DEF Counted, Reported, Passing
  <2>3. \A f \in Frames : AtWork(f) => AtWork(f)'
    BY <1>2, <1>a, PassingFacts DEF AtWork
  <2> QED BY <1>a, <2>1, <2>2, <2>3, GoesBy
<1> QED BY <1>1, <1>2, SubmitEntersFields, PassingFacts

\* submit leaves without a future, or raises.
LEMMA LeavesGoes ==
    ASSUME VideoInv, Quiet, Ordered, NEW y \in Streams, Passing(y),
           Refuse \/ ConfigFails \/ Skip \/ EnqueueFails, UNCHANGED decoded,
           stream'[y].slot = stream[y].slot
    PROVE  Goes(y)
<1>a. /\ submitter.pc \in {"inside", "enqueue"} /\ submitter'.pc = "idle" /\ submitter'.frame = 0
      /\ UNCHANGED <<jobs, current, generation, born>>
  BY DEF Refuse, ConfigFails, Skip, EnqueueFails, Inside, Leaves, NoSubmit
<1>b. /\ submitter.state = current /\ current # 0 /\ current \in States
      /\ submitter.frame \in Frames /\ fate \in [Frames -> Fate]
      /\ cam[current].processed \in Nat /\ cam[current].errors \in Nat
      /\ cam[current].refused \in Nat
      /\ Counted(y)
  BY <1>a, PassingFacts DEF Passing
<1>c. SchedulerInv
  BY DEF VideoInv
<1>1. OfPass'
  BY <1>a DEF OfPass, Passing
<1>2. CASE Refuse
  <2>1. /\ Touches(current, cam[current].retired, 0) /\ Counts(current, 0, 0, 1)
        /\ fate' = Becomes({submitter.frame} \cup Waiting(current), "lost")
    BY <1>2, <1>b, <1>c, RefuseFields DEF Refuse
  <2>2. Reported'
    BY <2>1, <1>a, <1>b DEF Counts, Reported
  <2>3. Counted(y)'
    <3>1. cam'[current].processed = cam[current].processed /\ cam'[current].errors = cam[current].errors
      BY <2>1, <1>b DEF Counts
    <3>2. \A f \in Frames : fate[f] = "committed" => fate'[f] = "committed"
      BY <2>1, <1>a, <1>b DEF Becomes, Waiting, Ordered, InHand
    <3> QED BY <3>1, <3>2, <1>a, <1>b DEF Counted
  <2>4. ASSUME NEW f \in Frames, fate[f] = "inhand", AtWork(f)
        PROVE  fate'[f] = "lost" \/ (fate'[f] = "inhand" /\ AtWork(f)')
    <3>1. CASE f = submitter.frame \/ f = cam[current].pending
      BY <2>1, <3>1, PassingFacts DEF Becomes, Waiting
    <3>2. CASE ~(f = submitter.frame \/ f = cam[current].pending)
      BY <2>1, <2>4, <3>2, <1>a DEF Becomes, Waiting, AtWork
    <3> QED BY <3>1, <3>2
  <2> QED BY <1>1, <1>a, <2>2, <2>3, <2>4, GoesBy
<1>3. ASSUME NEW v \in {"lost", "skipped"}, fate' = Becomes({submitter.frame}, v),
             NEW n \in {0, 1}, v = "lost" => n = 1,
             Touches(current, cam[current].retired, cam[current].pending), Counts(current, 0, n, 0)
      PROVE  Goes(y)
  <2>1. /\ cam'[current].processed = cam[current].processed
        /\ cam'[current].errors = cam[current].errors + n
        /\ cam'[current].refused = cam[current].refused
        /\ cam'[current].pending = cam[current].pending
    BY <1>3, <1>b DEF Counts, Touches
  <2>2. (v = "lost" => Reported') /\ (Reported => Reported')
    BY <2>1, <1>a, <1>b, <1>3 DEF Reported
  <2>3. \A f \in Frames : fate'[f] = IF f = submitter.frame THEN v ELSE fate[f]
    BY <1>3 DEF Becomes
  <2>4. Counted(y)'
    <3>1. \A f \in Frames : fate[f] = "committed" => fate'[f] = "committed"
      BY <2>3, <1>a, <1>b DEF Ordered, InHand
    <3> QED BY <3>1, <2>1, <1>a, <1>b DEF Counted
  <2>5. ASSUME NEW f \in Frames, fate[f] = "inhand", AtWork(f)
        PROVE  fate'[f] = v \/ (fate'[f] = "inhand" /\ AtWork(f)')
    BY <2>1, <2>3, <2>5, <1>a DEF AtWork
  <2> QED BY <1>1, <1>3, <1>a, <2>2, <2>4, <2>5, GoesBy
<1>4. CASE ConfigFails
  <2>1. fate' = Becomes({submitter.frame}, "lost")
    BY <1>4 DEF ConfigFails
  <2> QED BY <2>1, <1>3, <1>4, <1>b, <1>c, ConfigFailsFields
<1>5. CASE EnqueueFails
  <2>1. fate' = Becomes({submitter.frame}, "lost")
    BY <1>5 DEF EnqueueFails
  <2> QED BY <2>1, <1>3, <1>5, <1>b, <1>c, EnqueueFailsFields
<1>6. CASE Skip
  <2>1. fate' = Becomes({submitter.frame}, "skipped") /\ cam' = cam
    BY <1>6 DEF Skip
  <2>2. Touches(current, cam[current].retired, cam[current].pending) /\ Counts(current, 0, 0, 0)
    BY <2>1, <1>b DEF Touches, Counts
  <2> QED BY <2>1, <2>2, <1>3
<1> QED BY <1>2, <1>4, <1>5, <1>6

\* Of the new frame and the waiting one, one goes on.
LEMMA PicksGoes ==
    ASSUME VideoInv, Quiet, Ordered, NEW y \in Streams, Passing(y), Hold \/ Schedule,
           UNCHANGED videoVars
    PROVE  Goes(y)
<1>a. /\ submitter.pc = "inside" /\ UNCHANGED <<jobs, current, generation, born, decoded, stream>>
  BY DEF Hold, Schedule, Inside, videoVars
<1>b. /\ submitter.state = current /\ current # 0 /\ current \in States
      /\ submitter.frame \in Frames /\ fate \in [Frames -> Fate] /\ 0 \notin Frames
      /\ cam[current].processed \in Nat /\ cam[current].errors \in Nat
      /\ cam[current].refused \in Nat /\ born[submitter.frame] = generation
      /\ Counted(y) /\ OfPass /\ SchedulerInv
  BY <1>a, PassingFacts DEF Passing
<1>1. PICK f \in Frames :
        /\ PicksOne(current, f) /\ Counts(current, 0, 0, 0)
        /\ \/ /\ Hold /\ Touches(current, cam[current].retired, f)
           \/ /\ Schedule /\ Touches(current, cam[current].retired, 0)
              /\ submitter' = [pc |-> "enqueue", frame |-> f, state |-> current]
  BY <1>b, HoldFields, ScheduleFields
<1>2. AtWork(f)'
  BY <1>1, <1>a, <1>b DEF AtWork, Touches
<1>3. born[f] = generation
  BY <1>1, <1>b DEF PicksOne, SchedulerInv, PureEvidence
<1>4. OfPass'
  <2>1. submitter'.pc \in {"inside", "enqueue"} => submitter'.frame = f
    BY <1>1 DEF Hold, Leaves, NoSubmit
  <2> QED BY <1>a, <1>b, <1>3, <2>1 DEF OfPass
<1>5. \A g \in Frames : \/ fate'[g] = "coalesced" /\ (g = submitter.frame \/ g = cam[current].pending)
                        \/ g = f /\ fate'[g] = "inhand"
                        \/ g # submitter.frame /\ g # cam[current].pending /\ fate'[g] = fate[g]
  BY <1>1, <1>b DEF PicksOne, Waiting
<1>6. Counted(y)' /\ (Reported => Reported')
  <2>1. \A g \in Frames : fate[g] = "committed" => fate'[g] = "committed"
    BY <1>a, <1>b, <1>1, <1>5 DEF Ordered, InHand, PicksOne, Waiting
  <2> QED BY <2>1, <1>1, <1>a, <1>b DEF Counts, Counted, Reported
<1>7. ASSUME NEW g \in Frames, fate[g] = "inhand", AtWork(g)
      PROVE  fate'[g] = "coalesced" \/ (fate'[g] = "inhand" /\ AtWork(g)')
  BY <1>2, <1>5, <1>7, <1>a DEF AtWork
<1> QED BY <1>4, <1>6, <1>7, <1>a, GoesBy

\* A frame gets its future.
LEMMA EnqueueGoes ==
    ASSUME VideoInv, Quiet, Ordered, NEW y \in Streams, Passing(y),
           Enqueue \/ \E g : Promote(g), UNCHANGED videoVars
    PROVE  Goes(y)
<1>a. UNCHANGED <<current, generation, born, decoded, stream>>
  BY DEF Enqueue, Promote, videoVars
<1>b. Counted(y) /\ OfPass /\ SchedulerInv
  BY PassingFacts DEF Passing
<1>1. CASE Enqueue
  <2> DEFINE k == [state |-> current, frame |-> submitter.frame, pc |-> "queued"]
  <2>1. /\ jobs' = jobs \cup {k} /\ UNCHANGED <<fate, cam>> /\ submitter'.pc = "idle"
        /\ submitter'.frame = 0 /\ born[submitter.frame] = generation /\ current # 0
        /\ submitter.frame \in Frames
    BY <1>1, PassingFacts DEF Enqueue, NoSubmit
  <2>2. k.state = current /\ k.frame = submitter.frame /\ k.pc = "queued"
    OBVIOUS
  <2> HIDE DEF k
  <2>3. OfPass'
    BY <2>1, <2>2, <1>a, <1>b DEF OfPass
  <2>4. Counted(y)' /\ (Reported => Reported')
    BY <2>1, <1>a, <1>b DEF Counted, Reported
  <2>5. \A f \in Frames : AtWork(f) => AtWork(f)'
    BY <2>1, <2>2, <1>a DEF AtWork
  <2> QED BY <2>1, <2>3, <2>4, <2>5, <1>a, GoesBy
<1>2. ASSUME NEW g, Promote(g) PROVE Goes(y)
  <2> DEFINE k == [state |-> current, frame |-> cam[current].pending, pc |-> "queued"]
  <2>1. /\ jobs' = jobs \cup {k} /\ submitter' = submitter /\ current # 0
        /\ born[cam[current].pending] = generation /\ cam[current].pending \in Frames
        /\ fate' = Becomes(Waiting(current), "inhand") /\ current \in States
    BY <1>2, PassingFacts DEF Promote, Promotable
  <2>2. k.state = current /\ k.frame = cam[current].pending /\ k.pc = "queued"
    OBVIOUS
  <2> HIDE DEF k
  <2>3. Touches(current, cam[current].retired, 0) /\ Counts(current, 0, 0, 0)
    BY <1>2, <1>b, PromoteFields
  <2>4. fate' = fate
    BY <2>1, PassingFacts DEF Becomes, Waiting, Ordered, InHand
  <2>5. OfPass'
    BY <2>1, <2>2, <1>a, <1>b DEF OfPass
  <2>6. Counted(y)' /\ (Reported => Reported')
    BY <2>1, <2>3, <2>4, <1>a, <1>b, PassingFacts DEF Counted, Reported, Counts
  <2>7. \A f \in Frames : AtWork(f) => AtWork(f)'
    BY <2>1, <2>2, <1>a DEF AtWork
  <2> QED BY <2>4, <2>5, <2>6, <2>7, <1>a, GoesBy
<1> QED BY <1>1, <1>2

\* The waiting frame does not get it.
LEMMA PromoteFailsGoes ==
    ASSUME VideoInv, Quiet, Ordered, NEW y \in Streams, Passing(y), NEW g, PromoteFails(g), ~Promote(g),
           UNCHANGED videoVars
    PROVE  Goes(y)
<1>a. /\ UNCHANGED <<current, generation, born, decoded, stream, jobs, submitter>>
      /\ fate' = Becomes(Waiting(current), "lost") /\ current # 0
  BY DEF PromoteFails, Promotable, videoVars
<1>b. Counted(y) /\ OfPass /\ SchedulerInv
  BY PassingFacts DEF Passing
<1>1. Touches(current, cam[current].retired, 0) /\ Counts(current, 0, 1, 0)
  BY <1>b, PromoteFields
<1>2. Reported'
  BY <1>1, <1>a, PassingFacts DEF Reported, Counts
<1>3. OfPass'
  BY <1>a, <1>b DEF OfPass
<1>4. Counted(y)'
  BY <1>1, <1>a, PassingFacts DEF Counted, Counts
<1>5. ASSUME NEW f \in Frames, fate[f] = "inhand", AtWork(f)
      PROVE  fate'[f] = "lost" \/ (fate'[f] = "inhand" /\ AtWork(f)')
  BY <1>a, <1>5, PassingFacts DEF AtWork, Becomes, Waiting
<1> QED BY <1>2, <1>3, <1>4, <1>5, <1>a, GoesBy

\* The submitter takes the frame out of the slot.
LEMMA TakeGoes ==
    ASSUME VideoInv, Quiet, Ordered, NEW y \in Streams, Passing(y), NEW x \in Streams, TakeFrame(x)
    PROVE  Goes(y)
<1>a. /\ UNCHANGED <<current, generation, born, decoded, jobs, cam>>
      /\ submitter.pc = "idle" /\ submitter'.pc = "call" /\ submitter'.frame = stream[x].slot
      /\ fate' = Becomes({stream[x].slot}, "inhand") /\ stream[x].slot # 0
  BY DEF TakeFrame, Call
<1>b. Counted(y) /\ OfPass /\ y = managed /\ x = managed
  BY <1>a DEF Passing, Quiet, Own
<1>c. fate[stream[x].slot] = "none" /\ submitter.frame = 0 /\ 0 \notin Frames /\ stream[x].slot \in Frames
  <2>1. stream[x].slot \in 0..MaxFrames
    BY DEF VideoInv, VideoTypeOK, CameraStream
  <2> QED BY <2>1, <1>a, PassingFacts, SchedulerAssumption DEF Frames, Ordered, History
<1>1. OfPass' /\ (Reported => Reported')
  BY <1>a, <1>b DEF OfPass, Reported
<1>2. \A f \in Frames : fate'[f] = IF f = stream[x].slot THEN "inhand" ELSE fate[f]
  BY <1>a DEF Becomes
<1>3. Counted(y)'
  BY <1>2, <1>a, <1>b, <1>c DEF Counted
<1>4. ASSUME NEW f \in Frames, (fate[f] = "inhand" /\ AtWork(f)) \/ stream[y].slot = f
      PROVE  fate'[f] = "inhand" /\ AtWork(f)'
  BY <1>2, <1>4, <1>a, <1>b, <1>c DEF AtWork
<1> QED BY <1>1, <1>3, <1>4 DEF Goes, Accounted

\* A future moves on.
LEMMA FutureGoes ==
    ASSUME VideoInv, Quiet, Ordered, NEW y \in Streams, Passing(y), NEW j \in jobs, Future(j),
           UNCHANGED videoVars
    PROVE  Goes(y)
<1>a. UNCHANGED <<current, generation, born, decoded, stream, submitter>>
  BY DEF Future, Claim, EnterCommit, Commit, InferFails, CommitFails, End, videoVars
<1>b. /\ Counted(y) /\ OfPass /\ SchedulerInv /\ Apart /\ InHand
      /\ j.state \in States /\ j.frame \in Frames
  BY PassingFacts DEF Passing, Ordered
<1>c. ASSUME j.state # current
      PROVE  /\ cam[j.state].retired /\ cam[j.state].pending = 0 /\ j.pc # "committing"
             /\ \A f \in Frames : AtWork(f) /\ j.pc # "ending" => f # j.frame
  BY <1>b, <1>c, Stale, PassingFacts DEF AtWork, Apart
<1>d. ASSUME j.state = current
      PROVE  /\ current # 0 /\ born[j.frame] = generation /\ decoded[j.frame] = y
             /\ ~cam[current].retired /\ cam[current].pending \in Frames \cup {0}
             /\ cam[current].processed \in Nat /\ cam[current].errors \in Nat
             /\ cam[current].refused \in Nat /\ 0 \notin Frames
  BY <1>d, PassingFacts
<1>e. ASSUME NEW f, NEW pc, Now(j, f, pc)
      PROVE  /\ \A k \in jobs : k # j => k \in jobs'
             /\ \E k \in jobs' : k.state = j.state /\ k.frame = f /\ k.pc = pc
             /\ \A k \in jobs' : (k \in jobs /\ k # j) \/ (k.state = j.state /\ k.frame = f)
  <2> DEFINE m == [state |-> j.state, frame |-> f, pc |-> pc]
  <2>1. m.state = j.state /\ m.frame = f /\ m.pc = pc
    OBVIOUS
  <2>2. jobs' = (jobs \ {j}) \cup {m}
    BY <1>e DEF Now
  <2> HIDE DEF m
  <2> QED BY <2>1, <2>2
<1>1. CASE Claim(j)
  <2>1. PICK f \in Frames :
          /\ Touches(j.state, cam[j.state].retired, 0) /\ Counts(j.state, 0, 0, 0)
          /\ Now(j, f, "inferring")
          /\ f = j.frame \/ f = cam[j.state].pending
          /\ fate' = [g \in Frames |-> IF g = f THEN "inhand"
                                       ELSE IF g \in {j.frame, cam[j.state].pending} THEN "coalesced"
                                       ELSE fate[g]]
    BY <1>1, <1>b, ClaimFields
  <2>2. fate[j.frame] = "inhand" /\ j.pc = "queued"
    BY <1>1, <1>b DEF Claim, InHand
  <2>3. CASE j.state # current
    <3>1. f = j.frame
      BY <2>1, <2>3, <1>c, PassingFacts
    <3>2. \A g \in Frames : fate'[g] = IF g = f THEN "inhand" ELSE fate[g]
      BY <2>1, <2>3, <3>1, <1>c, PassingFacts
    <3>3. current # 0 => cam'[current] = cam[current]
      BY <2>1, <2>3, PassingFacts DEF Touches
    <3>4. /\ \A k \in jobs' : k.state = current => k \in jobs
          /\ \A k \in jobs : k.state = current => k \in jobs'
      BY <2>1, <2>3, <1>e
    <3> QED BY <2>2, <3>1, <3>2, <3>3, <3>4, <1>a, GoesOn
  <2>4. CASE j.state = current
    <3>1. born[f] = generation
      BY <2>1, <2>4, <1>b, <1>d, PassingFacts DEF SchedulerInv, PureEvidence, Waiting
    <3>2. OfPass'
      BY <2>1, <2>4, <3>1, <1>a, <1>b, <1>e DEF OfPass
    <3>3. \A g \in Frames : \/ fate'[g] = "coalesced"
                            \/ g = f /\ fate'[g] = "inhand"
                            \/ /\ g # j.frame /\ g # cam[current].pending /\ fate'[g] = fate[g]
      BY <2>1, <2>4
    <3>4. /\ cam'[current].processed = cam[current].processed
          /\ cam'[current].errors = cam[current].errors
          /\ cam'[current].refused = cam[current].refused
      BY <2>1, <2>4, <1>d DEF Counts
    <3>5. Counted(y)' /\ (Reported => Reported')
      <4>1. \A g \in Frames : fate[g] = "committed" => fate'[g] = "committed"
        BY <2>1, <2>2, <2>4, <1>b, <1>d DEF InHand
      <4> QED BY <3>4, <4>1, <1>a, <1>b DEF Counted, Reported
    <3>6. ASSUME NEW g \in Frames, fate[g] = "inhand", AtWork(g)
          PROVE  fate'[g] = "coalesced" \/ (fate'[g] = "inhand" /\ AtWork(g)')
      <4>1. AtWork(f)'
        BY <2>1, <2>4, <1>a, <1>e DEF AtWork
      <4>2. CASE g # j.frame /\ g # cam[current].pending /\ fate'[g] = fate[g]
        <5>1. submitter.frame = g \/ \E k \in jobs : k.state = current /\ k.frame = g /\ k.pc # "ending"
          BY <3>6, <4>2 DEF AtWork
        <5>2. AtWork(g)'
          BY <5>1, <4>2, <2>1, <1>a, <1>e DEF AtWork
        <5> QED BY <5>2, <4>2, <3>6
      <4> QED BY <3>3, <4>1, <4>2
    <3> QED BY <3>2, <3>5, <3>6, <1>a, GoesBy
  <2> QED BY <2>3, <2>4
<1>2. CASE End(j)
  <2>1. jobs' = jobs \ {j} /\ j.pc = "ending"
    BY <1>2 DEF End
  <2>2. CASE j.state # current
    <3>1. current # 0 => cam'[current] = cam[current]
      BY <1>2, <2>2, <1>b, EndFields, PassingFacts DEF Touches
    <3>2. \A f \in Frames : fate'[f] = fate[f]
      BY <1>2, <2>2, <1>b, <1>c, EndFields, PassingFacts
    <3> QED BY <2>1, <3>1, <3>2, <1>a, GoesOn
  <2>3. CASE j.state = current
    <3>1. /\ Touches(current, cam[current].retired, cam[current].pending)
          /\ Counts(current, 0, 0, 0) /\ fate' = fate
      BY <1>2, <2>3, <1>b, <1>d, EndFields
    <3>2. /\ cam'[current].pending = cam[current].pending
          /\ cam'[current].errors = cam[current].errors
          /\ cam'[current].refused = cam[current].refused
          /\ cam'[current].processed = cam[current].processed
      BY <2>3, <3>1, <1>d DEF Touches, Counts
    <3> QED BY <2>1, <3>1, <3>2, <1>a, GoesOn
  <2> QED BY <2>2, <2>3
<1>3. ASSUME NEW v \in {"lost", "committed"}, j.pc # "ending",
             fate' = Becomes({j.frame}, v), Now(j, j.frame, "ending"),
             NEW p \in {0, 1}, NEW e \in {0, 1},
             \/ cam' = cam /\ j.state # current
             \/ /\ Touches(j.state, cam[j.state].retired, cam[j.state].pending)
                /\ Counts(j.state, p, e, 0),
             j.state = current => v = "committed" \/ e = 1,
             v = "committed" => j.state = current
      PROVE  Goes(y)
  <2>1. fate[j.frame] = "inhand"
    BY <1>3, <1>b DEF InHand
  <2>2. \A f \in Frames : fate'[f] = IF f = j.frame THEN v ELSE fate[f]
    BY <1>3 DEF Becomes
  <2>3. CASE j.state # current
    <3>1. current # 0 => cam'[current] = cam[current]
      BY <1>3, <2>3, PassingFacts DEF Touches
    <3>2. /\ \A k \in jobs' : k.state = current => k \in jobs
          /\ \A k \in jobs : k.state = current => k \in jobs'
      BY <1>3, <2>3, <1>e
    <3>3. \A f \in Frames : fate[f] = "inhand" /\ AtWork(f) => fate'[f] = "inhand"
      BY <1>3, <2>2, <2>3, <1>c
    <3> QED BY <2>1, <2>2, <3>1, <3>2, <3>3, <1>a, GoesOn
  <2>4. CASE j.state = current
    <3>1. /\ cam'[current].pending = cam[current].pending
          /\ cam'[current].processed = cam[current].processed + p
          /\ cam'[current].errors = cam[current].errors + e
          /\ cam'[current].refused = cam[current].refused
      BY <1>3, <2>4, <1>d DEF Touches, Counts
    <3>2. OfPass'
      BY <1>3, <2>4, <1>a, <1>b, <1>d, <1>e DEF OfPass
    <3>3. (Reported => Reported') /\ (v = "lost" => Reported')
      BY <1>3, <2>4, <3>1, <1>a, <1>d DEF Reported
    <3>4. Counted(y)'
      <4>1. CASE e = 1
        BY <4>1, <3>1, <1>a, <1>d, <2>4 DEF Counted
      <4>2. CASE v = "committed"
        BY <4>2, <2>2, <2>4, <1>a, <1>b, <1>d DEF Counted
      <4> QED BY <1>3, <2>4, <4>1, <4>2
    <3>5. ASSUME NEW f \in Frames, fate[f] = "inhand", AtWork(f)
          PROVE  \/ fate'[f] = "committed" /\ born'[f] = generation
                 \/ fate'[f] = "lost" /\ Reported'
                 \/ fate'[f] = "inhand" /\ AtWork(f)'
      <4>1. CASE f = j.frame
        BY <4>1, <1>3, <2>2, <2>4, <3>3, <1>a, <1>d
      <4>2. CASE f # j.frame
        <5>1. AtWork(f)'
          BY <3>1, <3>5, <4>2, <1>3, <1>a, <1>e DEF AtWork
        <5> QED BY <5>1, <4>2, <2>2, <3>5
      <4> QED BY <4>1, <4>2
    <3> QED BY <3>2, <3>3, <3>4, <3>5, <1>a, GoesBy
  <2> QED BY <2>3, <2>4
<1>4. CASE EnterCommit(j)
  <2>1. j.pc = "inferring" /\ cam' = cam
    BY <1>4 DEF EnterCommit
  <2>2. CASE j.state # current
    <3>1. Now(j, j.frame, "ending") /\ fate' = Becomes({j.frame}, "lost")
      BY <1>4, <2>2, <1>b, <1>c, EnterCommitFields
    <3> QED BY <2>1, <2>2, <3>1, <1>3
  <2>3. CASE j.state = current
    <3>1. Now(j, j.frame, "committing") /\ fate' = fate
      BY <1>4, <2>3, <1>b, <1>d, EnterCommitFields
    <3>2. OfPass'
      BY <2>3, <3>1, <1>a, <1>b, <1>d, <1>e DEF OfPass
    <3>3. Counted(y)' /\ (Reported => Reported')
      BY <2>1, <3>1, <1>a, <1>b DEF Counted, Reported
    <3>4. ASSUME NEW f \in Frames, AtWork(f) PROVE AtWork(f)'
      <4>1. \E k \in jobs' : k.state = current /\ k.frame = j.frame /\ k.pc = "committing"
        BY <2>3, <3>1, <1>e
      <4>2. \A k \in jobs : k # j => k \in jobs'
        BY <3>1, <1>e
      <4> QED BY <3>4, <4>1, <4>2, <2>1, <1>a DEF AtWork
    <3> QED BY <3>1, <3>2, <3>3, <3>4, <1>a, GoesBy
  <2> QED BY <2>2, <2>3
<1>5. CASE Commit(j)
  <2>1. j.pc = "committing" /\ fate' = Becomes({j.frame}, "committed") /\ j.state = current
    BY <1>5, <1>c DEF Commit
  <2> QED BY <1>5, <2>1, <1>3, <1>b, CommitFields
<1>6. CASE InferFails(j)
  <2>1. j.pc = "inferring" /\ fate' = Becomes({j.frame}, "lost")
    BY <1>6 DEF InferFails
  <2>2. (IF born[j.frame] = generation THEN 1 ELSE 0) \in {0, 1}
    OBVIOUS
  <2> QED BY <1>6, <2>1, <2>2, <1>3, <1>b, <1>d, InferFailsFields
<1>7. CASE CommitFails(j)
  <2>1. j.pc = "committing" /\ fate' = Becomes({j.frame}, "lost") /\ j.state = current
    BY <1>7, <1>c DEF CommitFails
  <2>2. PICK n \in {0, 1} :
              /\ Touches(j.state, cam[j.state].retired, cam[j.state].pending)
              /\ Counts(j.state, n, 1, 0)
              /\ Now(j, j.frame, "ending")
    BY <1>7, <2>1, <1>b, <1>d, CommitFailsFields
  <2> QED BY <2>1, <2>2, <1>3
<1> QED BY <1>1, <1>2, <1>4, <1>5, <1>6, <1>7 DEF Future

\* The token of a pass of a camera that has no state counts from zero.
LEMMA BeginToken ==
    ASSUME NEW x \in Streams, BeginPass(x), current = 0
    PROVE  \E f, k :
              /\ f \in Frames /\ NextFrame(f) /\ decoded' = [decoded EXCEPT ![f] = x]
              /\ stream' = [stream EXCEPT ![x].decoder = "pass", ![x].slot = f, ![x].token = k]
              /\ k.generation = generation /\ k.processed = 0 /\ k.errors = 0 /\ k.refused = 0
<1> DEFINE k == [generation |-> generation,
                 processed |-> IF current = 0 THEN 0 ELSE cam[current].processed,
                 errors    |-> IF current = 0 THEN 0 ELSE cam[current].errors,
                 refused   |-> IF current = 0 THEN 0 ELSE cam[current].refused]
<1>1. k.generation = generation /\ k.processed = 0 /\ k.errors = 0 /\ k.refused = 0
  OBVIOUS
<1>2. PICK f \in Frames :
        /\ NextFrame(f) /\ decoded' = [decoded EXCEPT ![f] = x]
        /\ stream' = [stream EXCEPT ![x].decoder = "pass", ![x].slot = f, ![x].token = k]
  BY Zenon DEF BeginPass
<1> HIDE DEF k
<1> QED BY <1>1, <1>2

\* The first frames of a pass.
LEMMA DecodeTold ==
    ASSUME VideoInv, Quiet, Ordered, PassTold, [VideoNext]_vars, NEW x \in Streams,
           BeginPass(x) \/ Queue(x)
    PROVE  PassTold'
<1>a. /\ stream \in [Streams -> CameraStream] /\ decoded \in [Frames -> 0..opened]
      /\ 0 \notin Frames /\ 0 \notin States /\ generation \in Nat
      /\ \A y \in Streams : stream[y].slot \in Frames \cup {0}
      /\ \A j \in jobs : j.state \in States
      /\ \A y \in Streams : stream[y].decoder \notin {"off", "dead"} => y = managed
  BY SchedulerAssumption, FieldTypes, SMTT(30)
     DEF VideoInv, VideoTypeOK, Frames, CameraStream, SchedulerInv, SchedulerTypeOK, SingleStream,
         Alive
<1>b. /\ UNCHANGED schedulerVars /\ mark' = mark /\ stream[x].decoder \in {"marked", "pass"}
      /\ x = managed
  BY <1>a DEF BeginPass, Queue, At
<1>1. PICK f \in Frames :
        /\ NextFrame(f) /\ decoded' = [decoded EXCEPT ![f] = x]
        /\ stream'[x].slot = f /\ stream'[x].decoder = "pass"
        /\ \A y \in Streams : y # x => stream'[y] = stream[y]
        /\ Told(x)'
  <2>1. CASE BeginPass(x)
    <3>1. current = 0 /\ \A g \in Frames : decoded[g] # x
      BY <2>1 DEF PassTold, Before, BeginPass, At
    <3>2. PICK f, k :
              /\ f \in Frames /\ NextFrame(f) /\ decoded' = [decoded EXCEPT ![f] = x]
              /\ stream' = [stream EXCEPT ![x].decoder = "pass", ![x].slot = f, ![x].token = k]
              /\ k.generation = generation /\ k.processed = 0 /\ k.errors = 0 /\ k.refused = 0
      BY <2>1, <3>1, BeginToken
    <3>3. /\ stream'[x].slot = f /\ stream'[x].decoder = "pass" /\ stream'[x].token = k
          /\ \A y \in Streams : y # x => stream'[y] = stream[y]
      BY <3>2, <1>a DEF CameraStream
    <3>4. submitter.pc = "idle"
      BY <3>1, <1>b, FieldTypes DEF Quiet, Own, VideoInv, SchedulerInv, Placed
    <3>5. OfPass' /\ Counted(x)'
      BY <3>1, <3>4, <1>a, <1>b DEF OfPass, Counted, schedulerVars
    <3>6. ASSUME NEW g \in Frames, decoded'[g] = x PROVE Accounted(x, g)'
      BY <3>1, <3>2, <3>3, <3>6, <1>a DEF Accounted
    <3>7. generation' = generation
      BY <1>b DEF schedulerVars
    <3>8. Told(x)'
      BY <3>2, <3>3, <3>5, <3>6, <3>7, <1>a DEF Told
    <3> QED BY <3>2, <3>3, <3>8
  <2>2. CASE Queue(x)
    <3>1. PICK f \in Frames : /\ NextFrame(f) /\ decoded' = [decoded EXCEPT ![f] = x]
                              /\ stream' = [stream EXCEPT ![x].slot = f]
      BY <2>2, Zenon DEF Queue
    <3>2. /\ stream'[x].slot = f /\ stream'[x].decoder = "pass" /\ stream[x].decoder = "pass"
          /\ stream'[x].token = stream[x].token /\ stream'[x].stopping = stream[x].stopping
          /\ \A y \in Streams : y # x => stream'[y] = stream[y]
          /\ replaced' = replaced \cup ({stream[x].slot} \ {0})
      BY <2>2, <3>1, <1>a DEF CameraStream, Queue, At
    <3>3. /\ OfPass' <=> OfPass
          /\ Reported' <=> Reported
          /\ \A g \in Frames : AtWork(g)' <=> AtWork(g)
          /\ generation' = generation
      BY <1>b DEF OfPass, Reported, AtWork, schedulerVars
    <3>4. \A g \in Frames : decoded'[g] = x <=> decoded[g] = x \/ g = f
      BY <3>1, <1>a
    <3>5. Counted(x) => Counted(x)'
      BY <3>4, <1>b DEF Counted, schedulerVars
    <3>6. ASSUME NEW g \in Frames, decoded'[g] = x,
                 \A h \in Frames : decoded[h] = x => Accounted(x, h)
          PROVE  Accounted(x, g)'
      <4>1. CASE g = f
        BY <4>1, <3>2 DEF Accounted
      <4>2. CASE stream[x].slot = g
        BY <4>2, <3>2, <1>a DEF Accounted
      <4>3. CASE g # f /\ stream[x].slot # g
        <5>1. Accounted(x, g)
          BY <4>3, <3>4, <3>6
        <5> QED BY <5>1, <4>3, <3>2, <3>3, <1>b DEF Accounted, schedulerVars
      <4> QED BY <4>1, <4>2, <4>3
    <3>7. Told(x)
      BY DEF PassTold
    <3>8. Told(x)'
      BY <3>2, <3>3, <3>5, <3>6, <3>7 DEF Told, InPass
    <3> QED BY <3>1, <3>2, <3>8
  <2> QED BY <2>1, <2>2
<1>2. GaveWay'
  BY GaveWayStep DEF PassTold
<1>3. ASSUME NEW y \in Streams
      PROVE  /\ Before(y)' /\ After(y)' /\ Told(y)'
             /\ stream'[y].decoder # "claim"
  <2>1. CASE y = x
    BY <1>1, <2>1 DEF Before, After
  <2>2. CASE y # x
    <3>1. stream'[y].decoder \in {"off", "dead"}
      BY <2>2, <1>1, <1>a, <1>b
    <3> QED BY <3>1 DEF Before, After, Told, InPass
  <2> QED BY <2>1, <2>2
<1>4. mark' = "completed" =>
        \E y \in Streams : Settled(y)' /\ stream'[y].decoder \in {"shown", "dead"}
  <2>1. SUFFICES ASSUME mark = "completed"
                 PROVE  \E y \in Streams : Settled(y)' /\ stream'[y].decoder \in {"shown", "dead"}
    BY <1>b
  <2>2. PICK y \in Streams : Settled(y) /\ stream[y].decoder \in {"shown", "dead"}
    BY <2>1 DEF PassTold
  <2>3. Settled(y)'
    BY <2>2, SettledStays DEF PassTold
  <2>4. y # x
    BY <2>2, <1>b
  <2> QED BY <2>2, <2>3, <2>4, <1>1
<1> QED BY <1>2, <1>3, <1>4 DEF PassTold

\* A stream is created in the place of a dead one, or only dropped.
LEMMA CreateTold ==
    ASSUME VideoInv, Quiet, Ordered, PassTold, [VideoNext]_vars, NEW started \in BOOLEAN, NEW old,
           Create(started, old) \/ Drop(old), current = 0, old = managed,
           UNCHANGED <<cam, jobs, submitter, current, fate, born, generation, decoded, replaced, mark>>
    PROVE  PassTold'
<1>a. /\ decoded \in [Frames -> 0..opened] /\ opened \in Nat
      /\ Gone.decoder = "dead" /\ Opened(started).decoder \in {"open", "shown"}
  <2>1. decoded \in [Frames -> 0..opened] /\ opened \in Nat
    BY VideoAssumption DEF VideoInv, VideoTypeOK
  <2>2. Gone.decoder = "dead" /\ Opened(started).decoder \in {"open", "shown"}
    BY DEF Opened, Gone, Unused
  <2> QED BY <2>1, <2>2
<1>1. \A y \in Streams : \/ stream'[y].decoder \in {"off", "shown", "dead"}
                         \/ /\ stream'[y].decoder = "open" /\ current = 0
                            /\ \A f \in Frames : decoded[f] # y
                         \/ stream'[y] = stream[y]
  BY <1>a DEF Create, Drop
<1>2. \A y \in Streams :
        stream[y].decoder \in {"shown", "dead"} /\ (\E f \in Frames : decoded[f] = y)
        => stream'[y].decoder \in {"shown", "dead"}
  BY <1>a DEF Create, Drop
<1> QED BY <1>1, <1>2, StreamsTold

\* A stream is asked to stop.
LEMMA StopTold ==
    ASSUME VideoInv, Quiet, Ordered, PassTold, [VideoNext]_vars, NEW who, RequestStop(who),
           UNCHANGED <<cam, jobs, submitter, current, fate, born, generation, decoded, replaced, mark>>
    PROVE  PassTold'
<1>a. stream \in [Streams -> CameraStream]
  BY DEF VideoInv, VideoTypeOK
<1>1. \A y \in Streams : /\ stream'[y].decoder = stream[y].decoder
                         /\ stream'[y].token = stream[y].token
                         /\ \/ stream'[y].stopping /\ stream'[y].slot \in {0, stream[y].slot}
                            \/ /\ stream'[y].stopping = stream[y].stopping
                               /\ stream'[y].slot = stream[y].slot
  BY <1>a DEF RequestStop, CameraStream
<1> QED BY <1>1, StreamsTold

\* A pass that the drain finds complete is settled.
LEMMA DrainedSettles ==
    ASSUME VideoInv, Quiet, Ordered, PassTold, NEW x \in Streams, Drained(x)
    PROVE  Settled(x)
<1>a. /\ At(x, "drain") /\ PassComplete(stream[x].token)
  BY DEF Drained
<1>b. /\ Told(x) /\ stream[x].slot = 0 /\ submitter.pc = "idle" /\ 0 \notin Frames
      /\ current # 0 /\ current \in States /\ OneFuture
      /\ cam[current].processed \in Nat /\ cam[current].errors \in Nat /\ cam[current].refused \in Nat
      /\ submitter.frame = 0
  BY <1>a, FieldTypes
     DEF PassTold, After, At, PassComplete, VideoInv, SchedulerInv, Quiet, Own
<1>1. /\ stream[x].token.generation = generation
      /\ cam[current].errors = 0 /\ cam[current].refused = 0 /\ cam[current].processed > 0
      /\ ~cam[current].busy /\ cam[current].pending = 0
  BY <1>a, <1>b DEF Told, InPass, At, PassComplete
<1>2. Counted(x) /\ \A f \in Frames : decoded[f] = x => Accounted(x, f)
  BY <1>a, <1>b, <1>1 DEF Told, InPass, At
<1>3. ~Reported
  BY <1>1, <1>b DEF Reported
<1>4. \A f \in Frames : ~AtWork(f)
  BY <1>1, <1>b DEF AtWork, OneFuture
<1>5. \E f \in Frames : decoded[f] = x /\ fate[f] = "committed"
  BY <1>1, <1>2, <1>b DEF Counted
<1>6. ASSUME NEW f \in Frames, decoded[f] = x
      PROVE  \/ fate[f] \in {"coalesced", "skipped"} \/ f \in replaced
             \/ fate[f] = "committed" /\ born[f] = generation
  BY <1>2, <1>3, <1>4, <1>6, <1>a, <1>b DEF Accounted, At
<1>7. \A f \in replaced : fate[f] = "none"
  BY DEF PassTold, GaveWay
<1> QED BY <1>5, <1>6, <1>7 DEF Settled

\* Every step keeps the account of the pass.
LEMMA PassStep == VideoInv /\ Quiet /\ Ordered /\ PassTold /\ [VideoNext]_vars => PassTold'
<1> SUFFICES ASSUME VideoInv, Quiet, Ordered, PassTold, [VideoNext]_vars PROVE PassTold'
  OBVIOUS
<1>a. /\ stream \in [Streams -> CameraStream] /\ \A r \in Requests : requests[r].started \in BOOLEAN
      /\ managed \in Streams \cup {0} /\ generation \in Nat /\ managed \in 0..opened
      /\ decoded \in [Frames -> 0..opened]
      /\ \A y \in Streams : stream[y].decoder \notin {"off", "dead"} => y = managed
      /\ OneState /\ Joined /\ Own
      /\ generation \in 0..MaxGeneration /\ MaxGeneration \in Nat
  <2>1. managed \in 0..opened /\ opened \in 0..MaxStreams
    BY DEF VideoInv, VideoTypeOK
  <2>2. managed \in Streams \cup {0}
    BY <2>1, VideoAssumption DEF Streams
  <2> QED BY <2>1, <2>2, SchedulerAssumption
          DEF VideoInv, VideoTypeOK, SchedulerInv, SchedulerTypeOK, SingleStream, Alive, Quiet
<1>1. ASSUME UNCHANGED <<cam, jobs, submitter, current, fate, born, generation, decoded, replaced,
                         mark, stream>>
      PROVE  PassTold'
  BY <1>1, StreamsTold
<1>2. CASE UNCHANGED vars
  BY <1>1, <1>2 DEF vars, schedulerVars, videoVars
<1>3. ASSUME (\E r \in Requests : Read(r)) \/ JoinTimesOut PROVE PassTold'
  BY <1>1, <1>3 DEF Read, JoinTimesOut, GivesUp, schedulerVars
<1>4. ASSUME NEW r \in Requests, Get(r) PROVE PassTold'
  <2>1. UNCHANGED <<cam, jobs, submitter, current, fate, born, generation, decoded, replaced, mark>>
    BY <1>4 DEF Get, schedulerVars
  <2>2. CASE stream' = stream
    BY <1>1, <2>1, <2>2
  <2>3. CASE managed = 0 /\ Create(requests[r].started, 0)
    BY <2>1, <2>3, <1>a, CreateTold DEF Joined
  <2>4. CASE RequestStop(r)
    BY <2>1, <2>4, StopTold
  <2> QED BY <1>4, <2>2, <2>3, <2>4 DEF Get
<1>5. ASSUME Remove PROVE PassTold'
  <2>1. UNCHANGED <<cam, jobs, submitter, current, fate, born, generation, decoded, replaced, mark>>
    BY <1>5 DEF Remove, schedulerVars
  <2> QED BY <2>1, <1>5, StopTold DEF Remove
<1>6. ASSUME WorkerStops PROVE PassTold'
  <2>1. CASE (RemovePop \/ RemoveRetires) /\ UNCHANGED videoVars
    <3>1. /\ UNCHANGED <<mark, decoded, replaced, stream, generation, submitter>>
          /\ current' # 0 => current # 0
      BY <2>1 DEF RemovePop, RemoveRetires, videoVars
    <3>2. \A y \in Streams : ~Passing(y)
      BY <1>6 DEF WorkerStops, Dead, Passing, InPass
    <3> QED BY <3>1, <3>2, <1>a, WorkTold
  <2>2. CASE GivesUp /\ (\E b \in BOOLEAN : RemoveEnds(b))
    BY <2>2, <1>1 DEF RemoveEnds, GivesUp
  <2>3. CASE Stopped /\ ((current = 0 /\ UNCHANGED schedulerVars) \/ \E b \in BOOLEAN : RemoveEnds(b))
    <3>1. UNCHANGED <<cam, jobs, submitter, current, fate, born, generation, decoded, replaced, mark>>
      BY <2>3 DEF Stopped, RemoveEnds, schedulerVars
    <3>2. current = 0
      BY <2>3, <1>a DEF RemoveEnds, OneState
    <3>3. \/ manager \in Requests /\ Create(requests[manager].started, managed)
          \/ Drop(managed)
      BY <2>3 DEF Stopped
    <3>4. CASE Drop(managed)
      BY <3>1, <3>2, <3>4, CreateTold
    <3>5. CASE manager \in Requests /\ Create(requests[manager].started, managed)
      BY <3>1, <3>2, <3>5, <1>a, CreateTold
    <3> QED BY <3>3, <3>4, <3>5
  <2> QED BY <1>6, <2>1, <2>2, <2>3 DEF WorkerStops
<1>7. ASSUME NEW x \in Streams, Decoding(x) \/ SubmitterExits(x),
             ~BeginPass(x), ~Queue(x), ~DrainPromotes(x)
      PROVE  PassTold'
  <2>1. UNCHANGED <<cam, jobs, submitter, current, fate, born, generation, decoded, replaced>>
    BY <1>7 DEF Decoding, SubmitterExits, MarkStarted, MarkFails, DecodeFails, EndOfFile,
                HandedOff, PassFails, Drained, Complete, ClaimLost, DecoderExits, schedulerVars
  <2>2. ASSUME NEW pc, GoesTo(x, pc)
        PROVE  /\ \A y \in Streams : y # x => stream'[y] = stream[y]
               /\ stream'[x].decoder = pc /\ stream'[x].token = stream[x].token
               /\ stream'[x].stopping = stream[x].stopping /\ stream'[x].slot = stream[x].slot
    BY <2>2, <1>a DEF GoesTo, CameraStream
  <2>3. ASSUME Interrupt(x)
        PROVE  /\ \A y \in Streams : y # x => stream'[y] = stream[y]
               /\ stream'[x].decoder = "shown"
    BY <2>3, <1>a DEF Interrupt, CameraStream
  <2>4. CASE MarkStarted(x)
    <3>1. /\ GoesTo(x, "marked") /\ stream[x].decoder = "open"
          /\ mark' = "completed" => mark = "completed"
      BY <2>4 DEF MarkStarted, At
    <3> QED BY <3>1, <2>1, <2>2, StreamsTold
  <2>5. CASE EndOfFile(x)
    <3>1. GoesTo(x, "handoff") /\ stream[x].decoder = "pass" /\ mark' = mark
      BY <2>5 DEF EndOfFile, At
    <3> QED BY <3>1, <2>1, <2>2, StreamsTold
  <2>6. CASE HandedOff(x)
    <3>1. /\ GoesTo(x, "drain") /\ stream[x].decoder = "handoff" /\ mark' = mark
          /\ ~stream[x].stopping /\ stream[x].slot = 0 /\ ~Submitting(x)
      BY <2>6 DEF HandedOff, At
    <3>2. submitter.pc = "idle"
      BY <3>1, <1>a DEF Submitting, Own
    <3> QED BY <3>1, <3>2, <2>1, <2>2, StreamsTold
  <2>7. CASE Drained(x)
    <3>1. /\ GoesTo(x, "claim") /\ stream[x].decoder = "drain" /\ mark' = mark /\ Settled(x)
      BY <2>7, DrainedSettles DEF Drained, At
    <3> QED BY <3>1, <2>1, <2>2, StreamsTold
  <2>8. CASE Complete(x)
    <3>1. /\ Interrupt(x) /\ stream[x].decoder = "claim" /\ Settled(x)
      BY <2>8 DEF Complete, At, PassTold
    <3> QED BY <3>1, <2>1, <2>3, StreamsTold
  <2>9. CASE MarkFails(x) \/ DecodeFails(x) \/ PassFails(x) \/ ClaimLost(x)
    <3>1. /\ Interrupt(x) /\ mark' = mark
      BY <2>9 DEF MarkFails, DecodeFails, PassFails, ClaimLost
    <3> QED BY <3>1, <2>1, <2>3, StreamsTold
  <2>10. CASE DecoderExits(x)
    <3>1. GoesTo(x, "dead") /\ mark' = mark
      BY <2>10 DEF DecoderExits
    <3> QED BY <3>1, <2>1, <2>2, StreamsTold
  <2>11. CASE SubmitterExits(x)
    <3>1. /\ mark' = mark
          /\ \A y \in Streams :
               /\ stream'[y].decoder = stream[y].decoder /\ stream'[y].token = stream[y].token
               /\ stream'[y].stopping = stream[y].stopping /\ stream'[y].slot = stream[y].slot
      BY <2>11, <1>a DEF SubmitterExits, CameraStream
    <3> QED BY <3>1, <2>1, StreamsTold
  <2> QED BY <1>7, <2>4, <2>5, <2>6, <2>7, <2>8, <2>9, <2>10, <2>11 DEF Decoding
<1>8. ASSUME NEW x \in Streams, BeginPass(x) \/ Queue(x) PROVE PassTold'
  BY <1>8, DecodeTold
<1>9. ASSUME NEW x \in Streams, TakeFrame(x) PROVE PassTold'
  <2>1. /\ UNCHANGED <<mark, decoded, replaced, current, generation>> /\ stream[x].slot # 0
        /\ \A y \in Streams : /\ stream'[y].decoder = stream[y].decoder
                              /\ stream'[y].token = stream[y].token
                              /\ stream'[y].stopping = stream[y].stopping
                              /\ stream'[y].slot \in {0, stream[y].slot}
    BY <1>9, <1>a DEF TakeFrame, Call, CameraStream
  <2>2. \A y \in Streams : Passing(y) => Goes(y)
    BY <1>9, TakeGoes
  <2> QED BY <2>1, <2>2, <1>a, WorkTold
<1>10. ASSUME NEW x \in Streams, SubmitRaises(x) PROVE PassTold'
  <2>1. /\ UNCHANGED <<mark, decoded, replaced, current, generation>> /\ EnqueueFails
        /\ submitter.pc # "idle"
        /\ \A y \in Streams : /\ stream'[y].decoder = stream[y].decoder
                              /\ stream'[y].token = stream[y].token
                              /\ stream'[y].stopping = stream[y].stopping
                              /\ stream'[y].slot = stream[y].slot
    BY <1>10, <1>a DEF SubmitRaises, EnqueueFails, CameraStream
  <2>2. \A y \in Streams : Passing(y) => Goes(y)
    BY <2>1, LeavesGoes
  <2>3. generation' \in Nat /\ generation <= generation'
    BY <2>1, <1>a
  <2>4. current' # 0 => current # 0 \/ submitter.pc # "idle"
    BY <2>1
  <2>5. submitter'.pc # "idle" => submitter.pc # "idle" \/ \E y \in Streams : stream[y].slot # 0
    BY <2>1
  <2>6. \A y \in Streams : /\ stream'[y].decoder = stream[y].decoder
                            /\ stream'[y].token = stream[y].token
                            /\ stream'[y].stopping = stream[y].stopping
                            /\ stream'[y].slot \in {0, stream[y].slot}
    BY <2>1
  <2>7. UNCHANGED <<mark, decoded, replaced>>
    BY <2>1
  <2>8. \A y \in Streams : Passing(y) /\ generation' = generation => Goes(y)
    BY <2>2
  <2> QED BY <2>3, <2>4, <2>5, <2>6, <2>7, <2>8, WorkTold
<1>11. ASSUME UNCHANGED videoVars,
              current' # 0 => current # 0 \/ submitter.pc # "idle",
              submitter'.pc # "idle" => submitter.pc # "idle",
              generation' \in Nat /\ generation <= generation',
              \A y \in Streams : Passing(y) /\ generation' = generation => Goes(y)
       PROVE  PassTold'
  <2>1. UNCHANGED <<mark, decoded, replaced, stream>>
    BY <1>11 DEF videoVars
  <2> QED BY <1>11, <2>1, WorkTold
<1>12. ASSUME Submission, UNCHANGED videoVars PROVE PassTold'
  <2>1. /\ current' # 0 => current # 0 \/ submitter.pc # "idle"
        /\ submitter.pc # "idle" /\ generation' = generation
    BY <1>12 DEF Submission, SubmitEnters, Refuse, ConfigFails, Skip, Hold, Schedule, Enqueue, Inside
  <2>2. ASSUME NEW y \in Streams, Passing(y) PROVE Goes(y)
    <3>1. UNCHANGED <<decoded, stream>>
      BY <1>12 DEF videoVars
    <3> QED BY <3>1, <2>2, <1>12, SubmitEntersGoes, LeavesGoes, PicksGoes, EnqueueGoes DEF Submission
  <2>3. generation' \in Nat /\ generation <= generation'
    BY <2>1, <1>a
  <2> QED BY <1>11, <1>12, <2>1, <2>2, <2>3
<1>13. ASSUME NEW j \in jobs, Future(j), UNCHANGED videoVars PROVE PassTold'
  <2>1. UNCHANGED <<current, submitter, generation>>
    BY <1>13 DEF Future, Claim, EnterCommit, Commit, InferFails, CommitFails, End
  <2>2. \A y \in Streams : Passing(y) => Goes(y)
    BY <1>13, FutureGoes
  <2> QED BY <1>11, <1>13, <2>1, <2>2, <1>a
<1>14. ASSUME NEW g, Promote(g) \/ PromoteFails(g), UNCHANGED videoVars PROVE PassTold'
  <2>1. UNCHANGED <<current, submitter, generation>>
    BY <1>14 DEF Promote, PromoteFails
  <2>2. \A y \in Streams : Passing(y) => Goes(y)
    BY <1>14, EnqueueGoes, PromoteFailsGoes
  <2> QED BY <1>11, <1>14, <2>1, <2>2, <1>a
<1>15. ASSUME NEW s \in States, Settle(s), UNCHANGED videoVars PROVE PassTold'
  <2>1. UNCHANGED <<current, submitter, generation, born, fate, jobs, decoded, stream>>
    BY <1>15 DEF Settle, videoVars
  <2>2. Touches(s, cam[s].retired, cam[s].pending) /\ Counts(s, 0, 0, 0)
    BY <1>15, SettleFields DEF VideoInv
  <2>3. ASSUME NEW y \in Streams, Passing(y) PROVE Goes(y)
    <3>1. current # 0 =>
              /\ cam'[current].pending = cam[current].pending
              /\ cam'[current].errors = cam[current].errors
              /\ cam'[current].refused = cam[current].refused
              /\ cam'[current].processed = cam[current].processed
      BY <2>2, <2>3, PassingFacts DEF Touches, Counts
    <3> QED BY <3>1, <2>1, <2>3, GoesOn
  <2> QED BY <1>11, <1>15, <2>1, <2>3, <1>a
<1>16. ASSUME Switching \/ Disable, UNCHANGED videoVars PROVE PassTold'
  <2>1. /\ UNCHANGED <<current, submitter, jobs, born, decoded, stream>>
        /\ generation' \in Nat /\ generation <= generation'
    BY <1>16, <1>a DEF Switching, SwitchEnters, Switch, SwitchFails, Disable, videoVars
  <2>2. ASSUME NEW y \in Streams, Passing(y), generation' = generation PROVE Goes(y)
    <3>1. UNCHANGED <<cam, fate>>
      BY <1>16, <2>2, <1>a DEF Switching, SwitchEnters, Switch, SwitchFails, Disable
    <3> QED BY <3>1, <2>1, <2>2, GoesOn
  <2> QED BY <1>11, <1>16, <2>1, <2>2
<1>17. ASSUME Crash PROVE PassTold'
  <2>1. \A y \in Streams : stream'[y].decoder \in {"off", "dead"} /\ (y <= opened => stream'[y].decoder = "dead")
    BY <1>17, FreshStreams DEF Crash
  <2>2. GaveWay'
    BY GaveWayStep DEF PassTold
  <2>3. mark' = "completed" =>
          \E y \in Streams : Settled(y)' /\ stream'[y].decoder \in {"shown", "dead"}
    <3>1. SUFFICES ASSUME mark = "completed"
                   PROVE  \E y \in Streams : Settled(y)' /\ stream'[y].decoder \in {"shown", "dead"}
      BY <1>17 DEF Crash
    <3>2. PICK y \in Streams : Settled(y) /\ stream[y].decoder \in {"shown", "dead"}
      BY <3>1 DEF PassTold
    <3>3. Settled(y)'
      BY <3>2, SettledStays DEF PassTold
    <3>4. y <= opened
      BY <3>2, <1>a DEF Settled
    <3> QED BY <3>3, <3>4, <2>1
  <2> QED BY <2>1, <2>2, <2>3 DEF PassTold, Before, After, Told, InPass
<1>18. ASSUME OnWorker PROVE UNCHANGED videoVars
  BY <1>18 DEF OnWorker
<1>19. ASSUME NEW x \in Streams, DrainPromotes(x) PROVE PassTold'
  BY <1>14, <1>18, <1>19 DEF DrainPromotes
<1>20. CASE VideoNext
  BY <1>3, <1>4, <1>5, <1>6, <1>7, <1>8, <1>9, <1>10, <1>12, <1>13, <1>15, <1>16, <1>17, <1>18,
     <1>19, <1>20 DEF VideoNext
<1> QED BY <1>2, <1>20

\* A video that is marked completed had a whole pass (_complete_video_anpr_pass,
\* drain_video_pass, _request_stop).
THEOREM MarkedPassesAreWhole == VideoSpec => []CompletedIsWhole
BY VideoInvInit, VideoInvStep, QuietInit, QuietStep, OrderedInit, OrderedStep, PassInit, PassStep,
   PassImplies, PTL DEF VideoSpec
==============================================================================
