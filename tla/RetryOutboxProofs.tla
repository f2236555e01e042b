------------------------- MODULE RetryOutboxProofs -------------------------
(***************************************************************************)
(* Theorems about RetryOutbox, for any number of slots, keys, observations, *)
(* faults, failing passes, crashes, removals, corrections, replays and       *)
(* deletions by retention.                                                  *)
(***************************************************************************)
EXTENDS RetryOutbox, FiniteSetTheorems, TLAPS

\* A holder of the lock stands on an entry of its slot; once it has committed,
\* that entry knows its event.
TaskHeld ==
    \A s \in Slots : task[s].pc # "idle" =>
        /\ task[s].id \in Held(s)
        /\ task[s].pc \in {"delete", "discard"} =>
              queue[s][task[s].id].event # None

TypeInv == TypeOK /\ TaskHeld

\* The type of the queues, and of the tasks.
Queues == [Slots -> [Obs -> Entry \cup {NoEntry}]]
Tasks  == [Slots -> Task]

-----------------------------------------------------------------------------
(* Records and point updates.                                               *)

\* What an entry is, and what is none.
LEMMA EntryFields ==
    ASSUME NEW e \in Entry
    PROVE  /\ e # NoEntry
           /\ e.key \in Keys /\ e.obs \in Obs /\ e.pred \in Ids
           /\ e.event \in EventRefs
           /\ e.tried \in BOOLEAN
           /\ [e EXCEPT !.tried = TRUE] \in Entry
           /\ [e EXCEPT !.tried = TRUE].event = e.event
           /\ [e EXCEPT !.spooled = TRUE] \in Entry
           /\ [e EXCEPT !.spooled = TRUE].event = e.event
           /\ [e EXCEPT !.rekeyed = TRUE] \in Entry
           /\ [e EXCEPT !.rekeyed = TRUE].event = e.event
           /\ \A v \in EventRefs : [e EXCEPT !.event = v] \in Entry
                             /\ [e EXCEPT !.event = v].event = v
           /\ \A v \in EventRefs :
                 /\ [e EXCEPT !.event = v, !.committed = TRUE] \in Entry
                 /\ [e EXCEPT !.event = v, !.committed = TRUE].event = v
<1>1. e.obs # None
  BY BoundsAssumption DEF Entry, Obs, None
<1>2. NoEntry.obs = None
  BY DEF NoEntry
<1> QED
  BY <1>1, <1>2 DEF Entry

\* A task that only moves on keeps its entry.
LEMMA TaskMove ==
    ASSUME NEW x \in Task,
           NEW pc \in {"upsert", "register", "resolve", "commit", "delete", "discard"},
           x.pc # "idle"
    PROVE  /\ x.id \in Obs
           /\ [x EXCEPT !.pc = pc] \in Task
           /\ [x EXCEPT !.pc = pc].pc = pc
           /\ [x EXCEPT !.pc = pc].id = x.id
BY DEF Task, Idle

\* Idle is a task, and a spool starts one.
LEMMA TaskKinds ==
    /\ Idle \in Task /\ Idle.pc = "idle"
    /\ \A o \in Obs, n \in {"idle", "resolve", "commit"},
          pc \in {"upsert", "resolve"} :
          [pc |-> pc, id |-> o, next |-> n] \in Task
BY DEF Task, Idle

\* A step that writes entry e at o of slot s and leaves its holder at task x.
HolderStep(s, o, e, x) ==
    /\ e \in Entry \cup {NoEntry}
    /\ x \in Task
    /\ queue' = [queue EXCEPT ![s][o] = e]
    /\ task' = [task EXCEPT ![s] = x]
    /\ x.pc # "idle" => x.id = o /\ e # NoEntry
    /\ x.pc \in {"delete", "discard"} => e.event # None

LEMMA HolderTyping ==
    ASSUME TypeInv, NEW s \in Slots, NEW o \in Obs, NEW e, NEW x, HolderStep(s, o, e, x)
    PROVE  queue' \in Queues /\ task' \in Tasks /\ TaskHeld'
<1>1. /\ queue' \in Queues
      /\ queue'[s][o] = e
      /\ \A t \in Slots, p \in Obs : t # s \/ p # o => queue'[t][p] = queue[t][p]
  BY DEF Queues, HolderStep, TypeInv, TypeOK
<1>2. /\ task' \in Tasks
      /\ task'[s] = x
      /\ \A t \in Slots : t # s => task'[t] = task[t]
  BY DEF Tasks, HolderStep, TypeInv, TypeOK
<1>3. ASSUME NEW t \in Slots, (task[t].pc # "idle")'
      PROVE  (/\ task[t].id \in Held(t)
              /\ task[t].pc \in {"delete", "discard"} =>
                    queue[t][task[t].id].event # None)'
  <2>1. CASE t = s
    BY <2>1, <1>1, <1>2, <1>3 DEF Held, HolderStep
  <2>2. CASE t # s
    <3>1. /\ task[t].pc # "idle" /\ task'[t] = task[t]
          /\ task[t].id \in Obs
      BY <2>2, <1>2, <1>3 DEF TypeInv, TaskHeld, Held
    <3>2. queue'[t][task[t].id] = queue[t][task[t].id]
      BY <2>2, <1>1, <3>1
    <3> QED
      BY <3>1, <3>2 DEF TypeInv, TaskHeld, Held
  <2> QED
    BY <2>1, <2>2
<1> QED
  BY <1>1, <1>2, <1>3 DEF TaskHeld

\* The holder of a lock stands on an entry.
LEMMA AtTask ==
    ASSUME TypeInv, NEW s \in Slots, task[s].pc # "idle"
    PROVE  /\ task[s].id \in Obs
           /\ queue[s][task[s].id] \in Entry
           /\ task[s] \in Task
           /\ task[s].next \in {"idle", "resolve", "commit"}
           /\ task[s].pc \in {"delete", "discard"} => queue[s][task[s].id].event # None
<1>1. task[s].id \in Obs /\ queue[s][task[s].id] # NoEntry
  BY DEF TypeInv, TaskHeld, Held
<1>2. queue[s][task[s].id] \in Entry
  BY <1>1 DEF TypeInv, TypeOK
<1>3. task[s] \in Task /\ task[s].next \in {"idle", "resolve", "commit"}
  BY DEF TypeInv, TypeOK, Task, Idle
<1> QED
  BY <1>1, <1>2, <1>3 DEF TypeInv, TaskHeld

\* Rewriting an entry with itself changes nothing.
LEMMA SameQueue ==
    ASSUME TypeInv, NEW s \in Slots, NEW o \in Obs
    PROVE  queue = [queue EXCEPT ![s][o] = queue[s][o]]
BY DEF TypeInv, TypeOK

\* The hints a live slot gives, its resolved events and the predecessors it
\* offers are all of their types.
LEMMA HintTyping ==
    ASSUME TypeInv, NEW s \in Slots, NEW e
    PROVE  /\ Hints(s, e) \subseteq EventIds
           /\ ResolvedEvents(s, e) \subseteq EventRefs
           /\ Predecessors(s, e) \subseteq Ids
<1>1. known[s] \subseteq Known
  BY DEF TypeInv, TypeOK
<1>2. Hints(s, e) \subseteq EventIds
  BY <1>1 DEF Hints, Known
<1>3. ResolvedEvents(s, e) \subseteq EventRefs
  BY <1>1 DEF ResolvedEvents, Newest, Known, EventRefs
<1>4. Predecessors(s, e) \subseteq Ids
  BY DEF Predecessors, Held, Ids
<1> QED
  BY <1>2, <1>3, <1>4

-----------------------------------------------------------------------------
(* Typing.                                                                  *)

LEMMA TypeInit == Init => TypeInv
BY BoundsAssumption, KeysAssumption
   DEF Init, TypeInv, TypeOK, TaskHeld, Task, Idle, NoEvent, Event, NoRow, NoEntry,
       Plates, Ids, EventRefs, EventIds, Obs, None

\* A failed attempt is typed.
LEMMA MarkFailureTyping ==
    ASSUME TypeInv, NEW s \in Slots, task[s].pc # "idle", MarkFailure(s, task[s].id)
    PROVE  /\ queue' \in Queues /\ task' \in Tasks /\ TaskHeld'
           /\ failed' \in [Slots -> SUBSET Obs]
<1> DEFINE o == task[s].id
           e == [queue[s][o] EXCEPT !.tried = TRUE]
<1>1. o \in Obs /\ queue[s][o] \in Entry
  BY AtTask
<1>2. e \in Entry
  BY <1>1, EntryFields
<1>3. queue' = [queue EXCEPT ![s][o] = e]
  BY DEF MarkFailure
<1>4. HolderStep(s, o, e, Idle)
  BY <1>2, <1>3, TaskKinds DEF HolderStep, MarkFailure
<1>5. failed' \in [Slots -> SUBSET Obs]
  BY <1>1 DEF MarkFailure, TypeInv, TypeOK
<1> QED
  BY <1>1, <1>4, <1>5, HolderTyping

\* Counting an attempt in a row keeps it a row.
LEMMA CountAttemptTyping ==
    ASSUME TypeInv, NEW o \in Obs, CountAttempt(o) \/ UNCHANGED outbox
    PROVE  outbox' \in [Obs -> Row \cup {NoRow}]
<1>1. CASE outbox' = outbox
  BY <1>1 DEF TypeInv, TypeOK
<1>2. CASE Pending(o) /\ CountAttempt(o)
  <2>1. outbox[o] \in Row
    BY <1>2 DEF TypeInv, TypeOK, Pending, NoRow
  <2>2. [outbox[o] EXCEPT !.tried = TRUE] \in Row
    BY <2>1 DEF Row
  <2>3. outbox' = [outbox EXCEPT ![o] = [outbox[o] EXCEPT !.tried = TRUE]]
    BY <1>2 DEF CountAttempt
  <2> QED
    BY <2>2, <2>3 DEF TypeInv, TypeOK
<1> QED
  BY <1>1, <1>2 DEF CountAttempt

LEMMA TypeUpsert ==
    ASSUME TypeInv, NEW s \in Slots, Upsert(s)
    PROVE  TypeInv'
<1> DEFINE o == task[s].id
           e == queue[s][o]
           x == [task[s] EXCEPT !.pc = "register"]
<1>1. o \in Obs /\ e \in Entry /\ task[s] \in Task
  BY AtTask DEF Upsert
<1>2. x \in Task /\ x.pc = "register" /\ x.id = o
  BY <1>1, TaskMove DEF Upsert
<1>3. HolderStep(s, o, e, x)
  BY <1>1, <1>2, SameQueue, EntryFields, ZenonT(60) DEF HolderStep, Upsert
<1>4. outbox' \in [Obs -> Row \cup {NoRow}]
  <2> DEFINE old == outbox[o]
             rowEvent == IF old # NoRow /\ old.event # None THEN old.event ELSE e.event
             attempts == IF old # NoRow THEN old.tried ELSE e.tried
             row == [status |-> "pending", key |-> e.key, obs |-> e.obs,
                     pred |-> e.pred, event |-> rowEvent, tried |-> attempts]
  <2>1. old # NoRow => old.event \in EventRefs /\ old.tried \in BOOLEAN
    BY <1>1 DEF TypeInv, TypeOK, Row
  <2>2. rowEvent \in EventRefs /\ attempts \in BOOLEAN
    BY <2>1, <1>1, EntryFields
  <2>3. row \in Row
    <3> HIDE DEF rowEvent, attempts, o, e
    <3> QED
      BY <2>2, <1>1, EntryFields DEF Row
  <2>4. outbox' = [outbox EXCEPT ![o] = row]
    BY DEF Upsert
  <2> QED
    BY <2>3, <2>4 DEF TypeInv, TypeOK
<1>5. accepted' \in [Obs -> Ids]
  BY <1>1, EntryFields DEF Upsert, TypeInv, TypeOK, Ids
<1> QED
  BY <1>1, <1>3, <1>4, <1>5, HolderTyping
     DEF Upsert, TypeInv, TypeOK, Queues, Tasks, durable, memory, bounds, history

LEMMA TypeFailure ==
    ASSUME TypeInv, NEW s \in Slots,
           UpsertFails(s) \/ CommitFails(s) \/ DeleteFails(s)
    PROVE  TypeInv'
<1> USE DEF durable, bounds, history
<1>1. CASE UpsertFails(s) /\ task[s].next = "idle"
  <2> DEFINE o == task[s].id
  <2>1. o \in Obs /\ queue[s][o] \in Entry
    BY <1>1, AtTask DEF UpsertFails
  <2>2. HolderStep(s, o, queue[s][o], Idle)
    BY <1>1, <2>1, SameQueue, TaskKinds DEF HolderStep, UpsertFails
  <2> QED
    BY <1>1, <2>1, <2>2, HolderTyping
       DEF UpsertFails, Fault, TypeInv, TypeOK, Queues, Tasks
<1>2. CASE UpsertFails(s) /\ task[s].next # "idle"
  <2>1. task[s].pc # "idle" /\ MarkFailure(s, task[s].id)
    BY <1>2 DEF UpsertFails
  <2> QED
    BY <1>2, <2>1, MarkFailureTyping
       DEF UpsertFails, Fault, TypeInv, TypeOK, Queues, Tasks
<1>3. CASE CommitFails(s) \/ DeleteFails(s)
  <2>1. /\ task[s].pc # "idle" /\ MarkFailure(s, task[s].id)
        /\ CountAttempt(task[s].id) \/ UNCHANGED outbox
    BY <1>3 DEF CommitFails, DeleteFails
  <2>2. task[s].id \in Obs
    BY <2>1, AtTask
  <2>3. outbox' \in [Obs -> Row \cup {NoRow}]
    BY <2>1, <2>2, CountAttemptTyping
  <2> QED
    BY <1>3, <2>1, <2>3, MarkFailureTyping
       DEF CommitFails, DeleteFails, Fault, TypeInv, TypeOK, Queues, Tasks
<1> QED
  BY <1>1, <1>2, <1>3

LEMMA TypeRegister ==
    ASSUME TypeInv, NEW s \in Slots, Register(s)
    PROVE  TypeInv'
<1> DEFINE o == task[s].id
           e == [queue[s][o] EXCEPT !.spooled = TRUE]
           x == IF task[s].next = "idle" THEN Idle
                ELSE [task[s] EXCEPT !.pc = task[s].next]
<1>1. /\ o \in Obs /\ queue[s][o] \in Entry /\ task[s] \in Task
      /\ task[s].next \in {"idle", "resolve", "commit"}
  BY AtTask DEF Register
<1>2. e \in Entry /\ e # NoEntry
  BY <1>1, EntryFields
<1>3. /\ x \in Task /\ x.pc \in {"idle", "resolve", "commit"}
      /\ x.pc # "idle" => x.id = o
  <2>1. CASE task[s].next = "idle"
    BY <2>1, TaskKinds
  <2>2. CASE task[s].next # "idle"
    <3>1. /\ task[s].next \in {"upsert", "register", "resolve", "commit",
                               "delete", "discard"}
          /\ task[s].pc # "idle"
          /\ x = [task[s] EXCEPT !.pc = task[s].next]
      BY <2>2, <1>1 DEF Register
    <3> QED
      BY <3>1, <2>2, <1>1, TaskMove
  <2> QED
    BY <2>1, <2>2
<1>4. queue' = [queue EXCEPT ![s][o] = e] /\ task' = [task EXCEPT ![s] = x]
  BY DEF Register, Continue
<1>5. HolderStep(s, o, e, x)
  BY <1>2, <1>3, <1>4 DEF HolderStep
<1> QED
  BY <1>1, <1>5, HolderTyping
     DEF Register, TypeInv, TypeOK, Queues, Tasks, durable, bounds, history

LEMMA TypeDrain ==
    ASSUME TypeInv, NEW s \in Slots, NEW o \in Obs,
           NotDue(s, o) \/ Visit(s, o) \/ EndDrain(s)
    PROVE  TypeInv'
<1> USE DEF durable, bounds, history
<1>1. CASE NotDue(s, o)
  BY <1>1 DEF NotDue, TypeInv, TypeOK, TaskHeld, Held
<1>2. CASE Visit(s, o)
  <2> DEFINE e == queue[s][o]
             x == IF e.spooled THEN [pc |-> "resolve", id |-> o, next |-> "idle"]
                  ELSE [pc |-> "upsert", id |-> o, next |-> "resolve"]
  <2>1. e # NoEntry /\ e \in Entry
    BY <1>2 DEF Visit, Eligible, Held, TypeInv, TypeOK
  <2>2. x \in Task /\ x.pc \in {"resolve", "upsert"} /\ x.id = o
    BY TaskKinds
  <2>3. task' = [task EXCEPT ![s] = x]
    BY <1>2 DEF Visit, StartSpool
  <2>4. HolderStep(s, o, e, x)
    <3> HIDE DEF x
    <3> QED
      BY <1>2, <2>1, <2>2, <2>3, SameQueue DEF HolderStep, Visit
  <2> QED
    BY <1>2, <2>4, HolderTyping DEF Visit, TypeInv, TypeOK, Queues, Tasks
<1>3. CASE EndDrain(s)
  BY <1>3 DEF EndDrain, TypeInv, TypeOK, TaskHeld, Held
<1> QED
  BY <1>1, <1>2, <1>3

LEMMA TypeResolve ==
    ASSUME TypeInv, NEW s \in Slots, Resolve(s)
    PROVE  TypeInv'
<1> USE DEF durable, bounds, history
<1> DEFINE o == task[s].id
           e == queue[s][o]
<1>1. o \in Obs /\ e \in Entry /\ task[s] \in Task /\ task[s].pc = "resolve"
  BY AtTask DEF Resolve
<1>2. CASE MarkFailure(s, o) /\ CountAttempt(o)
  <2>1. outbox' \in [Obs -> Row \cup {NoRow}]
    BY <1>1, <1>2, CountAttemptTyping
  <2> QED
    BY <1>1, <1>2, <2>1, MarkFailureTyping DEF Resolve, TypeInv, TypeOK, Queues, Tasks
<1>3. ASSUME NEW event \in EffectiveEvents(s, o),
             queue' = [queue EXCEPT ![s][o].event = event],
             StartSpool(s, o, "commit"), UNCHANGED <<failed, outbox>>
      PROVE  TypeInv'
  <2> DEFINE f == [e EXCEPT !.event = event]
             x == [pc |-> "upsert", id |-> o, next |-> "commit"]
  <2>1. event \in EventRefs
    <3>1. ResolvedEvents(s, e) \subseteq EventRefs
      BY HintTyping
    <3>2. e.event \in EventRefs /\ e.pred \in Ids
      BY <1>1, EntryFields
    <3>3. e.pred # None => receipts[e.pred] \in EventRefs
      BY <3>2 DEF TypeInv, TypeOK, Ids
    <3> HIDE DEF e
    <3>4. EffectiveEvents(s, o) \subseteq EventRefs
      BY <3>1, <3>2, <3>3 DEF EffectiveEvents, EventRefs, e
    <3> QED
      BY <3>4
  <2>2. f \in Entry /\ f # NoEntry
    BY <1>1, <2>1, EntryFields
  <2>3. x \in Task
    BY <1>1, TaskKinds
  <2>4. HolderStep(s, o, f, x)
    BY <1>3, <2>2, <2>3 DEF HolderStep, StartSpool
  <2> QED
    BY <1>1, <1>3, <2>4, HolderTyping DEF Resolve, TypeInv, TypeOK, Queues, Tasks
<1>4. CASE task' = [task EXCEPT ![s].pc = "commit"] /\ UNCHANGED <<queue, failed, outbox>>
  <2> DEFINE x == [task[s] EXCEPT !.pc = "commit"]
  <2>1. x \in Task /\ x.pc = "commit" /\ x.id = o
    BY <1>1, TaskMove
  <2>2. HolderStep(s, o, e, x)
    BY <1>1, <1>4, <2>1, SameQueue, EntryFields, ZenonT(60) DEF HolderStep
  <2> QED
    BY <1>1, <1>4, <2>2, HolderTyping DEF Resolve, TypeInv, TypeOK, Queues, Tasks
<1> QED
  BY <1>2, <1>3, <1>4 DEF Resolve

\* A write is typed, and its receipt names an event.
\* The names of events.
LEMMA EventNames ==
    /\ Obs \subseteq EventIds /\ None \notin EventIds
    /\ Copies \subseteq EventIds /\ Copies \cap Obs = {} /\ None \notin Copies
BY BoundsAssumption DEF Obs, EventIds, None, Copies

\* What a replay does.
LEMMA ReplayKinds ==
    ASSUME TypeInv, NEW s \in Slots, NEW o \in Obs, NEW e \in Entry, receipts[o] # None,
           Replay(s, o, e)
    PROVE  /\ UNCHANGED <<receipts, recorded>>
           /\ \/ /\ UNCHANGED <<events, inserts, copied>>
                 /\ Persisted(s, o, receipts[o]) /\ receipts[o] \in EventIds
              \/ \E c \in Copies :
                    /\ copied[c] = None /\ copied' = [copied EXCEPT ![c] = o]
                    /\ \E x \in Event :
                          /\ x.stored /\ x.shows =< x.newest
                          /\ events' = [events EXCEPT ![c] = x]
                    /\ inserts' = [inserts EXCEPT ![o] = @ + 1]
                    /\ Persisted(s, o, c)
<1>1. receipts[o] \in EventIds
  BY DEF TypeInv, TypeOK, EventRefs
<1> DEFINE x == NewEvent(NoPlate, e.obs)
<1>2. e.obs \in Ids /\ e.obs =< e.obs /\ NoPlate \in Plates
  <2>1. e.obs \in Obs
    BY EntryFields
  <2> QED
    BY <2>1 DEF Ids, Obs, Plates
<1>3. x \in Event /\ x.stored /\ x.shows =< x.newest
  BY <1>2 DEF Event, NewEvent
<1>4. \/ Persisted(s, o, receipts[o]) /\ UNCHANGED <<events, inserts, copied>>
      \/ \E c \in Copies :
            /\ copied[c] = None /\ copied' = [copied EXCEPT ![c] = o]
            /\ events' = [events EXCEPT ![c] = x]
            /\ inserts' = [inserts EXCEPT ![o] = @ + 1]
            /\ Persisted(s, o, c)
  BY DEF Replay, NextCopy
<1>5. UNCHANGED <<receipts, recorded>>
  BY DEF Replay
<1> HIDE DEF x
<1> QED
  BY <1>1, <1>3, <1>4, <1>5

LEMMA WriteTyping ==
    ASSUME TypeInv, NEW o \in Obs, NEW e \in Entry, NEW v \in EventRefs,
           WriteEvent(o, e, v)
    PROVE  /\ events' \in [EventIds -> Event]
           /\ inserts' \in [Obs -> Nat]
           /\ receipts' \in [Obs -> EventRefs]
           /\ receipts'[o] \in EventIds
<1>1. StoredEvents \subseteq EventIds /\ Obs \subseteq EventIds
  BY EventNames DEF StoredEvents
<1>2. NoPlate \in Plates /\ Ident[e.key] \in Plates /\ e.obs \in Ids
  BY EntryFields DEF Plates, Ids
<1>3. ASSUME NEW w \in EventIds, receipts' = [receipts EXCEPT ![o] = w]
      PROVE  receipts' \in [Obs -> EventRefs] /\ receipts'[o] \in EventIds
  BY <1>3 DEF TypeInv, TypeOK, EventRefs
<1>4. ASSUME NEW i \in Plates, InsertEvent(o, e, i), receipts' = [receipts EXCEPT ![o] = o]
      PROVE  events' \in [EventIds -> Event] /\ inserts' \in [Obs -> Nat]
  <2>1. NewEvent(i, e.obs) \in Event
    BY <1>2 DEF NewEvent, Event
  <2> QED
    BY <1>1, <1>4, <2>1 DEF InsertEvent, TypeInv, TypeOK
<1>5. ASSUME v \in EventIds, events' = [events EXCEPT ![v] = Refreshed(v, e)]
      PROVE  events' \in [EventIds -> Event]
  <2>1. events[v].newest \in Ids /\ events[v].confirmed \in BOOLEAN
    BY <1>5 DEF TypeInv, TypeOK, Event
  <2>2. Refreshed(v, e) \in Event
    BY <1>2, <2>1 DEF Refreshed, Event
  <2> QED
    BY <1>5, <2>2 DEF TypeInv, TypeOK
<1>6. UNCHANGED <<events, inserts>> =>
        events' \in [EventIds -> Event] /\ inserts' \in [Obs -> Nat]
  BY DEF TypeInv, TypeOK
<1>7. UNCHANGED inserts => inserts' \in [Obs -> Nat]
  BY DEF TypeInv, TypeOK
<1>8. Conflicting(v, e) \/ Outdated(v, e) => v \in EventIds
  BY <1>1 DEF Conflicting, Outdated
<1>9. CASE InsertEvent(o, e, NoPlate) /\ receipts' = [receipts EXCEPT ![o] = o]
  BY <1>9, <1>1, <1>2, <1>3, <1>4
<1>10. CASE InsertEvent(o, e, Ident[e.key]) /\ receipts' = [receipts EXCEPT ![o] = o]
  BY <1>10, <1>1, <1>2, <1>3, <1>4
<1>11. CASE /\ v \in EventIds /\ receipts' = [receipts EXCEPT ![o] = v]
            /\ UNCHANGED <<events, inserts>>
  BY <1>11, <1>3, <1>6
<1>12. CASE /\ v \in EventIds /\ receipts' = [receipts EXCEPT ![o] = v]
            /\ events' = [events EXCEPT ![v] = Refreshed(v, e)] /\ UNCHANGED inserts
  BY <1>12, <1>3, <1>5, <1>7
<1> QED
  BY <1>1, <1>8, <1>9, <1>10, <1>11, <1>12 DEF WriteEvent, Contradicts

LEMMA TypeCommit ==
    ASSUME TypeInv, NEW s \in Slots, Commit(s)
    PROVE  TypeInv'
<1> USE DEF durable, bounds, history
<1> DEFINE o == task[s].id
           e == queue[s][o]
           x == [task[s] EXCEPT !.pc = "delete"]
<1>1. /\ o \in Obs /\ e \in Entry /\ task[s] \in Task /\ task[s].pc = "commit"
      /\ e.event \in EventRefs
  BY AtTask, EntryFields DEF Commit
<1>2. x \in Task /\ x.pc = "delete" /\ x.id = o
  BY <1>1, TaskMove
<1>3. ASSUME NEW v \in EventIds, Persisted(s, o, v)
      PROVE  queue' \in Queues /\ task' \in Tasks /\ TaskHeld'
  <2> DEFINE f == [e EXCEPT !.event = v, !.committed = TRUE]
  <2>1. v \in EventRefs /\ v # None
    BY EventNames DEF EventRefs
  <2>2. f \in Entry /\ f # NoEntry /\ f.event = v
    <3>1. f \in Entry /\ f.event = v
      BY <1>1, <2>1 DEF Entry
    <3> HIDE DEF f
    <3> QED
      BY <3>1, EntryFields
  <2>3. queue' = [queue EXCEPT ![s][o] = f] /\ task' = [task EXCEPT ![s] = x]
    BY <1>3 DEF Persisted
  <2>4. HolderStep(s, o, f, x)
    <3> HIDE DEF f, x, o
    <3> QED
      BY <1>2, <2>1, <2>2, <2>3 DEF HolderStep
  <2> QED
    BY <1>1, <2>4, HolderTyping
<1>4. CASE receipts[o] # None
  <2>1. Replay(s, o, e)
    BY <1>4 DEF Commit
  <2>2. \E v \in EventIds : Persisted(s, o, v)
    <3> HIDE DEF e, o
    <3> QED
      BY <1>1, <1>4, <2>1, ReplayKinds, EventNames
  <2>3. queue' \in Queues /\ task' \in Tasks /\ TaskHeld'
    BY <2>2, <1>3
  <2>4. /\ UNCHANGED <<receipts, recorded>>
        /\ events' \in [EventIds -> Event] /\ inserts' \in [Obs -> Nat]
        /\ copied' \in [Copies -> Ids]
    <3> HIDE DEF e, o
    <3>1. /\ UNCHANGED <<receipts, recorded>>
          /\ \/ UNCHANGED <<events, inserts, copied>>
             \/ \E c \in Copies :
                   /\ copied' = [copied EXCEPT ![c] = o]
                   /\ \E w \in Event : events' = [events EXCEPT ![c] = w]
                   /\ inserts' = [inserts EXCEPT ![o] = @ + 1]
      <4>1. CASE UNCHANGED <<events, inserts, copied>>
        BY <1>1, <1>4, <2>1, <4>1, ReplayKinds
      <4>2. CASE ~UNCHANGED <<events, inserts, copied>>
        BY <1>1, <1>4, <2>1, <4>2, ReplayKinds
      <4> QED
        BY <4>1, <4>2
    <3>2. /\ events \in [EventIds -> Event] /\ inserts \in [Obs -> Nat]
          /\ copied \in [Copies -> Ids]
      BY DEF TypeInv, TypeOK
    <3>3. CASE UNCHANGED <<events, inserts, copied>>
      BY <3>1, <3>2, <3>3
    <3>4. CASE ~UNCHANGED <<events, inserts, copied>>
      <4>1. PICK c \in Copies, y \in Event :
               /\ events' = [events EXCEPT ![c] = y]
               /\ copied' = [copied EXCEPT ![c] = o]
               /\ inserts' = [inserts EXCEPT ![o] = @ + 1]
        BY <3>1, <3>4
      <4>2. c \in EventIds /\ o \in Ids
        BY <1>1, EventNames DEF Ids
      <4>3. events' \in [EventIds -> Event]
        BY <3>2, <4>1, <4>2
      <4>4. inserts' \in [Obs -> Nat] /\ copied' \in [Copies -> Ids]
        BY <1>1, <3>2, <4>1, <4>2
      <4> QED
        BY <3>1, <4>3, <4>4
    <3> QED
      BY <3>3, <3>4
  <2> QED
    BY <2>3, <2>4 DEF Commit, TypeInv, TypeOK, Queues, Tasks
<1>5. CASE receipts[o] = None
  <2>1. PICK v \in Reusable(s, e) \cup {e.event} : WriteEvent(o, e, v)
    BY <1>5 DEF Commit, FirstWrite
  <2>2. /\ recorded' = [recorded EXCEPT ![o] = e.obs] /\ Persisted(s, o, receipts'[o])
        /\ UNCHANGED copied
    BY <1>5 DEF Commit, FirstWrite
  <2>3. v \in EventRefs
    BY <1>1, <2>1 DEF Reusable, StoredEvents, EventRefs
  <2>4. /\ events' \in [EventIds -> Event] /\ inserts' \in [Obs -> Nat]
        /\ receipts' \in [Obs -> EventRefs] /\ receipts'[o] \in EventIds
    <3> HIDE DEF e, o
    <3> QED
      BY <1>1, <2>1, <2>3, WriteTyping
  <2>5. recorded' \in [Obs -> Ids]
    BY <1>1, <2>2, EntryFields DEF TypeInv, TypeOK, Ids
  <2>6. queue' \in Queues /\ task' \in Tasks /\ TaskHeld'
    BY <2>2, <2>4, <1>3
  <2> QED
    BY <2>2, <2>4, <2>5, <2>6 DEF Commit, TypeInv, TypeOK, Queues, Tasks
<1> QED
  BY <1>4, <1>5

LEMMA TypeDelete ==
    ASSUME TypeInv, NEW s \in Slots, Delete(s) \/ Acknowledge(s)
    PROVE  TypeInv'
<1> USE DEF durable, bounds, history
<1> DEFINE o == task[s].id
           e == queue[s][o]
<1>1. /\ o \in Obs /\ e \in Entry /\ task[s] \in Task
      /\ task[s].pc \in {"delete", "discard"} /\ e.event # None /\ e.event \in EventRefs
  BY AtTask, EntryFields DEF Delete, Acknowledge
<1>2. CASE Delete(s)
  <2> DEFINE x == [task[s] EXCEPT !.pc = "discard"]
  <2>1. x \in Task /\ x.pc = "discard" /\ x.id = o
    BY <1>1, TaskMove
  <2>2. HolderStep(s, o, e, x)
    BY <1>1, <1>2, <2>1, SameQueue, EntryFields DEF HolderStep, Delete
  <2> QED
    BY <1>1, <1>2, <2>2, HolderTyping DEF Delete, TypeInv, TypeOK, Queues, Tasks
<1>3. CASE Acknowledge(s)
  <2>1. HolderStep(s, o, NoEntry, Idle)
    BY <1>1, <1>3, TaskKinds DEF HolderStep, Acknowledge
  <2>2. [key |-> e.key, obs |-> e.obs, event |-> e.event] \in Known
    BY <1>1, EntryFields DEF Known, EventRefs
  <2>3. known' \in [Slots -> SUBSET Known]
    BY <1>3, <2>2 DEF Acknowledge, TypeInv, TypeOK
  <2> QED
    BY <1>1, <1>3, <2>1, <2>3, HolderTyping
       DEF Acknowledge, TypeInv, TypeOK, Queues, Tasks
<1> QED
  BY <1>2, <1>3

\* A pending row becomes an entry.
LEMMA FromRowTyping ==
    ASSUME TypeInv, NEW o \in Obs, Pending(o), NEW late \in BOOLEAN
    PROVE  FromRow(o, late) \in Entry
<1> DEFINE row == outbox[o]
<1>1. row \in Row
  BY DEF Pending, NoRow, TypeInv, TypeOK
<1>2. FromRow(o, late) = [key |-> row.key, obs |-> row.obs, pred |-> row.pred,
         event |-> row.event, spooled |-> TRUE, committed |-> FALSE,
         tried |-> row.tried, rekeyed |-> late]
  BY DEF FromRow
<1> HIDE DEF row
<1> QED
  BY <1>1, <1>2 DEF Row, Entry

\* A new worker starts with rows of the sidecar and nobody at work.
LEMMA TypeRestart ==
    ASSUME TypeInv, Restart
    PROVE  /\ queue' \in Queues /\ task' \in Tasks /\ TaskHeld'
           /\ slot' \in [Slots -> {"live", "detached", "loading", "free"}]
           /\ failed' \in [Slots -> SUBSET Obs] /\ known' \in [Slots -> SUBSET Known]
           /\ loaded' \in SUBSET Obs
<1>1. PICK s \in Slots, S \in SUBSET {o \in Obs : Pending(o)} :
         /\ slot' = [t \in Slots |-> IF t = s /\ S # {} THEN "detached" ELSE "free"]
         /\ queue' = [t \in Slots |-> [o \in Obs |->
               IF t = s /\ o \in S
               THEN FromRow(o, \E p \in S : p < o /\ outbox[p].key = outbox[o].key)
               ELSE NoEntry]]
         /\ loaded' = S
  BY DEF Restart
<1>2. \A o \in S : FromRow(o, \E p \in S : p < o /\ outbox[p].key = outbox[o].key) \in Entry
  <2> TAKE o \in S
  <2> DEFINE late == \E p \in S : p < o /\ outbox[p].key = outbox[o].key
  <2>1. o \in Obs /\ Pending(o) /\ late \in BOOLEAN
    BY <1>1
  <2> HIDE DEF late
  <2>2. FromRow(o, late) \in Entry
    BY <2>1, FromRowTyping
  <2> QED
    BY <2>2 DEF late
<1>3. queue' \in Queues
  BY <1>1, <1>2 DEF Queues
<1>4. /\ task' = [t \in Slots |-> Idle] /\ failed' = [t \in Slots |-> {}]
      /\ known' = [t \in Slots |-> {}]
  BY DEF Restart
<1>5. task' \in Tasks /\ TaskHeld'
  BY <1>4, TaskKinds DEF Tasks, TaskHeld
<1> QED
  BY <1>1, <1>3, <1>4, <1>5

\* The steps of the pump and of the stores.
LEMMA TypePump ==
    ASSUME TypeInv, NEW s \in Slots, NEW o \in Obs,
           \/ Hydrate(s, o) \/ Publish(s) \/ HydrateFails(s)
           \/ Evict(s, o) \/ Prune(s)
    PROVE  TypeInv'
<1> USE DEF durable, bounds, history
<1>1. ASSUME NEW e \in Entry \cup {NoEntry}, IsIdle(s), UNCHANGED task,
             queue' = [queue EXCEPT ![s][o] = e]
      PROVE  queue' \in Queues /\ task' \in Tasks /\ TaskHeld'
  <2>1. task[s] \in Task /\ task' = [task EXCEPT ![s] = task[s]]
    BY <1>1 DEF TypeInv, TypeOK
  <2>2. HolderStep(s, o, e, task[s])
    BY <1>1, <2>1 DEF HolderStep, IsIdle
  <2> QED
    BY <2>2, HolderTyping
<1>2. CASE Hydrate(s, o)
  <2> DEFINE late == \E p \in Held(s) : queue[s][p].key = outbox[o].key
             e == FromRow(o, late)
  <2>1. Pending(o) /\ late \in BOOLEAN
    BY <1>2 DEF Hydrate
  <2>2. queue' = [queue EXCEPT ![s][o] = e] /\ IsIdle(s) /\ UNCHANGED task
    BY <1>2 DEF Hydrate, BetweenDrains
  <2>3. queue' \in Queues /\ task' \in Tasks /\ TaskHeld'
    <3>1. e \in Entry
      <4> HIDE DEF late
      <4> QED
        BY <2>1, FromRowTyping
    <3> HIDE DEF e
    <3> QED
      BY <2>2, <3>1, <1>1
  <2> QED
    BY <1>2, <2>3 DEF Hydrate, TypeInv, TypeOK, Queues, Tasks
<1>3. CASE Evict(s, o)
  <2>1. queue' \in Queues /\ task' \in Tasks /\ TaskHeld'
    BY <1>3, <1>1 DEF Evict, BetweenDrains
  <2> QED
    BY <1>3, <2>1 DEF Evict, TypeInv, TypeOK, Queues, Tasks
<1>4. CASE Prune(s)
  BY <1>4 DEF Prune, TypeInv, TypeOK, TaskHeld, Held
<1>5. CASE Publish(s)
  BY <1>5 DEF Publish, TypeInv, TypeOK, TaskHeld, Held
<1>6. CASE HydrateFails(s)
  <2>1. queue' \in Queues
    BY <1>6 DEF HydrateFails, Queues, TypeInv, TypeOK
  <2>2. UNCHANGED task /\ IsIdle(s)
    BY <1>6 DEF HydrateFails, BetweenDrains
  <2>3. TaskHeld'
    BY <1>6, <2>2 DEF HydrateFails, TypeInv, TypeOK, TaskHeld, Held, IsIdle
  <2> QED
    BY <1>6, <2>1, <2>3 DEF HydrateFails, TypeInv, TypeOK, Queues
<1> QED
  BY <1>2, <1>3, <1>4, <1>5, <1>6

LEMMA TypeWorld ==
    ASSUME TypeInv,
           \/ \E s \in Slots : Remove(s) \/ Create(s)
           \/ \E o \in Obs : Quarantine(o)
           \/ \E v \in EventIds : Expire(v) \/ \E p \in Plates : Correct(v, p)
           \/ Stop
           \/ Crash
    PROVE  TypeInv'
<1> USE DEF durable, bounds, history
<1>1. ASSUME NEW s \in Slots, Remove(s)
      PROVE  TypeInv'
  BY <1>1 DEF Remove, TypeInv, TypeOK, TaskHeld, Held
<1>2. ASSUME NEW s \in Slots, Create(s)
      PROVE  TypeInv'
  BY <1>2 DEF Create, TypeInv, TypeOK, TaskHeld, Held
<1>3. ASSUME NEW o \in Obs, Quarantine(o)
      PROVE  TypeInv'
  <2>1. outbox[o] \in Row
    BY <1>3 DEF Quarantine, Pending, NoRow, TypeInv, TypeOK
  <2>2. [outbox[o] EXCEPT !.status = "quarantined"] \in Row
    BY <2>1 DEF Row
  <2>3. outbox' \in [Obs -> Row \cup {NoRow}]
    BY <1>3, <2>2 DEF Quarantine, TypeInv, TypeOK
  <2> QED
    BY <1>3, <2>3 DEF Quarantine, Fault, memory, TypeInv, TypeOK, TaskHeld, Held
<1>4. ASSUME NEW v \in EventIds, Expire(v)
      PROVE  TypeInv'
  <2>1. NoEvent \in Event
    BY DEF NoEvent, Event, Plates, Ids
  <2>2. events' \in [EventIds -> Event]
    BY <1>4, <2>1 DEF Expire, TypeInv, TypeOK
  <2> QED
    BY <1>4, <2>2 DEF Expire, memory, TypeInv, TypeOK, TaskHeld, Held
<1>5. CASE Crash
  BY <1>5, TypeRestart DEF Crash, TypeInv, TypeOK, Queues, Tasks
<1>6. CASE Stop
  BY <1>6, TypeRestart DEF Stop, TypeInv, TypeOK, Queues, Tasks
<1>7. ASSUME NEW v \in EventIds, NEW p \in Plates, Correct(v, p)
      PROVE  TypeInv'
  <2> DEFINE n == IF events[v].newest > nextObs - 1 THEN events[v].newest ELSE nextObs - 1
             x == [events[v] EXCEPT !.ident = p, !.confirmed = TRUE, !.newest = n]
  <2>1. n \in Ids /\ events[v] \in Event
    BY BoundsAssumption DEF TypeInv, TypeOK, Event, Ids, Obs, None
  <2>2. x \in Event
    BY <2>1 DEF Event
  <2>3. events' = [events EXCEPT ![v] = x]
    BY <1>7 DEF Correct
  <2>4. events' \in [EventIds -> Event]
    BY <2>2, <2>3 DEF TypeInv, TypeOK
  <2>5. /\ corrections' = corrections + 1
        /\ UNCHANGED <<outbox, receipts, memory, nextObs, faults, crashes, expired,
                       removals, history>>
    BY <1>7 DEF Correct
  <2>6. TaskHeld'
    BY <2>5 DEF memory, TypeInv, TaskHeld, Held
  <2> HIDE DEF n, x
  <2>7. TypeOK'
    BY <2>4, <2>5 DEF memory, history, TypeInv, TypeOK
  <2> QED
    BY <2>6, <2>7 DEF TypeInv
<1> QED
  BY <1>1, <1>2, <1>3, <1>4, <1>5, <1>6, <1>7

\* A fresh or refreshed entry is an entry.
LEMMA NewEntryTyping ==
    ASSUME NEW k \in Keys, NEW pred \in Ids, NEW event \in EventRefs, NEW tried \in BOOLEAN,
           nextObs \in Obs
    PROVE  NewEntry(k, pred, event, tried) \in Entry
BY DEF NewEntry, Entry

\* The three things Enqueue may write, for the hint it found.
EnqueueWrite(s, k, bound) ==
    \/ \E pred \in Predecessors(s, NewEntry(k, None, bound, FALSE)) :
         /\ queue' = [queue EXCEPT ![s][nextObs] = NewEntry(k, pred, bound, FALSE)]
         /\ StartSpool(s, nextObs, "idle")
    \/ \E o \in Previous(s, k) :
         /\ queue' = [queue EXCEPT ![s][o] =
               NewEntry(k, queue[s][o].pred,
                        IF queue[s][o].event # None THEN queue[s][o].event ELSE bound,
                        queue[s][o].tried)]
         /\ StartSpool(s, o, "idle")
    \/ \E o \in Previous(s, k) :
         /\ queue' = [queue EXCEPT
               ![s][o].rekeyed = TRUE,
               ![s][nextObs] = NewEntry(k, o, queue[s][o].event, FALSE)]
         /\ StartSpool(s, nextObs, "idle")

LEMMA EnqueueBranches ==
    ASSUME NEW s \in Slots, NEW k \in Keys, Enqueue(s, k)
    PROVE  \E bound \in Hints(s, NewEntry(k, None, None, FALSE)) \cup {None} :
              EnqueueWrite(s, k, bound)
BY DEF Enqueue, EnqueueWrite

LEMMA TypeEnqueue ==
    ASSUME TypeInv, NEW s \in Slots, NEW k \in Keys, Enqueue(s, k)
    PROVE  TypeInv'
<1> USE DEF durable, bounds, history
<1>1. nextObs \in Obs /\ nextObs' \in 1 .. MaxObs + 1
  <2>1. nextObs =< MaxObs /\ nextObs' = nextObs + 1
    BY DEF Enqueue
  <2>2. nextObs \in 1 .. MaxObs + 1
    BY DEF TypeInv, TypeOK
  <2> QED
    BY <2>1, <2>2, BoundsAssumption DEF Obs
<1>2. ASSUME NEW o \in Obs, NEW e \in Entry,
             queue' = [queue EXCEPT ![s][o] = e], StartSpool(s, o, "idle")
      PROVE  queue' \in Queues /\ task' \in Tasks /\ TaskHeld'
  <2> DEFINE x == [pc |-> "upsert", id |-> o, next |-> "idle"]
  <2>1. HolderStep(s, o, e, x)
    BY <1>2, TaskKinds, EntryFields DEF HolderStep, StartSpool
  <2> QED
    BY <2>1, HolderTyping
<1>3. PICK bound \in Hints(s, NewEntry(k, None, None, FALSE)) \cup {None} :
        EnqueueWrite(s, k, bound)
  BY EnqueueBranches
<1>4. bound \in EventRefs
  BY <1>3, HintTyping DEF EventRefs
<1>5. \A o \in Previous(s, k) : o \in Obs /\ queue[s][o] \in Entry
  BY DEF Previous, Held, TypeInv, TypeOK
<1>6. queue' \in Queues /\ task' \in Tasks /\ TaskHeld'
  <2>1. ASSUME NEW pred \in Predecessors(s, NewEntry(k, None, bound, FALSE)),
               queue' = [queue EXCEPT ![s][nextObs] = NewEntry(k, pred, bound, FALSE)],
               StartSpool(s, nextObs, "idle")
        PROVE  queue' \in Queues /\ task' \in Tasks /\ TaskHeld'
    <3>1. pred \in Ids
      BY <2>1, HintTyping
    <3>2. NewEntry(k, pred, bound, FALSE) \in Entry
      BY <1>1, <1>4, <3>1, NewEntryTyping
    <3> QED
      BY <1>1, <1>2, <2>1, <3>2
  <2>2. ASSUME NEW o \in Previous(s, k),
               queue' = [queue EXCEPT ![s][o] =
                   NewEntry(k, queue[s][o].pred,
                            IF queue[s][o].event # None THEN queue[s][o].event ELSE bound,
                            queue[s][o].tried)],
               StartSpool(s, o, "idle")
        PROVE  queue' \in Queues /\ task' \in Tasks /\ TaskHeld'
    <3> DEFINE ev == IF queue[s][o].event # None THEN queue[s][o].event ELSE bound
    <3>1. /\ o \in Obs /\ queue[s][o].pred \in Ids /\ ev \in EventRefs
          /\ queue[s][o].tried \in BOOLEAN
      BY <1>4, <1>5, EntryFields
    <3>2. NewEntry(k, queue[s][o].pred, ev, queue[s][o].tried) \in Entry
      BY <1>1, <3>1, NewEntryTyping
    <3> QED
      BY <1>2, <2>2, <3>1, <3>2
  <2>3. ASSUME NEW o \in Previous(s, k),
               queue' = [queue EXCEPT
                   ![s][o].rekeyed = TRUE,
                   ![s][nextObs] = NewEntry(k, o, queue[s][o].event, FALSE)],
               StartSpool(s, nextObs, "idle")
        PROVE  queue' \in Queues /\ task' \in Tasks /\ TaskHeld'
    <3> DEFINE f == [queue[s][o] EXCEPT !.rekeyed = TRUE]
               e == NewEntry(k, o, queue[s][o].event, FALSE)
    <3>1. o \in Obs /\ o \in Ids /\ queue[s][o].event \in EventRefs /\ f \in Entry
      BY <1>5, EntryFields DEF Ids
    <3>2. e \in Entry
      BY <1>1, <3>1, NewEntryTyping
    <3>3. queue' = [[queue EXCEPT ![s][o] = f] EXCEPT ![s][nextObs] = e]
      BY <2>3
    <3>4. /\ queue' \in Queues
          /\ queue'[s][nextObs] = e
          /\ \A t \in Slots : t # s => queue'[t] = queue[t]
      <4> HIDE DEF e, f
      <4> QED
        BY <1>1, <3>1, <3>2, <3>3 DEF Queues, TypeInv, TypeOK
    <3>5. /\ task' \in Tasks
          /\ task'[s] = [pc |-> "upsert", id |-> nextObs, next |-> "idle"]
          /\ \A t \in Slots : t # s => task'[t] = task[t]
      BY <1>1, <2>3, TaskKinds DEF StartSpool, Tasks, TypeInv, TypeOK
    <3>6. e # NoEntry
      <4> HIDE DEF e
      <4> QED
        BY <3>2, EntryFields
    <3>7. TaskHeld'
      <4> HIDE DEF e
      <4> QED
        BY <1>1, <3>4, <3>5, <3>6 DEF TypeInv, TaskHeld, Held
    <3> QED
      BY <3>4, <3>5, <3>7
  <2> QED
    BY <1>3, <2>1, <2>2, <2>3 DEF EnqueueWrite
<1>7. lineage' \in [Obs -> Ids]
  <2>1. task'[s].pc = "upsert"
    <3>1. \E o : StartSpool(s, o, "idle")
      BY <1>3 DEF EnqueueWrite
    <3> QED
      BY <3>1 DEF StartSpool, TypeInv, TypeOK
  <2>2. task'[s].id \in Obs /\ queue'[s][task'[s].id] \in Entry
    BY <1>6, <2>1 DEF TaskHeld, Held, Queues
  <2>3. queue'[s][task'[s].id].pred \in Ids
    BY <2>2, EntryFields
  <2> QED
    BY <2>2, <2>3 DEF Enqueue, TypeInv, TypeOK, Ids
<1> QED
  BY <1>1, <1>6, <1>7 DEF Enqueue, TypeInv, TypeOK, Queues, Tasks

LEMMA TypeStep == TypeInv /\ [Next]_vars => TypeInv'
<1> SUFFICES ASSUME TypeInv, [Next]_vars PROVE TypeInv'
  OBVIOUS
<1>1. ASSUME NEW s \in Slots, Holder(s)
      PROVE  TypeInv'
  BY <1>1, TypeUpsert, TypeFailure, TypeRegister, TypeResolve, TypeCommit, TypeDelete,
     TypeDrain, BoundsAssumption DEF Holder, Obs
<1>2. ASSUME NEW s \in Slots, Pump(s)
      PROVE  TypeInv'
  BY <1>2, TypePump, BoundsAssumption DEF Pump, Obs
<1>3. ASSUME NEW s \in Slots, Camera(s)
      PROVE  TypeInv'
  BY <1>3, TypeEnqueue, TypeWorld DEF Camera
<1>4. CASE Store \/ Stop \/ Crash
  BY <1>4, TypeWorld DEF Store
<1>5. CASE UNCHANGED vars
  BY <1>5 DEF vars, durable, memory, bounds, history, TypeInv, TypeOK, TaskHeld, Held
<1> QED
  BY <1>1, <1>2, <1>3, <1>4, <1>5 DEF Next

\* Every variable of the retry queue keeps its type, in every behaviour: rows,
\* receipts and events, the entries of every slot, and the place where the
\* holder of each lock stands.
THEOREM TypeCorrect == Spec => []TypeOK
<1>1. TypeInv => TypeOK
  BY DEF TypeInv
<1> QED
  BY <1>1, TypeInit, TypeStep, PTL DEF Spec

-----------------------------------------------------------------------------
(* The ledger: why nothing is lost and nothing is inserted twice.           *)

\* A row, a spooled entry and a holder past the spool stand for a payload that
\* was durable; a holder past the commit stands for a receipt.
Backed(o) == accepted[o] # None

RowsBacked == \A o \in Obs : outbox[o] # NoRow => Backed(o)

EntriesBacked ==
    \A s \in Slots : \A o \in Held(s) : queue[s][o].spooled => Backed(o)

HoldersBacked ==
    \A s \in Slots :
        /\ task[s].pc \in {"register", "resolve", "commit", "delete", "discard"} =>
              Backed(task[s].id)
        /\ task[s].pc \in {"delete", "discard"} => receipts[task[s].id] # None

\* An event is there only if it was inserted, and shows no later reading than
\* the newest that was written to it.
EventsInserted ==
    /\ \A v \in EventIds : events[v].stored => events[v].shows =< events[v].newest
    /\ \A o \in Obs : events[o].stored => inserts[o] > 0
    /\ \A c \in Copies : events[c].stored => copied[c] # None

Ledger ==
    /\ RowsBacked
    /\ EntriesBacked
    /\ HoldersBacked
    /\ EventsInserted
    /\ NothingLost
    /\ InsertedOnce

\* The rows that replays insert can be counted.
LEMMA RepeatsFinite ==
    ASSUME NEW q
    PROVE  IsFiniteSet(Repeats(q)) /\ Cardinality(Repeats(q)) \in Nat
<1>1. IsFiniteSet(EventIds)
  BY BoundsAssumption, FS_Interval DEF EventIds
<1>2. Repeats(q) \subseteq EventIds
  BY EventNames DEF Repeats
<1> QED
  BY <1>1, <1>2, FS_Subset, FS_CardinalityType

LEMMA LedgerInit == Init => Ledger
BY EventNames, RepeatsFinite DEF Init, Ledger, RowsBacked, EntriesBacked, HoldersBacked, EventsInserted, NothingLost,
       InsertedOnce, Held, Idle, NoEvent, Backed

\* Steps that leave the stores and the history alone.
LEMMA LedgerMemory ==
    ASSUME TypeInv, Ledger, UNCHANGED <<outbox, receipts, events, accepted, inserts, copied>>,
           EntriesBacked', HoldersBacked'
    PROVE  Ledger'
BY DEF Ledger, RowsBacked, EventsInserted, NothingLost, InsertedOnce, Repeats, Backed

\* A failed attempt leaves entry and holder backed.
LEMMA FailureBacked ==
    ASSUME TypeInv, Ledger, NEW s \in Slots, task[s].pc # "idle",
           MarkFailure(s, task[s].id), UNCHANGED <<accepted, receipts>>
    PROVE  EntriesBacked' /\ HoldersBacked'
<1> DEFINE o == task[s].id
           e == [queue[s][o] EXCEPT !.tried = TRUE]
<1>1. o \in Obs /\ queue[s][o] \in Entry /\ queue[s][o] # NoEntry
  BY AtTask DEF TypeInv, TaskHeld, Held
<1>2. e.spooled = queue[s][o].spooled
  BY <1>1 DEF Entry
<1>3. queue' = [queue EXCEPT ![s][o] = e] /\ task' = [task EXCEPT ![s] = Idle]
  BY DEF MarkFailure
<1>4. EntriesBacked'
  <2> HIDE DEF e
  <2> QED
    BY <1>1, <1>2, <1>3 DEF TypeInv, TypeOK, Ledger, EntriesBacked, Held, Backed
<1>5. HoldersBacked'
  BY <1>3 DEF TypeInv, TypeOK, Ledger, HoldersBacked, Idle, Backed
<1> QED
  BY <1>4, <1>5

LEMMA LedgerHolder ==
    ASSUME TypeInv, Ledger, NEW s \in Slots, NEW o \in Obs,
           Register(s) \/ NotDue(s, o) \/ Visit(s, o) \/ Acknowledge(s) \/ EndDrain(s)
           \/ UpsertFails(s)
    PROVE  Ledger'
<1> USE DEF durable, bounds, history
<1>1. CASE Register(s)
  <2>1. EntriesBacked' /\ HoldersBacked'
    BY <1>1, AtTask DEF Register, Continue, Idle, TypeInv, TypeOK, Ledger, EntriesBacked,
       HoldersBacked, Held, Backed
  <2> QED
    BY <1>1, <2>1, LedgerMemory DEF Register
<1>2. CASE NotDue(s, o) \/ EndDrain(s)
  <2>1. EntriesBacked' /\ HoldersBacked'
    BY <1>2 DEF NotDue, EndDrain, Ledger, EntriesBacked, HoldersBacked, Held, Backed
  <2> QED
    BY <1>2, <2>1, LedgerMemory DEF NotDue, EndDrain
<1>3. CASE Visit(s, o)
  <2> DEFINE e == queue[s][o]
             x == IF e.spooled THEN [pc |-> "resolve", id |-> o, next |-> "idle"]
                  ELSE [pc |-> "upsert", id |-> o, next |-> "resolve"]
  <2>1. EntriesBacked' /\ HoldersBacked'
    <3>1. task' = [task EXCEPT ![s] = x] /\ UNCHANGED <<queue, accepted, receipts>>
      BY <1>3 DEF Visit, StartSpool
    <3>2. /\ x.pc \in {"resolve", "upsert"} /\ x.id = o
          /\ x.pc = "resolve" => Backed(o)
      BY <1>3 DEF Visit, Eligible, Ledger, EntriesBacked
    <3> HIDE DEF x
    <3> QED
      BY <3>1, <3>2 DEF TypeInv, TypeOK, Ledger, EntriesBacked, HoldersBacked, Held, Backed
  <2> QED
    BY <1>3, <2>1, LedgerMemory DEF Visit
<1>4. CASE Acknowledge(s)
  <2>1. EntriesBacked' /\ HoldersBacked'
    BY <1>4, AtTask DEF Acknowledge, Idle, TypeInv, TypeOK, Ledger, EntriesBacked,
       HoldersBacked, Held, Backed
  <2> QED
    BY <1>4, <2>1, LedgerMemory DEF Acknowledge
<1>5. CASE UpsertFails(s)
  <2>1. ASSUME task[s].next = "idle"
        PROVE  EntriesBacked' /\ HoldersBacked'
    <3>1. task' = [task EXCEPT ![s] = Idle] /\ UNCHANGED <<queue, accepted, receipts>>
      BY <1>5, <2>1 DEF UpsertFails
    <3> QED
      BY <3>1 DEF Idle, TypeInv, TypeOK, Ledger, EntriesBacked, HoldersBacked, Held,
         Backed
  <2>2. ASSUME MarkFailure(s, task[s].id)
        PROVE  EntriesBacked' /\ HoldersBacked'
    BY <1>5, <2>2, FailureBacked DEF UpsertFails
  <2>3. EntriesBacked' /\ HoldersBacked'
    BY <1>5, <2>1, <2>2 DEF UpsertFails
  <2> QED
    BY <1>5, <2>3, LedgerMemory DEF UpsertFails
<1> QED
  BY <1>1, <1>2, <1>3, <1>4, <1>5

\* Counting an attempt creates no row.
LEMMA CountAttemptRows ==
    ASSUME TypeInv, NEW o \in Obs, CountAttempt(o) \/ UNCHANGED outbox
    PROVE  \A p \in Obs : outbox'[p] = NoRow <=> outbox[p] = NoRow
<1>1. CASE outbox' = outbox
  BY <1>1
<1>2. CASE Pending(o) /\ CountAttempt(o)
  <2>1. outbox' = [outbox EXCEPT ![o] = [outbox[o] EXCEPT !.tried = TRUE]]
    BY <1>2 DEF CountAttempt
  <2>2. [outbox[o] EXCEPT !.tried = TRUE].status = "pending" /\ outbox[o].status = "pending"
    BY <1>2 DEF Pending, TypeInv, TypeOK, Row, NoRow
  <2>3. [outbox[o] EXCEPT !.tried = TRUE] # NoRow /\ outbox[o] # NoRow
    BY <2>2 DEF NoRow
  <2> QED
    BY <2>1, <2>3 DEF TypeInv, TypeOK
<1> QED
  BY <1>1, <1>2 DEF CountAttempt

\* Rows neither made nor removed, the rest of the stores and history as it was.
LEMMA LedgerRows ==
    ASSUME TypeInv, Ledger, UNCHANGED <<receipts, events, accepted, inserts, copied>>,
           \A p \in Obs : outbox'[p] = NoRow <=> outbox[p] = NoRow,
           EntriesBacked', HoldersBacked'
    PROVE  Ledger'
BY DEF Ledger, RowsBacked, EventsInserted, NothingLost, InsertedOnce, Repeats, Backed

LEMMA LedgerFailure ==
    ASSUME TypeInv, Ledger, NEW s \in Slots, CommitFails(s) \/ DeleteFails(s)
    PROVE  Ledger'
<1>1. /\ task[s].pc # "idle" /\ MarkFailure(s, task[s].id)
      /\ CountAttempt(task[s].id) \/ UNCHANGED outbox
      /\ UNCHANGED <<receipts, events, accepted, inserts, copied>>
  BY DEF CommitFails, DeleteFails, history
<1>2. EntriesBacked' /\ HoldersBacked'
  BY <1>1, FailureBacked
<1>3. \A p \in Obs : outbox'[p] = NoRow <=> outbox[p] = NoRow
  BY <1>1, AtTask, CountAttemptRows
<1> QED
  BY <1>1, <1>2, <1>3, LedgerRows

LEMMA LedgerResolve ==
    ASSUME TypeInv, Ledger, NEW s \in Slots, Resolve(s)
    PROVE  Ledger'
<1> DEFINE o == task[s].id
<1>1. /\ o \in Obs /\ queue[s][o] \in Entry /\ task[s].pc = "resolve" /\ Backed(o)
      /\ UNCHANGED <<receipts, events, accepted, inserts, copied>>
  BY AtTask DEF Resolve, history, Ledger, HoldersBacked
<1>2. CASE MarkFailure(s, o) /\ CountAttempt(o)
  BY <1>1, <1>2, FailureBacked, CountAttemptRows, LedgerRows
<1>3. ASSUME NEW event, queue' = [queue EXCEPT ![s][o].event = event],
             StartSpool(s, o, "commit"), UNCHANGED outbox
      PROVE  Ledger'
  <2>1. EntriesBacked' /\ HoldersBacked'
    BY <1>1, <1>3 DEF StartSpool, TypeInv, TypeOK, Ledger, EntriesBacked, HoldersBacked,
       Held, Backed, Entry
  <2> QED
    BY <1>1, <1>3, <2>1, LedgerMemory
<1>4. CASE task' = [task EXCEPT ![s].pc = "commit"] /\ UNCHANGED <<queue, failed, outbox>>
  <2>1. EntriesBacked' /\ HoldersBacked'
    BY <1>1, <1>4, AtTask DEF TypeInv, TypeOK, Ledger, EntriesBacked, HoldersBacked,
       Held, Backed, Task, Idle
  <2> QED
    BY <1>1, <1>4, <2>1, LedgerMemory
<1> QED
  BY <1>2, <1>3, <1>4 DEF Resolve

LEMMA LedgerUpsert ==
    ASSUME TypeInv, Ledger, NEW s \in Slots, Upsert(s)
    PROVE  Ledger'
<1> DEFINE o == task[s].id
<1>1. /\ o \in Obs /\ queue[s][o] \in Entry /\ queue[s][o].obs # None
      /\ task[s].pc = "upsert"
  <2>1. o \in Obs /\ queue[s][o] \in Entry /\ task[s].pc = "upsert"
    BY AtTask DEF Upsert
  <2>2. queue[s][o].obs \in Obs
    BY <2>1, EntryFields
  <2> QED
    BY <2>1, <2>2, BoundsAssumption DEF Obs, None
<1>2. /\ accepted' = [accepted EXCEPT ![o] = queue[s][o].obs]
      /\ task' = [task EXCEPT ![s].pc = "register"]
      /\ UNCHANGED <<receipts, events, queue, inserts, copied>>
  BY DEF Upsert
<1>3. \A p \in Obs : Backed(p)' <=> Backed(p) \/ p = o
  BY <1>1, <1>2 DEF Backed, TypeInv, TypeOK
<1>4. /\ outbox'[o] # NoRow
      /\ \A p \in Obs : p # o => outbox'[p] = outbox[p]
  <2>1. outbox'[o].status = "pending" /\ \A p \in Obs : p # o => outbox'[p] = outbox[p]
    BY <1>1 DEF Upsert, TypeInv, TypeOK
  <2> QED
    BY <2>1 DEF NoRow
<1>5. RowsBacked' /\ NothingLost'
  BY <1>2, <1>3, <1>4 DEF Ledger, RowsBacked, NothingLost, Backed
<1>6. EntriesBacked'
  BY <1>2, <1>3 DEF Ledger, EntriesBacked, Held
<1>7. HoldersBacked'
  <2>1. ASSUME NEW t \in Slots, t # s
        PROVE  /\ task'[t] = task[t] /\ (task[t].pc # "idle" => task[t].id \in Obs)
    BY <1>2, <2>1, AtTask DEF TypeInv, TypeOK
  <2>2. task'[s].pc = "register" /\ task'[s].id = o
    BY <1>1, <1>2, AtTask DEF TypeInv, TypeOK, Task, Idle
  <2> QED
    BY <1>1, <1>2, <1>3, <2>1, <2>2 DEF Ledger, HoldersBacked
<1> QED
  BY <1>2, <1>5, <1>6, <1>7 DEF Ledger, EventsInserted, InsertedOnce, Repeats

LEMMA LedgerDelete ==
    ASSUME TypeInv, Ledger, NEW s \in Slots, Delete(s)
    PROVE  Ledger'
<1> DEFINE o == task[s].id
<1>1. o \in Obs /\ task[s].pc = "delete" /\ Backed(o) /\ receipts[o] # None
  BY AtTask DEF Delete, Ledger, HoldersBacked
<1>2. /\ outbox' = [outbox EXCEPT ![o] = NoRow]
      /\ task' = [task EXCEPT ![s].pc = "discard"]
      /\ UNCHANGED <<receipts, events, accepted, inserts, copied, queue>>
  BY DEF Delete, history
<1>3. RowsBacked' /\ NothingLost'
  BY <1>1, <1>2 DEF Ledger, RowsBacked, NothingLost, Backed, TypeInv, TypeOK
<1>4. EntriesBacked' /\ HoldersBacked'
  BY <1>1, <1>2, AtTask DEF TypeInv, TypeOK, Ledger, EntriesBacked, HoldersBacked,
     Held, Backed, Task, Idle
<1> QED
  BY <1>2, <1>3, <1>4 DEF Ledger, EventsInserted, InsertedOnce, Repeats

\* What a write without a receipt does to the history of inserts.
LEMMA WriteLedger ==
    ASSUME TypeInv, Ledger, NEW o \in Obs, NEW e \in Entry, NEW v \in EventRefs,
           receipts[o] = None, WriteEvent(o, e, v), UNCHANGED copied
    PROVE  /\ EventsInserted'
           /\ InsertedOnce'
           /\ receipts'[o] # None
           /\ \A p \in Obs : p # o => receipts'[p] = receipts[p]
<1>1. inserts[o] = 0 /\ ~events[o].stored
  BY EventNames DEF Ledger, InsertedOnce, EventsInserted, TypeInv, TypeOK
<1>2. e.obs \in Nat /\ StoredEvents \subseteq EventIds
  <2>1. e.obs \in Obs
    BY EntryFields
  <2> QED
    BY <2>1 DEF StoredEvents, Obs
<1>3. /\ receipts'[o] \in EventIds /\ receipts'[o] # None
      /\ \A p \in Obs : p # o => receipts'[p] = receipts[p]
  <2>1. receipts'[o] \in EventIds
    BY WriteTyping
  <2>2. \E w : receipts' = [receipts EXCEPT ![o] = w]
    BY DEF WriteEvent
  <2> QED
    BY <2>1, <2>2, EventNames DEF TypeInv, TypeOK
<1>4. ASSUME NEW i, InsertEvent(o, e, i)
      PROVE  EventsInserted' /\ InsertedOnce'
  <2>1. /\ inserts'[o] = 1
        /\ \A p \in Obs : p # o => inserts'[p] = inserts[p]
    BY <1>1, <1>4 DEF InsertEvent, NewEvent, TypeInv, TypeOK
  <2>2. /\ events'[o].shows = e.obs /\ events'[o].newest = e.obs
        /\ \A p \in EventIds : p # o => events'[p] = events[p]
    BY <1>4, EventNames DEF InsertEvent, NewEvent, TypeInv, TypeOK
  <2>3. InsertedOnce'
    <3>1. \A p \in Obs : Repeats(p)' = Repeats(p) /\ Cardinality(Repeats(p)) \in Nat
      BY RepeatsFinite DEF Repeats
    <3> QED
      BY <1>3, <2>1, <3>1 DEF Ledger, InsertedOnce
  <2>4. \A p \in EventIds : events'[p].stored => events'[p].shows =< events'[p].newest
    BY <1>2, <2>2 DEF Ledger, EventsInserted
  <2>5. \A p \in Obs : events'[p].stored => inserts'[p] > 0
    <3> TAKE p \in Obs
    <3>1. p # o => events'[p] = events[p]
      BY <2>2, EventNames
    <3> QED
      BY <2>1, <3>1 DEF Ledger, EventsInserted
  <2>6. \A c \in Copies : events'[c].stored => copied'[c] # None
    <3>1. \A c \in Copies : events'[c] = events[c]
      BY <2>2, EventNames
    <3> QED
      BY <3>1 DEF Ledger, EventsInserted
  <2> QED
    BY <2>3, <2>4, <2>5, <2>6 DEF EventsInserted
<1>5. ASSUME UNCHANGED inserts,
             \/ UNCHANGED events
             \/ v \in StoredEvents /\ events' = [events EXCEPT ![v] = Refreshed(v, e)]
      PROVE  EventsInserted' /\ InsertedOnce'
  <2>1. InsertedOnce'
    BY <1>3, <1>5 DEF Ledger, InsertedOnce, Repeats
  <2>2. CASE UNCHANGED events
    BY <1>5, <2>1, <2>2 DEF Ledger, EventsInserted
  <2>3. CASE v \in StoredEvents /\ events' = [events EXCEPT ![v] = Refreshed(v, e)]
    <3>1. v \in EventIds /\ events[v].stored /\ events[v].newest \in Nat
      BY <1>2, <2>3 DEF StoredEvents, TypeInv, TypeOK, Event, Ids, Obs, None
    <3>2. Refreshed(v, e).shows =< Refreshed(v, e).newest
      BY <1>2, <3>1 DEF Refreshed
    <3>3. /\ events'[v] = Refreshed(v, e)
          /\ \A p \in EventIds : p # v => events'[p] = events[p]
      BY <2>3, <3>1 DEF TypeInv, TypeOK
    <3>4. \A p \in EventIds : /\ events'[p].stored => events[p].stored
                              /\ events'[p].stored => events'[p].shows =< events'[p].newest
      BY <3>1, <3>2, <3>3 DEF Ledger, EventsInserted
    <3> QED
      BY <1>5, <2>1, <3>4, EventNames DEF Ledger, EventsInserted
  <2> QED
    BY <1>5, <2>2, <2>3
<1>6. EventsInserted' /\ InsertedOnce'
  BY <1>4, <1>5 DEF WriteEvent
<1> QED
  BY <1>3, <1>6

\* A replay keeps the history of inserts.
LEMMA ReplayLedger ==
    ASSUME TypeInv, Ledger, NEW s \in Slots, NEW o \in Obs, NEW e \in Entry,
           receipts[o] # None, Replay(s, o, e)
    PROVE  /\ EventsInserted' /\ InsertedOnce' /\ UNCHANGED receipts
           /\ \E v : Persisted(s, o, v)
<1>1. CASE UNCHANGED <<events, inserts, copied>>
  BY <1>1, ReplayKinds DEF Ledger, EventsInserted, InsertedOnce, Repeats
<1>2. CASE ~UNCHANGED <<events, inserts, copied>>
  <2>1. PICK c \in Copies, x \in Event :
           /\ copied[c] = None /\ copied' = [copied EXCEPT ![c] = o]
           /\ x.stored /\ x.shows =< x.newest
           /\ events' = [events EXCEPT ![c] = x]
           /\ inserts' = [inserts EXCEPT ![o] = @ + 1]
           /\ Persisted(s, o, c)
    BY <1>2, ReplayKinds
  <2>2. UNCHANGED receipts
    BY ReplayKinds
  <2>3. /\ events'[c] = x
        /\ \A p \in EventIds : p # c => events'[p] = events[p]
    BY <2>1, EventNames DEF TypeInv, TypeOK
  <2>4. /\ copied'[c] = o
        /\ \A d \in Copies : d # c => copied'[d] = copied[d]
    BY <2>1 DEF TypeInv, TypeOK
  <2>5. InsertedOnce'
    <3>1. Repeats(o)' = Repeats(o) \cup {c} /\ c \notin Repeats(o)
      BY <2>1, <2>4, EventNames DEF Repeats, Obs, None
    <3>2. \A p \in Obs : p # o => Repeats(p)' = Repeats(p)
      BY <2>1, <2>4, EventNames DEF Repeats, Obs, None
    <3>3. Cardinality(Repeats(o)') = Cardinality(Repeats(o)) + 1
      BY <3>1, RepeatsFinite, FS_AddElement
    <3>4. \A p \in Obs : Cardinality(Repeats(p)) \in Nat /\ inserts[p] \in Nat
      BY RepeatsFinite DEF TypeInv, TypeOK
    <3>5. inserts'[o] = inserts[o] + 1 /\ \A p \in Obs : p # o => inserts'[p] = inserts[p]
      BY <2>1 DEF TypeInv, TypeOK
    <3>6. ASSUME NEW p \in Obs
          PROVE  /\ inserts'[p] =< 1 + Cardinality(Repeats(p)')
                 /\ receipts'[p] = None => inserts'[p] = 0
      <4>1. /\ inserts[p] =< 1 + Cardinality(Repeats(p))
            /\ receipts[p] = None => inserts[p] = 0
        BY DEF Ledger, InsertedOnce
      <4>2. CASE p = o
        BY <2>2, <3>3, <3>4, <3>5, <4>1, <4>2
      <4>3. CASE p # o
        BY <2>2, <3>2, <3>5, <4>1, <4>3
      <4> QED
        BY <4>2, <4>3
    <3> QED
      BY <3>6 DEF InsertedOnce
  <2>6. \A p \in EventIds : events'[p].stored => events'[p].shows =< events'[p].newest
    BY <2>1, <2>3 DEF Ledger, EventsInserted
  <2>7. ASSUME NEW p \in Obs
        PROVE  events'[p].stored => inserts'[p] > 0
    <3>1. p # c /\ p \in EventIds
      BY EventNames
    <3>2. events'[p] = events[p]
      BY <2>3, <3>1
    <3>3. /\ inserts[p] \in Nat
          /\ inserts'[p] = inserts[p] \/ inserts'[p] = inserts[p] + 1
      BY <2>1 DEF TypeInv, TypeOK
    <3>4. events[p].stored => inserts[p] > 0
      BY DEF Ledger, EventsInserted
    <3> QED
      BY <3>2, <3>3, <3>4
  <2>8. \A d \in Copies : events'[d].stored => copied'[d] # None
    BY <2>3, <2>4, EventNames DEF Ledger, EventsInserted, Obs, None
  <2> QED
    BY <2>1, <2>2, <2>5, <2>6, <2>7, <2>8 DEF EventsInserted
<1> QED
  BY <1>1, <1>2

LEMMA LedgerCommit ==
    ASSUME TypeInv, Ledger, NEW s \in Slots, Commit(s)
    PROVE  Ledger'
<1> DEFINE o == task[s].id
           e == queue[s][o]
<1>1. /\ o \in Obs /\ e \in Entry /\ task[s].pc = "commit" /\ Backed(o)
      /\ UNCHANGED <<outbox, accepted>>
  BY AtTask DEF Commit, Ledger, HoldersBacked
<1>2. /\ \E v : Persisted(s, o, v)
      /\ receipts'[o] # None /\ \A p \in Obs : p # o => receipts'[p] = receipts[p]
      /\ EventsInserted' /\ InsertedOnce'
  <2>1. CASE receipts[o] # None
    <3>1. Replay(s, o, e)
      BY <2>1 DEF Commit
    <3> HIDE DEF e, o
    <3> QED
      BY <1>1, <2>1, <3>1, ReplayLedger
  <2>2. CASE receipts[o] = None
    <3>1. PICK v \in Reusable(s, e) \cup {e.event} : WriteEvent(o, e, v)
      BY <2>2 DEF Commit, FirstWrite
    <3>2. v \in EventRefs
      BY <1>1, <3>1, EntryFields, ZenonT(60) DEF Reusable, StoredEvents, EventRefs
    <3>3. Persisted(s, o, receipts'[o]) /\ UNCHANGED copied
      BY <2>2 DEF Commit, FirstWrite
    <3> HIDE DEF e, o
    <3> QED
      BY <1>1, <2>2, <3>1, <3>2, <3>3, WriteLedger
  <2> QED
    BY <2>1, <2>2
<1>3. EntriesBacked' /\ HoldersBacked'
  <2>1. PICK v : Persisted(s, o, v)
    BY <1>2
  <2>2. /\ queue' = [queue EXCEPT ![s][o] = [e EXCEPT !.event = v, !.committed = TRUE]]
        /\ task' = [task EXCEPT ![s].pc = "delete"]
    BY <2>1 DEF Persisted
  <2>3. EntriesBacked'
    BY <1>1, <2>2 DEF TypeInv, TypeOK, Ledger, EntriesBacked, Held, Backed
  <2>4. /\ task'[s].pc = "delete" /\ task'[s].id = o
        /\ \A t \in Slots : t # s =>
              task'[t] = task[t] /\ (task[t].pc # "idle" => task[t].id \in Obs)
    BY <1>1, <2>2, AtTask DEF TypeInv, TypeOK, Task, Idle
  <2>5. HoldersBacked'
    BY <1>1, <1>2, <2>4 DEF Ledger, HoldersBacked, Backed
  <2> QED
    BY <2>3, <2>5
<1>4. RowsBacked' /\ NothingLost'
  BY <1>1, <1>2 DEF Ledger, RowsBacked, NothingLost, Backed
<1> QED
  BY <1>2, <1>3, <1>4 DEF Ledger

LEMMA LedgerPump ==
    ASSUME TypeInv, Ledger, NEW s \in Slots, NEW o \in Obs,
           \/ Hydrate(s, o) \/ Publish(s) \/ HydrateFails(s)
           \/ Evict(s, o) \/ Prune(s) \/ Remove(s) \/ Create(s)
    PROVE  Ledger'
<1> USE DEF durable, bounds, history
<1>1. UNCHANGED <<task, accepted, receipts>> => HoldersBacked'
  BY DEF Ledger, HoldersBacked, Backed
<1>2. CASE Hydrate(s, o)
  <2>1. Backed(o)
    BY <1>2 DEF Hydrate, Pending, NoRow, Ledger, RowsBacked
  <2>2. /\ \E e : queue' = [queue EXCEPT ![s][o] = e]
        /\ UNCHANGED <<task, outbox, receipts, events, accepted, inserts, copied>>
    BY <1>2 DEF Hydrate
  <2>3. EntriesBacked'
    BY <2>1, <2>2 DEF TypeInv, TypeOK, Ledger, EntriesBacked, Held, Backed
  <2> QED
    BY <1>1, <2>2, <2>3, LedgerMemory
<1>3. CASE Evict(s, o)
  <2>1. EntriesBacked'
    BY <1>3 DEF Evict, TypeInv, TypeOK, Ledger, EntriesBacked, Held, Backed
  <2> QED
    BY <1>1, <1>3, <2>1, LedgerMemory DEF Evict
<1>4. CASE Publish(s) \/ Prune(s) \/ Remove(s) \/ Create(s)
  <2>1. EntriesBacked'
    BY <1>4 DEF Publish, Prune, Remove, Create, Ledger, EntriesBacked, Held, Backed
  <2> QED
    BY <1>1, <1>4, <2>1, LedgerMemory DEF Publish, Prune, Remove, Create
<1>5. CASE HydrateFails(s)
  <2>1. EntriesBacked'
    BY <1>5 DEF HydrateFails, TypeInv, TypeOK, Ledger, EntriesBacked, Held, Backed
  <2> QED
    BY <1>1, <1>5, <2>1, LedgerMemory DEF HydrateFails
<1> QED
  BY <1>2, <1>3, <1>4, <1>5

LEMMA LedgerEnqueue ==
    ASSUME TypeInv, Ledger, NEW s \in Slots, NEW k \in Keys, Enqueue(s, k)
    PROVE  Ledger'
<1>1. nextObs \in Obs /\ UNCHANGED <<outbox, receipts, events, accepted, inserts, copied>>
  BY DEF Enqueue, TypeInv, TypeOK, Obs, durable
<1>2. HoldersBacked'
  <2>1. \E o : task' = [task EXCEPT ![s] = [pc |-> "upsert", id |-> o, next |-> "idle"]]
    BY DEF Enqueue, StartSpool
  <2> QED
    BY <1>1, <2>1 DEF TypeInv, TypeOK, Ledger, HoldersBacked, Backed
<1>3. \/ \E o \in Obs : \E e :
           queue' = [queue EXCEPT ![s][o] = e] /\ ~e.spooled
      \/ \E o \in Held(s) : \E f :
           /\ queue' = [queue EXCEPT ![s][o].rekeyed = TRUE, ![s][nextObs] = f]
           /\ ~f.spooled
  <2>1. \A pred, event, tried : ~NewEntry(k, pred, event, tried).spooled
    BY DEF NewEntry
  <2>2. PICK bound : EnqueueWrite(s, k, bound)
    BY EnqueueBranches
  <2>3. Previous(s, k) \subseteq Held(s) /\ Held(s) \subseteq Obs
    BY DEF Previous, Held
  <2> DEFINE fresh(pred) == NewEntry(k, pred, bound, FALSE)
             again(o) == NewEntry(k, queue[s][o].pred,
                            IF queue[s][o].event # None THEN queue[s][o].event ELSE bound,
                            queue[s][o].tried)
             behind(o) == NewEntry(k, o, queue[s][o].event, FALSE)
  <2>4. /\ \A pred : ~fresh(pred).spooled
        /\ \A o : ~again(o).spooled /\ ~behind(o).spooled
    BY <2>1
  <2>5. \/ \E pred : queue' = [queue EXCEPT ![s][nextObs] = fresh(pred)]
        \/ \E o \in Previous(s, k) : queue' = [queue EXCEPT ![s][o] = again(o)]
        \/ \E o \in Previous(s, k) :
              queue' = [queue EXCEPT ![s][o].rekeyed = TRUE, ![s][nextObs] = behind(o)]
    BY <2>2 DEF EnqueueWrite
  <2> HIDE DEF fresh, again, behind
  <2> QED
    BY <1>1, <2>3, <2>4, <2>5
<1>4. ASSUME NEW o \in Obs, NEW e, queue' = [queue EXCEPT ![s][o] = e], ~e.spooled
      PROVE  EntriesBacked'
  BY <1>1, <1>4 DEF TypeInv, TypeOK, Ledger, EntriesBacked, Held, Backed
<1>5. ASSUME NEW o \in Held(s), NEW f, ~f.spooled,
             queue' = [queue EXCEPT ![s][o].rekeyed = TRUE, ![s][nextObs] = f]
      PROVE  EntriesBacked'
  <2> DEFINE e == [queue[s][o] EXCEPT !.rekeyed = TRUE]
  <2>1. o \in Obs /\ e.spooled = queue[s][o].spooled
    BY DEF Held, TypeInv, TypeOK, Entry
  <2>2. queue' = [[queue EXCEPT ![s][o] = e] EXCEPT ![s][nextObs] = f]
    BY <1>5
  <2> HIDE DEF e
  <2>3. /\ queue'[s][nextObs] = f
        /\ queue'[s][o] = f \/ queue'[s][o] = e
        /\ \A t \in Slots, p \in Obs :
              t # s \/ p \notin {o, nextObs} => queue'[t][p] = queue[t][p]
    BY <1>1, <2>1, <2>2 DEF TypeInv, TypeOK
  <2>4. ASSUME NEW t \in Slots, NEW p \in Obs, queue'[t][p] # NoEntry, queue'[t][p].spooled
        PROVE  accepted'[p] # None
    <3>1. CASE t = s /\ p = o
      <4>1. queue[s][o].spooled
        BY <1>5, <2>1, <2>3, <2>4, <3>1
      <4> QED
        BY <1>1, <3>1, <4>1 DEF Ledger, EntriesBacked, Backed
    <3>2. CASE ~(t = s /\ p = o)
      <4>1. queue'[t][p] = queue[t][p]
        BY <1>5, <2>3, <2>4, <3>2
      <4> QED
        BY <1>1, <2>4, <4>1 DEF Ledger, EntriesBacked, Held, Backed
    <3> QED
      BY <3>1, <3>2
  <2> QED
    BY <2>4 DEF EntriesBacked, Held, Backed
<1> QED
  BY <1>1, <1>2, <1>3, <1>4, <1>5, LedgerMemory

LEMMA LedgerStores ==
    ASSUME TypeInv, Ledger, Store
    PROVE  Ledger'
<1> USE DEF durable, memory, bounds, history
<1>1. EntriesBacked' /\ HoldersBacked'
  BY ZenonT(60) DEF Store, Quarantine, Expire, Correct, Ledger, EntriesBacked, HoldersBacked, Held,
     Backed
<1>2. ASSUME NEW o \in Obs, Quarantine(o)
      PROVE  Ledger'
  <2>1. [outbox[o] EXCEPT !.status = "quarantined"] # NoRow /\ outbox[o] # NoRow
    <3>1. outbox[o] \in Row
      BY <1>2 DEF Quarantine, Pending, NoRow, TypeInv, TypeOK
    <3>2. [outbox[o] EXCEPT !.status = "quarantined"].status = "quarantined"
      BY <3>1 DEF Row
    <3> QED
      BY <1>2, <3>2 DEF NoRow, Quarantine, Pending
  <2>2. \A p \in Obs : outbox'[p] = NoRow <=> outbox[p] = NoRow
    BY <1>2, <2>1 DEF Quarantine, TypeInv, TypeOK
  <2> QED
    BY <1>1, <1>2, <2>2, LedgerRows DEF Quarantine
<1>3. ASSUME NEW v \in EventIds, NEW x \in Event, events' = [events EXCEPT ![v] = x],
             x.stored => events[v].stored /\ x.shows =< x.newest,
             UNCHANGED <<outbox, receipts, accepted, inserts, copied>>
      PROVE  Ledger'
  <2>1. \A w \in EventIds :
          /\ events'[w].stored => events[w].stored
          /\ events'[w].stored => events'[w].shows =< events'[w].newest
    BY <1>3 DEF Ledger, EventsInserted, TypeInv, TypeOK
  <2>2. EventsInserted'
    BY <1>3, <2>1, EventNames DEF Ledger, EventsInserted
  <2> QED
    BY <1>1, <1>3, <2>2 DEF Ledger, RowsBacked, NothingLost, InsertedOnce, Repeats, Backed
<1>4. ASSUME NEW v \in EventIds, Expire(v)
      PROVE  Ledger'
  <2>1. NoEvent \in Event /\ ~NoEvent.stored
    BY DEF NoEvent, Event, Plates, Ids
  <2> QED
    BY <1>3, <1>4, <2>1 DEF Expire
<1>5. ASSUME NEW v \in EventIds, NEW p \in Plates, Correct(v, p)
      PROVE  Ledger'
  <2> DEFINE n == IF events[v].newest > nextObs - 1 THEN events[v].newest ELSE nextObs - 1
             x == [events[v] EXCEPT !.ident = p, !.confirmed = TRUE, !.newest = n]
  <2>1. /\ n \in Ids /\ events[v].newest =< n
        /\ events[v].shows \in Nat /\ events[v].newest \in Nat
    BY BoundsAssumption DEF TypeInv, TypeOK, Event, Ids, Obs, None
  <2>2. /\ events' = [events EXCEPT ![v] = x]
        /\ events[v].stored /\ events[v].shows =< events[v].newest
        /\ UNCHANGED <<outbox, receipts, accepted, inserts, copied>>
    BY <1>5 DEF Correct, Ledger, EventsInserted
  <2>3. events[v] \in Event
    BY DEF TypeInv, TypeOK
  <2>4. x \in Event /\ x.shows = events[v].shows /\ x.newest = n
    <3> HIDE DEF n
    <3> QED
      BY <2>1, <2>3 DEF Event
  <2>5. x.shows =< x.newest
    <3> HIDE DEF x
    <3> QED
      BY <2>1, <2>2, <2>4 DEF Ids, Obs, None
  <2> HIDE DEF x
  <2> QED
    BY <1>3, <2>2, <2>4, <2>5
<1> QED
  BY <1>2, <1>4, <1>5 DEF Store

LEMMA LedgerRestart ==
    ASSUME TypeInv, Ledger, Stop \/ Crash
    PROVE  Ledger'
<1>1. Restart
  BY DEF Stop, Crash
<1>2. PICK s \in Slots, S \in SUBSET {o \in Obs : Pending(o)} :
         queue' = [t \in Slots |-> [o \in Obs |->
               IF t = s /\ o \in S
               THEN FromRow(o, \E p \in S : p < o /\ outbox[p].key = outbox[o].key)
               ELSE NoEntry]]
  BY <1>1 DEF Restart
<1>3. \A o \in S : o \in Obs /\ accepted[o] # None
  BY <1>2 DEF Pending, NoRow, Ledger, RowsBacked, Backed
<1>4. \A t \in Slots : \A o \in Obs : queue'[t][o] # NoEntry => o \in S
  BY <1>2
<1>5. UNCHANGED <<outbox, receipts, events, accepted, inserts, copied>>
  BY DEF Stop, Crash, durable, history
<1>6. EntriesBacked'
  BY <1>3, <1>4, <1>5 DEF EntriesBacked, Held, Backed
<1>7. task' = [t \in Slots |-> Idle]
  BY <1>1 DEF Restart
<1>8. HoldersBacked'
  BY <1>7 DEF HoldersBacked, Idle
<1> QED
  BY <1>5, <1>6, <1>8, LedgerMemory

LEMMA LedgerStep == TypeInv /\ Ledger /\ [Next]_vars => Ledger'
<1> SUFFICES ASSUME TypeInv, Ledger, [Next]_vars PROVE Ledger'
  OBVIOUS
<1>1. ASSUME NEW s \in Slots, Holder(s)
      PROVE  Ledger'
  BY <1>1, LedgerUpsert, LedgerFailure, LedgerResolve, LedgerCommit, LedgerDelete,
     LedgerHolder, BoundsAssumption DEF Holder, Obs
<1>2. ASSUME NEW s \in Slots, Pump(s) \/ Camera(s)
      PROVE  Ledger'
  BY <1>2, LedgerPump, LedgerEnqueue, BoundsAssumption DEF Pump, Camera, Obs
<1>3. CASE Store \/ Stop \/ Crash
  BY <1>3, LedgerStores, LedgerRestart DEF Store
<1>4. CASE UNCHANGED vars
  <2>1. EntriesBacked' /\ HoldersBacked'
    BY <1>4 DEF vars, durable, memory, history, Ledger, EntriesBacked, HoldersBacked,
       Held, Backed
  <2> QED
    BY <1>4, <2>1, LedgerMemory DEF vars, durable, history
<1> QED
  BY <1>1, <1>2, <1>3, <1>4 DEF Next

\* The inductive invariant holds in every behaviour.
LEMMA Invariant == Spec => [](TypeInv /\ Ledger)
BY TypeInit, TypeStep, LedgerInit, LedgerStep, PTL DEF Spec

\* An id whose row was once durable keeps its row until its receipt is there,
\* through failing I/O, eviction, camera removals and crashes at any point.
THEOREM NothingIsLost == Spec => []NothingLost
<1>1. Ledger => NothingLost
  BY DEF Ledger
<1> QED
  BY <1>1, Invariant, PTL

\* Whatever copies of an entry are drained, retried or replayed, its id inserts
\* one event, but for one more with each replay that found that event with another
\* plate, and none before its receipt.
THEOREM InsertedAtMostOnce == Spec => []InsertedOnce
<1>1. Ledger => InsertedOnce
  BY DEF Ledger
<1> QED
  BY <1>1, Invariant, PTL

-----------------------------------------------------------------------------
(* What a step does to the stores, and the journal it implements.           *)

\* Only a spool, a commit and retention touch what the journal speaks of.
LEMMA StoreSteps ==
    ASSUME [Next]_vars
    PROVE  \/ UNCHANGED <<receipts, events, inserts, copied, accepted, expired>>
           \/ \E s \in Slots : Upsert(s) \/ Commit(s)
           \/ \E v \in EventIds : Expire(v) \/ \E p \in Plates \ {NoPlate} : Correct(v, p)
<1> USE DEF durable, bounds, history
<1>1. ASSUME NEW s \in Slots, Holder(s)
      PROVE  \/ UNCHANGED <<receipts, events, inserts, copied, accepted, expired>>
             \/ Upsert(s) \/ Commit(s)
  BY <1>1 DEF Holder, UpsertFails, Register, Resolve, CommitFails, Delete, DeleteFails,
              Acknowledge, EndDrain, NotDue, Visit
<1>2. ASSUME NEW s \in Slots, Pump(s) \/ Camera(s)
      PROVE  UNCHANGED <<receipts, events, inserts, copied, accepted, expired>>
  BY <1>2 DEF Pump, Camera, Prune, Hydrate, Publish, HydrateFails, Evict, Remove, Create, Enqueue
<1>3. CASE Store
  BY <1>3 DEF Store, Quarantine
<1>4. CASE Stop \/ Crash
  BY <1>4 DEF Stop, Crash
<1>5. CASE UNCHANGED vars
  BY <1>5 DEF vars
<1> QED
  BY <1>1, <1>2, <1>3, <1>4, <1>5 DEF Next

\* A commit either replays a receipt or writes one for an id that is owed one.
LEMMA CommitKinds ==
    ASSUME TypeInv, Ledger, NEW s \in Slots, Commit(s)
    PROVE  /\ UNCHANGED accepted
           /\ \E o \in Obs, e \in Entry :
                \/ receipts[o] # None /\ Replay(s, o, e)
                \/ \E v \in EventRefs :
                      Backed(o) /\ receipts[o] = None /\ WriteEvent(o, e, v)
                      /\ UNCHANGED copied
<1> DEFINE o == task[s].id
           e == queue[s][o]
<1>1. o \in Obs /\ e \in Entry /\ Backed(o) /\ e.event \in EventRefs /\ UNCHANGED accepted
  BY AtTask, EntryFields DEF Commit, Ledger, HoldersBacked
<1>2. CASE receipts[o] # None
  <2>1. Replay(s, o, e)
    BY <1>2 DEF Commit
  <2> HIDE DEF e, o
  <2> QED
    BY <1>1, <1>2, <2>1
<1>3. CASE receipts[o] = None
  <2>1. PICK v \in Reusable(s, e) \cup {e.event} : WriteEvent(o, e, v)
    BY <1>3 DEF Commit, FirstWrite
  <2>2. v \in EventRefs /\ UNCHANGED copied
    BY <1>1, <1>3, <2>1 DEF Reusable, StoredEvents, EventRefs, Commit, FirstWrite
  <2> HIDE DEF e, o
  <2> QED
    BY <1>1, <1>3, <2>1, <2>2
<1> QED
  BY <1>2, <1>3

\* What a write leaves behind, event by event.
LEMMA WriteKinds ==
    ASSUME TypeInv, Ledger, NEW o \in Obs, NEW e \in Entry, NEW v \in EventRefs,
           receipts[o] = None, WriteEvent(o, e, v)
    PROVE  /\ inserts[o] = 0 /\ ~events[o].stored
           /\ \/ /\ receipts' = [receipts EXCEPT ![o] = o]
                 /\ events'[o].stored
                 /\ \A w \in EventIds : w # o => events'[w] = events[w]
              \/ /\ v \in StoredEvents
                 /\ receipts' = [receipts EXCEPT ![o] = v]
                 /\ \/ UNCHANGED events
                    \/ /\ ~Conflicting(v, e) /\ ~Outdated(v, e)
                       /\ events' = [events EXCEPT ![v] = Refreshed(v, e)]
<1>1. inserts[o] = 0 /\ ~events[o].stored
  BY DEF Ledger, InsertedOnce, EventsInserted, TypeInv, TypeOK
<1>2. ASSUME NEW i, InsertEvent(o, e, i)
      PROVE  /\ events'[o].stored
             /\ \A w \in EventIds : w # o => events'[w] = events[w]
  BY <1>2, EventNames DEF InsertEvent, NewEvent, TypeInv, TypeOK
<1>3. Conflicting(v, e) \/ Outdated(v, e) => v \in StoredEvents
  BY DEF Conflicting, Outdated
<1> QED
  BY <1>1, <1>2, <1>3 DEF WriteEvent, Contradicts

\* What a replay leaves behind: nothing, or one more event under a name unused.
LEMMA ReplaySteps ==
    ASSUME TypeInv, Ledger, NEW s \in Slots, NEW o \in Obs, NEW e \in Entry,
           receipts[o] # None, Replay(s, o, e)
    PROVE  /\ UNCHANGED receipts
           /\ \/ UNCHANGED <<events, inserts, copied>>
              \/ \E c \in Copies :
                    /\ ~events[c].stored /\ events'[c].stored
                    /\ \A w \in EventIds : w # c => events'[w] = events[w]
<1>1. \A c \in Copies : copied[c] = None => ~events[c].stored
  BY DEF Ledger, EventsInserted, TypeInv, TypeOK, Event
<1>2. ASSUME NEW c \in Copies, NEW x \in Event, x.stored, events' = [events EXCEPT ![c] = x]
      PROVE  /\ events'[c].stored
             /\ \A w \in EventIds : w # c => events'[w] = events[w]
  BY <1>2, EventNames DEF TypeInv, TypeOK
<1> QED
  BY <1>1, <1>2, ReplayKinds

LEMMA FrozenNext == TypeInv /\ Ledger /\ [Next]_vars => FrozenStep
<1> SUFFICES ASSUME TypeInv, Ledger, [Next]_vars PROVE FrozenStep
  OBVIOUS
<1>0. \A v \in EventIds : /\ events[v].shows \in Nat /\ events[v].newest \in Nat
                          /\ events[v].shows >= events[v].shows
  BY DEF TypeInv, TypeOK, Event, Ids, Obs, None
<1>1. CASE UNCHANGED <<receipts, events>>
  BY <1>0, <1>1, EventNames DEF FrozenStep
<1>2. ASSUME NEW v \in EventIds, Expire(v)
      PROVE  FrozenStep
  <2>1. UNCHANGED receipts /\ ~events'[v].stored
    BY <1>2 DEF Expire, NoEvent, TypeInv, TypeOK
  <2>2. \A w \in EventIds : w # v => events'[w] = events[w]
    BY <1>2 DEF Expire, TypeInv, TypeOK
  <2> QED
    BY <1>0, <2>1, <2>2, EventNames DEF FrozenStep
<1>3. ASSUME NEW o \in Obs, NEW e \in Entry, NEW v \in EventRefs, receipts[o] = None,
             WriteEvent(o, e, v)
      PROVE  FrozenStep
  <2>1. \A p \in Obs : receipts[p] # None => receipts'[p] = receipts[p]
    BY <1>3, WriteKinds DEF TypeInv, TypeOK
  <2>3. CASE \A w \in EventIds : w # o => events'[w] = events[w]
    <3>1. inserts[o] = 0 /\ ~events[o].stored
      BY <1>3, WriteKinds
    <3> QED
      BY <1>0, <2>1, <2>3, <3>1, EventNames DEF FrozenStep
  <2>4. CASE /\ v \in StoredEvents /\ ~Conflicting(v, e) /\ ~Outdated(v, e)
             /\ events' = [events EXCEPT ![v] = Refreshed(v, e)]
    <3>1. v \in EventIds /\ events[v].stored /\ events[v].shows =< events[v].newest
      BY <2>4 DEF StoredEvents, Ledger, EventsInserted
    <3>2. events'[v] = Refreshed(v, e)
          /\ \A w \in EventIds : w # v => events'[w] = events[w]
      BY <2>4, <3>1 DEF TypeInv, TypeOK
    <3>3. e.obs \in Nat
      <4>1. e.obs \in Obs
        BY EntryFields
      <4> QED
        BY <4>1 DEF Obs
    <3>4. ASSUME events[v].ident # NoPlate
          PROVE  /\ Ident[e.key] = events[v].ident
                 /\ e.obs >= events[v].shows
      BY <1>0, <2>4, <3>1, <3>3, <3>4 DEF Conflicting, Outdated
    <3>5. Refreshed(v, e).stored /\ Refreshed(v, e).ident = Ident[e.key]
          /\ Refreshed(v, e).shows = e.obs
      BY DEF Refreshed
    <3> QED
      BY <1>0, <2>1, <3>1, <3>2, <3>4, <3>5, EventNames DEF FrozenStep
  <2>5. CASE UNCHANGED events
    BY <1>0, <2>1, <2>5, EventNames DEF FrozenStep
  <2> QED
    BY <1>3, <2>3, <2>4, <2>5, WriteKinds
<1>4. ASSUME NEW s \in Slots, NEW o \in Obs, NEW e \in Entry, receipts[o] # None,
             Replay(s, o, e)
      PROVE  FrozenStep
  <2>1. UNCHANGED receipts
    BY <1>4, ReplaySteps
  <2>2. CASE UNCHANGED events
    BY <1>1, <2>1, <2>2
  <2>3. CASE \E c \in Copies : /\ ~events[c].stored
                               /\ \A w \in EventIds : w # c => events'[w] = events[w]
    BY <1>0, <2>1, <2>3, EventNames DEF FrozenStep
  <2> QED
    BY <1>4, <2>2, <2>3, ReplaySteps
<1>5. ASSUME NEW s \in Slots, Commit(s)
      PROVE  FrozenStep
  BY <1>3, <1>4, <1>5, CommitKinds
<1>6. ASSUME NEW s \in Slots, Upsert(s)
      PROVE  FrozenStep
  BY <1>1, <1>6 DEF Upsert
<1>7. ASSUME NEW v \in EventIds, NEW p \in Plates \ {NoPlate}, Correct(v, p)
      PROVE  FrozenStep
  <2>1. /\ UNCHANGED receipts /\ corrections' = corrections + 1 /\ events[v].stored
        /\ events'[v].stored /\ events'[v].ident = p /\ events'[v].shows = events[v].shows
        /\ \A w \in EventIds : w # v => events'[w] = events[w]
    BY <1>7 DEF Correct, TypeInv, TypeOK, Event
  <2>2. corrections' # corrections
    BY <2>1 DEF TypeInv, TypeOK
  <2> QED
    BY <1>0, <2>1, <2>2, EventNames DEF FrozenStep
<1> QED
  BY <1>1, <1>2, <1>5, <1>6, <1>7, StoreSteps

\* A receipt is never rewritten; an event with a plate never loses it, changes
\* it only by an operator's hand and never goes back to an older reading; what
\* retention deleted is never inserted again.
THEOREM ReceiptsAndPlatesFrozen == Spec => Frozen
<1>1. TypeInv /\ Ledger /\ [Next]_vars => [FrozenStep]_vars
  BY FrozenNext
<1> QED
  BY <1>1, Invariant, PTL DEF Spec, Frozen

\* The ids the journal is owed.
Owed == {o \in Obs : accepted[o] # None /\ receipts[o] = None}

LEMMA JournalInit == Init => Journal!Init
BY DEF Init, Journal!Init, StoredEvents, NoEvent

LEMMA JournalNext == TypeInv /\ Ledger /\ [Next]_vars => [Journal!Next]_(Journal!vars)
<1> SUFFICES ASSUME TypeInv, Ledger, [Next]_vars
             PROVE  [Journal!Next]_(Journal!vars)
  OBVIOUS
<1> USE DEF Journal!vars
<1>1. CASE UNCHANGED <<receipts, events, accepted>>
  BY <1>1 DEF StoredEvents
<1>2. ASSUME NEW v \in EventIds, Expire(v)
      PROVE  [Journal!Next]_(Journal!vars)
  <2>1. v \in StoredEvents /\ UNCHANGED <<receipts, accepted>>
    BY <1>2 DEF Expire, StoredEvents, history
  <2>2. StoredEvents' = StoredEvents \ {v}
    BY <1>2 DEF Expire, StoredEvents, NoEvent, TypeInv, TypeOK
  <2>3. Journal!Expire(v)
    BY <2>1, <2>2 DEF Journal!Expire
  <2> QED
    BY <2>1, <2>3 DEF Journal!Next
<1>3. ASSUME NEW s \in Slots, Upsert(s)
      PROVE  [Journal!Next]_(Journal!vars)
  <2> PICK o \in Obs : o = task[s].id
    BY <1>3, AtTask DEF Upsert
  <2>1. queue[s][o].obs # None
    <3>1. queue[s][o] \in Entry
      BY <1>3, AtTask DEF Upsert
    <3>2. queue[s][o].obs \in Obs
      BY <3>1, EntryFields
    <3> QED
      BY <3>1, <3>2, BoundsAssumption DEF Obs, None
  <2>2. /\ accepted' = [accepted EXCEPT ![o] = queue[s][o].obs]
        /\ UNCHANGED <<receipts, events>>
    BY <1>3 DEF Upsert
  <2>3. CASE receipts[o] = None
    <3>1. Owed' = Owed \cup {o}
      BY <2>1, <2>2, <2>3 DEF Owed, TypeInv, TypeOK
    <3>2. Journal!Accept(o)
      BY <2>2, <2>3, <3>1 DEF Journal!Accept, Owed, StoredEvents
    <3> QED
      BY <2>1, <3>2 DEF Journal!Next
  <2>4. CASE receipts[o] # None
    <3>1. Owed' = Owed
      BY <2>1, <2>2, <2>4 DEF Owed, TypeInv, TypeOK
    <3> QED
      BY <2>2, <3>1 DEF Owed, StoredEvents
  <2> QED
    BY <2>3, <2>4
<1>4. ASSUME NEW o \in Obs, NEW e \in Entry, NEW v \in EventRefs, Backed(o),
             receipts[o] = None, WriteEvent(o, e, v), UNCHANGED <<accepted, copied>>
      PROVE  [Journal!Next]_(Journal!vars)
  <2>1. o \in Owed /\ o \notin StoredEvents
    BY <1>4, WriteKinds DEF Owed, Backed, StoredEvents
  <2>2. receipts'[o] # None /\ \A p \in Obs : p # o => receipts'[p] = receipts[p]
    BY <1>4, WriteLedger
  <2>3. Owed' = Owed \ {o}
    BY <1>4, <2>1, <2>2 DEF Owed
  <2>4. CASE /\ receipts' = [receipts EXCEPT ![o] = o]
             /\ events'[o].stored
             /\ \A w \in EventIds : w # o => events'[w] = events[w]
    <3>1. StoredEvents' = StoredEvents \cup {o}
      BY <2>4, EventNames DEF StoredEvents
    <3> QED
      BY <1>4, <2>1, <2>3, <2>4, <3>1 DEF Journal!Next, Journal!Settle, Owed
  <2>5. CASE /\ v \in StoredEvents
             /\ receipts' = [receipts EXCEPT ![o] = v]
             /\ UNCHANGED events \/ events' = [events EXCEPT ![v] = Refreshed(v, e)]
    <3>1. Refreshed(v, e).stored
      BY DEF Refreshed
    <3>2. StoredEvents' = StoredEvents
      BY <2>5, <3>1 DEF StoredEvents, TypeInv, TypeOK
    <3> QED
      BY <1>4, <2>1, <2>3, <2>5, <3>2 DEF Journal!Next, Journal!Settle, Owed
  <2> QED
    BY <1>4, <2>4, <2>5, WriteKinds
<1>5. ASSUME NEW s \in Slots, NEW o \in Obs, NEW e \in Entry, receipts[o] # None,
             Replay(s, o, e), UNCHANGED accepted
      PROVE  [Journal!Next]_(Journal!vars)
  <2>1. UNCHANGED receipts
    BY <1>5, ReplaySteps
  <2>2. CASE UNCHANGED events
    BY <1>1, <1>5, <2>1, <2>2
  <2>3. ASSUME NEW c \in Copies, ~events[c].stored, events'[c].stored,
               \A w \in EventIds : w # c => events'[w] = events[w]
        PROVE  [Journal!Next]_(Journal!vars)
    <3>1. StoredEvents' = StoredEvents \cup {c} /\ c \notin StoredEvents
      BY <2>3, EventNames DEF StoredEvents
    <3>2. Journal!Repeat(c)
      BY <1>5, <2>1, <3>1 DEF Journal!Repeat
    <3> QED
      BY <3>2 DEF Journal!Next
  <2> QED
    BY <1>5, <2>2, <2>3, ReplaySteps
<1>6. ASSUME NEW s \in Slots, Commit(s)
      PROVE  [Journal!Next]_(Journal!vars)
  BY <1>4, <1>5, <1>6, CommitKinds
<1>7. ASSUME NEW v \in EventIds, NEW p \in Plates, Correct(v, p)
      PROVE  [Journal!Next]_(Journal!vars)
  <2>1. UNCHANGED <<receipts, accepted>>
    BY <1>7 DEF Correct, history
  <2>2. StoredEvents' = StoredEvents
    BY <1>7 DEF Correct, StoredEvents, TypeInv, TypeOK, Event
  <2> QED
    BY <2>1, <2>2
<1> QED
  BY <1>1, <1>2, <1>3, <1>6, <1>7, StoreSteps

\* The retry queue, with its slots, its sidecar, its drains, its hydration and
\* its crashes, implements the journal: every id that was durably accepted is
\* settled at most once, by one event, which only retention takes away.
THEOREM ImplementsJournal == Spec => JournalSpec
<1>1. Init => Journal!Init
  BY JournalInit
<1>2. TypeInv /\ Ledger /\ [Next]_vars => [Journal!Next]_(Journal!vars)
  BY JournalNext
<1> QED
  BY <1>1, <1>2, Invariant, PTL DEF Spec, JournalSpec, Journal!Spec

-----------------------------------------------------------------------------
(* Corrections stay with their visit.                                       *)

\* The events that other entries of the visit of o, or its predecessor, settled.
Settled(o) ==
    UNION {Outcomes(q) : q \in {p \in Obs \ {o} : p = lineage[o] \/ SameVisit(p, o)}}

\* A copy c of entry o has a key o was emitted under.  If it awaits its event from
\* a predecessor, it knows which one, and no event but a settled one of the visit.
Linked(c, o) ==
    /\ c.key \in emitted[o]
    /\ lineage[o] # None =>
          /\ c.pred = lineage[o]
          /\ receipts[o] = None /\ c.event # None => c.event \in Settled(o)

RowLinked(o) == outbox[o] # NoRow => Linked(outbox[o], o)

\* So does the copy in a slot.  The live one's eventless entries await theirs
\* from their predecessors, and what was written knows its outcome.
EntryLinked(s, o) ==
    queue[s][o] # NoEntry =>
        /\ Linked(queue[s][o], o)
        /\ slot[s] = "live" /\ queue[s][o].event = None => lineage[o] = queue[s][o].pred
        /\ queue[s][o].committed => queue[s][o].event \in Outcomes(o)

\* The caches of a slot know outcomes, by the key of their entry.
CacheSettled(s) ==
    \A k \in known[s] : \E q \in Obs : k.key \in emitted[q] /\ k.event \in Outcomes(q)

\* An entry about to be written knows its event or awaits none; a holder past
\* the commit stands on an entry that was written.
AtCommit(x) == x.pc = "commit" \/ (x.pc \in {"upsert", "register"} /\ x.next = "commit")
HolderLinked(s) ==
    /\ AtCommit(task[s]) => \/ queue[s][task[s].id].event # None
                            \/ queue[s][task[s].id].pred = None
    /\ task[s].pc \in {"delete", "discard"} => queue[s][task[s].id].committed

\* One slot is live, and a free one holds nothing.
SlotsUsed ==
    /\ \A s, t \in Slots : slot[s] = "live" /\ slot[t] = "live" => s = t
    /\ \A s \in Slots : slot[s] = "free" => Held(s) = {}

\* Nothing is known yet of an observation to come.
Unused(o) ==
    o >= nextObs => /\ receipts[o] = None /\ outbox[o] = NoRow
                    /\ \A s \in Slots : queue[s][o] = NoEntry

\* A receipt of an entry that waited for its event.
ChainAt(o) ==
    receipts[o] # None /\ lineage[o] # None =>
        /\ \E q \in Obs \ {o} : /\ q = lineage[o] \/ SameVisit(q, o)
                                /\ receipts[q] # None
                                /\ receipts[o] \in {o} \cup Outcomes(q)
        /\ receipts[o] = o => \/ expired > 0
                             \/ \E k \in emitted[o] : Ident[k] # NoPlate

\* What was settled is stored, until retention takes something.
OutcomesStored ==
    \/ expired > 0
    \/ /\ \A q \in Obs : receipts[q] # None => receipts[q] \in StoredEvents
       /\ \A c \in Copies : copied[c] # None => c \in StoredEvents

\* Why a correction is never settled ahead of what it waits for, nor apart from it.
Chained ==
    /\ \A o \in Obs : RowLinked(o) /\ Unused(o) /\ ChainAt(o)
    /\ \A s \in Slots : CacheSettled(s) /\ HolderLinked(s)
    /\ \A s \in Slots, o \in Obs : EntryLinked(s, o)
    /\ SlotsUsed

-----------------------------------------------------------------------------
(* What was settled is stored.                                              *)

LEMMA StoredInit == Init => OutcomesStored
BY DEF Init, OutcomesStored

LEMMA StoredStep == TypeInv /\ Ledger /\ OutcomesStored /\ [Next]_vars => OutcomesStored'
<1> SUFFICES ASSUME TypeInv, Ledger, OutcomesStored, [Next]_vars PROVE OutcomesStored'
  OBVIOUS
<1>1. CASE UNCHANGED <<receipts, events, copied, expired>>
  BY <1>1 DEF OutcomesStored, StoredEvents
<1>2. ASSUME NEW v \in EventIds, Expire(v)
      PROVE  OutcomesStored'
  BY <1>2 DEF Expire, OutcomesStored, TypeInv, TypeOK
<1>3. ASSUME NEW v \in EventIds, NEW p \in Plates \ {NoPlate}, Correct(v, p)
      PROVE  OutcomesStored'
  <2>1. UNCHANGED <<receipts, copied, expired>>
    BY <1>3 DEF Correct, history
  <2>2. StoredEvents' = StoredEvents
    BY <1>3 DEF Correct, StoredEvents, TypeInv, TypeOK, Event
  <2> QED
    BY <2>1, <2>2 DEF OutcomesStored
<1>4. ASSUME NEW s \in Slots, Commit(s)
      PROVE  OutcomesStored'
  <2>1. expired' = expired
    BY <1>4 DEF Commit, bounds
  <2>2. ASSUME NEW o \in Obs, NEW e \in Entry, receipts[o] # None, Replay(s, o, e)
        PROVE  OutcomesStored'
    <3>1. UNCHANGED receipts
      BY <2>2, ReplayKinds
    <3>2. CASE UNCHANGED <<events, copied>>
      BY <1>1, <2>1, <3>1, <3>2
    <3>3. ASSUME NEW c \in Copies, copied' = [copied EXCEPT ![c] = o],
                 NEW x \in Event, x.stored, events' = [events EXCEPT ![c] = x]
          PROVE  OutcomesStored'
      <4>1. StoredEvents' = StoredEvents \cup {c}
        BY <3>3, EventNames DEF StoredEvents, TypeInv, TypeOK
      <4>2. \A d \in Copies : copied'[d] # None => copied[d] # None \/ d = c
        BY <3>3 DEF TypeInv, TypeOK
      <4> QED
        BY <2>1, <3>1, <4>1, <4>2 DEF OutcomesStored
    <3> QED
      BY <2>2, <3>2, <3>3, ReplayKinds
  <2>3. ASSUME NEW o \in Obs, NEW e \in Entry, NEW v \in EventRefs, receipts[o] = None,
               WriteEvent(o, e, v), UNCHANGED copied
        PROVE  OutcomesStored'
    <3>1. StoredEvents \subseteq StoredEvents' /\ receipts'[o] \in StoredEvents'
      <4>1. CASE /\ receipts' = [receipts EXCEPT ![o] = o] /\ events'[o].stored
                 /\ \A w \in EventIds : w # o => events'[w] = events[w]
        BY <4>1, EventNames DEF StoredEvents, TypeInv, TypeOK
      <4>2. CASE /\ v \in StoredEvents /\ receipts' = [receipts EXCEPT ![o] = v]
                 /\ UNCHANGED events \/ events' = [events EXCEPT ![v] = Refreshed(v, e)]
        <5>1. v \in EventIds /\ events[v].stored
          BY <4>2 DEF StoredEvents
        <5>2. receipts'[o] = v
          BY <4>2 DEF TypeInv, TypeOK
        <5>3. Refreshed(v, e).stored
          BY DEF Refreshed
        <5>4. \A w \in EventIds : events[w].stored => events'[w].stored
          BY <4>2, <5>1, <5>3 DEF TypeInv, TypeOK
        <5> QED
          BY <5>1, <5>2, <5>4 DEF StoredEvents
      <4> QED
        BY <2>3, <4>1, <4>2, WriteKinds
    <3>2. \A p \in Obs : p # o => receipts'[p] = receipts[p]
      BY <2>3, WriteLedger
    <3> QED
      BY <2>1, <2>3, <3>1, <3>2 DEF OutcomesStored
  <2> QED
    BY <1>4, <2>2, <2>3, CommitKinds
<1>5. ASSUME NEW s \in Slots, Upsert(s)
      PROVE  OutcomesStored'
  BY <1>1, <1>5 DEF Upsert, bounds
<1> QED
  BY <1>1, <1>2, <1>3, <1>4, <1>5, StoreSteps

-----------------------------------------------------------------------------
(* A step keeps what it does not touch.                                     *)

\* Receipts stay, and what is settled stays settled.
Grows ==
    /\ \A q \in Obs : receipts[q] # None => receipts'[q] = receipts[q]
    /\ \A c \in Copies : copied[c] # None => copied'[c] = copied[c]
    /\ \A q \in Obs : emitted[q] \subseteq emitted'[q]
    /\ expired > 0 => expired' > 0

\* A copy that was there keeps what Chained says of it.
EntryStays(t, p) ==
    \/ queue'[t][p] = queue[t][p]
    \/ queue'[t][p] = NoEntry
    \/ /\ queue[t][p] # NoEntry
       /\ queue'[t][p].key = queue[t][p].key /\ queue'[t][p].pred = queue[t][p].pred
       /\ queue'[t][p].event = queue[t][p].event
       /\ queue'[t][p].committed = queue[t][p].committed

RowStays(p) ==
    \/ outbox'[p] = outbox[p]
    \/ outbox'[p] = NoRow
    \/ /\ outbox[p] # NoRow
       /\ outbox'[p].key = outbox[p].key /\ outbox'[p].pred = outbox[p].pred
       /\ outbox'[p].event = outbox[p].event

\* What is settled stays so, and so do links, caches and chains.
LEMMA OutcomesGrow ==
    ASSUME TypeInv, Grows, NEW q \in Obs
    PROVE  Outcomes(q) \subseteq Outcomes(q)'
BY DEF Outcomes, Repeats, Grows, TypeInv, TypeOK, Obs, None

LEMMA VisitsStay ==
    ASSUME Grows, NEW q \in Obs, NEW o \in Obs, SameVisit(q, o)
    PROVE  SameVisit(q, o)'
BY DEF SameVisit, Grows

LEMMA SettledGrows ==
    ASSUME TypeInv, Grows, NEW o \in Obs, lineage'[o] = lineage[o]
    PROVE  Settled(o) \subseteq Settled(o)'
<1>1. ASSUME NEW v \in Settled(o)
      PROVE  v \in Settled(o)'
  <2>1. PICK q \in Obs \ {o} : (q = lineage[o] \/ SameVisit(q, o)) /\ v \in Outcomes(q)
    BY <1>1 DEF Settled
  <2>2. (q = lineage'[o] \/ SameVisit(q, o)') /\ v \in Outcomes(q)'
    BY <2>1, OutcomesGrow, VisitsStay
  <2> QED
    BY <2>1, <2>2 DEF Settled
<1> QED
  BY <1>1

LEMMA EntryKept ==
    ASSUME TypeInv, Chained, Grows, NEW t \in Slots, NEW p \in Obs, lineage'[p] = lineage[p],
           EntryStays(t, p), slot'[t] = "live" => slot[t] = "live"
    PROVE  EntryLinked(t, p)'
<1>1. EntryLinked(t, p)
  BY DEF Chained
<1>2. /\ Settled(p) \subseteq Settled(p)' /\ Outcomes(p) \subseteq Outcomes(p)'
      /\ receipts'[p] = None => receipts[p] = None
      /\ emitted[p] \subseteq emitted'[p]
  BY SettledGrows, OutcomesGrow DEF Grows
<1>3. CASE queue'[t][p] = queue[t][p]
  BY <1>1, <1>2, <1>3 DEF EntryLinked, Linked
<1>4. CASE queue'[t][p] = NoEntry
  BY <1>4 DEF EntryLinked
<1>5. CASE /\ queue[t][p] # NoEntry
           /\ queue'[t][p].key = queue[t][p].key /\ queue'[t][p].pred = queue[t][p].pred
           /\ queue'[t][p].event = queue[t][p].event
           /\ queue'[t][p].committed = queue[t][p].committed
  BY <1>1, <1>2, <1>5 DEF EntryLinked, Linked
<1> QED
  BY <1>3, <1>4, <1>5 DEF EntryStays

LEMMA RowKept ==
    ASSUME TypeInv, Chained, Grows, NEW p \in Obs, lineage'[p] = lineage[p], RowStays(p)
    PROVE  RowLinked(p)'
<1>1. RowLinked(p)
  BY DEF Chained
<1>2. /\ Settled(p) \subseteq Settled(p)' /\ (receipts'[p] = None => receipts[p] = None)
      /\ emitted[p] \subseteq emitted'[p]
  BY SettledGrows DEF Grows
<1> QED
  BY <1>1, <1>2 DEF RowStays, RowLinked, Linked

LEMMA ChainStays ==
    ASSUME TypeInv, Chained, Grows, NEW p \in Obs, lineage'[p] = lineage[p],
           receipts'[p] = receipts[p]
    PROVE  ChainAt(p)'
<1>1. CASE receipts[p] = None \/ lineage[p] = None
  BY <1>1 DEF ChainAt
<1>2. CASE receipts[p] # None /\ lineage[p] # None
  <2>1. PICK q \in Obs \ {p} : /\ q = lineage[p] \/ SameVisit(q, p)
                               /\ receipts[q] # None
                               /\ receipts[p] \in {p} \cup Outcomes(q)
    BY <1>2 DEF Chained, ChainAt
  <2>2. /\ q = lineage'[p] \/ SameVisit(q, p)'
        /\ receipts'[q] # None
        /\ receipts'[p] \in {p} \cup Outcomes(q)'
    BY <2>1, OutcomesGrow, VisitsStay DEF Grows
  <2>3. receipts'[p] = p => expired' > 0 \/ \E k \in emitted'[p] : Ident[k] # NoPlate
    BY <1>2 DEF Chained, ChainAt, Grows
  <2> QED
    BY <2>2, <2>3 DEF ChainAt
<1> QED
  BY <1>1, <1>2

LEMMA CacheStays ==
    ASSUME TypeInv, Chained, Grows, NEW t \in Slots, known'[t] \subseteq known[t]
    PROVE  CacheSettled(t)'
<1>1. ASSUME NEW k \in known'[t]
      PROVE  \E q \in Obs : k.key \in emitted'[q] /\ k.event \in Outcomes(q)'
  <2>1. PICK q \in Obs : k.key \in emitted[q] /\ k.event \in Outcomes(q)
    BY <1>1 DEF Chained, CacheSettled
  <2> QED
    BY <2>1, OutcomesGrow DEF Grows
<1> QED
  BY <1>1 DEF CacheSettled

\* A holder that does not move, on an entry that stays.
LEMMA HolderKept ==
    ASSUME TypeInv, Chained, NEW t \in Slots, task'[t] = task[t],
           \A p \in Obs : (EntryStays(t, p) /\ queue'[t][p] # NoEntry)
                          \/ queue'[t][p] = queue[t][p]
    PROVE  HolderLinked(t)'
<1>1. CASE task[t].pc = "idle"
  BY <1>1 DEF HolderLinked, AtCommit
<1>2. CASE task[t].pc # "idle"
  <2>1. task[t].id \in Obs /\ HolderLinked(t)
    BY <1>2, AtTask DEF Chained
  <2> DEFINE p == task[t].id
  <2>2. /\ queue'[t][p].pred = queue[t][p].pred
        /\ queue'[t][p].event = queue[t][p].event
        /\ queue'[t][p].committed = queue[t][p].committed
    BY <2>1 DEF EntryStays
  <2> QED
    BY <2>1, <2>2 DEF HolderLinked
<1> QED
  BY <1>1, <1>2

\* All of it together: a step that tells, of each part it touches, that the part
\* is as Chained wants it.
LEMMA ChainedMove ==
    ASSUME TypeInv, Chained, Grows, UNCHANGED lineage,
           \A t \in Slots, p \in Obs :
               \/ EntryStays(t, p) /\ (slot'[t] = "live" => slot[t] = "live")
               \/ EntryLinked(t, p)',
           \A p \in Obs : RowStays(p) \/ RowLinked(p)',
           \A p \in Obs : receipts'[p] = receipts[p] \/ ChainAt(p)',
           \A p \in Obs : Unused(p)',
           \A t \in Slots : known'[t] \subseteq known[t] \/ CacheSettled(t)',
           \A t \in Slots : HolderLinked(t)',
           SlotsUsed'
    PROVE  Chained'
<1>1. \A t \in Slots, p \in Obs : EntryLinked(t, p)'
  BY EntryKept
<1>2. \A p \in Obs : RowLinked(p)' /\ Unused(p)' /\ ChainAt(p)'
  BY RowKept, ChainStays
<1>3. \A t \in Slots : CacheSettled(t)' /\ HolderLinked(t)'
  BY CacheStays DEF Chained
<1> QED
  BY <1>1, <1>2, <1>3 DEF Chained

\* The step of a holder: it writes entry e at o of its slot s, where there was
\* one, and moves to task x.
LEMMA ChainedHolder ==
    ASSUME TypeInv, Chained, Grows, NEW s \in Slots, NEW o \in Obs, NEW e, NEW x,
           queue[s][o] # NoEntry,
           queue' = [queue EXCEPT ![s][o] = e], task' = [task EXCEPT ![s] = x],
           UNCHANGED <<slot, lineage, emitted, expired, nextObs>>,
           EntryStays(s, o) \/ EntryLinked(s, o)',
           \A p \in Obs : RowStays(p) \/ (p = o /\ RowLinked(p)'),
           \A p \in Obs : receipts'[p] = receipts[p] \/ (p = o /\ ChainAt(p)'),
           \A t \in Slots : known'[t] \subseteq known[t] \/ CacheSettled(t)',
           HolderLinked(s)'
    PROVE  Chained'
<1>1. /\ queue'[s][o] = e
      /\ \A t \in Slots, p \in Obs : t # s \/ p # o => queue'[t][p] = queue[t][p]
  BY DEF TypeInv, TypeOK
<1>2. task'[s] = x /\ \A t \in Slots : t # s => task'[t] = task[t]
  BY DEF TypeInv, TypeOK
<1>3. \A t \in Slots, p \in Obs : EntryStays(t, p) \/ EntryLinked(t, p)'
  <2> TAKE t \in Slots, p \in Obs
  <2>1. CASE t = s /\ p = o
    BY <2>1
  <2>2. CASE ~(t = s /\ p = o)
    BY <1>1, <2>2 DEF EntryStays
  <2> QED
    BY <2>1, <2>2
<1>4. \A t \in Slots : HolderLinked(t)'
  <2> TAKE t \in Slots
  <2>1. CASE t = s
    BY <2>1
  <2>2. CASE t # s
    BY <1>1, <1>2, <2>2, HolderKept
  <2> QED
    BY <2>1, <2>2
<1>5. \A p \in Obs : Unused(p)'
  <2> TAKE p \in Obs
  <2>1. CASE p < nextObs
    BY <2>1 DEF Unused, Obs, TypeInv, TypeOK
  <2>2. CASE p >= nextObs
    <3>1. /\ receipts[p] = None /\ outbox[p] = NoRow
          /\ \A t \in Slots : queue[t][p] = NoEntry
      BY <2>2 DEF Chained, Unused
    <3>2. p # o
      BY <3>1
    <3>3. receipts'[p] = None /\ outbox'[p] = NoRow
      BY <3>1, <3>2 DEF RowStays
    <3>4. \A t \in Slots : queue'[t][p] = NoEntry
      BY <1>1, <3>1, <3>2
    <3> QED
      BY <3>3, <3>4 DEF Unused
  <2> QED
    BY <2>1, <2>2 DEF Obs, TypeInv, TypeOK
<1>6. SlotsUsed'
  <2>1. \A t \in Slots : Held(t)' \subseteq Held(t)
    BY <1>1 DEF Held
  <2> QED
    BY <2>1 DEF Chained, SlotsUsed
<1> QED
  BY <1>3, <1>4, <1>5, <1>6, ChainedMove

-----------------------------------------------------------------------------
(* The steps of a holder.                                                   *)

LEMMA ChainedInit == Init => Chained
BY BoundsAssumption
   DEF Init, Chained, RowLinked, Unused, ChainAt, CacheSettled, HolderLinked, AtCommit,
       EntryLinked, SlotsUsed, Held, Idle, NoEntry, NoRow, None, Obs

\* An entry that a failed attempt marked, or that was spooled, is the same copy.
LEMMA SameCopy ==
    ASSUME NEW e \in Entry, NEW f, f \in {[e EXCEPT !.tried = TRUE],
                                          [e EXCEPT !.spooled = TRUE],
                                          [e EXCEPT !.rekeyed = TRUE]}
    PROVE  /\ f \in Entry /\ f # NoEntry
           /\ f.key = e.key /\ f.pred = e.pred /\ f.event = e.event /\ f.committed = e.committed
<1>1. f \in Entry
  <2>1. /\ [e EXCEPT !.tried = TRUE] \in Entry
        /\ [e EXCEPT !.spooled = TRUE] \in Entry
        /\ [e EXCEPT !.rekeyed = TRUE] \in Entry
    BY EntryFields
  <2> QED
    BY <2>1, Zenon
<1>2. /\ DOMAIN e = {"key", "obs", "pred", "event", "spooled", "committed", "tried",
                     "rekeyed"}
      /\ \/ f = [e EXCEPT !.tried = TRUE] \/ f = [e EXCEPT !.spooled = TRUE]
         \/ f = [e EXCEPT !.rekeyed = TRUE]
  BY DEF Entry
<1>3. f.key = e.key /\ f.pred = e.pred
  BY <1>2
<1>4. f.event = e.event
  BY <1>2
<1>5. f.committed = e.committed
  BY <1>2
<1> QED
  BY <1>1, <1>3, <1>4, <1>5, EntryFields

\* Counting an attempt leaves the row the copy it was.
LEMMA CountAttemptStays ==
    ASSUME TypeInv, NEW o \in Obs, CountAttempt(o) \/ UNCHANGED outbox
    PROVE  \A p \in Obs : RowStays(p)
<1>1. CASE outbox' = outbox
  BY <1>1 DEF RowStays
<1>2. CASE Pending(o) /\ CountAttempt(o)
  <2> DEFINE r == [outbox[o] EXCEPT !.tried = TRUE]
  <2>1. outbox' = [outbox EXCEPT ![o] = r]
    BY <1>2 DEF CountAttempt
  <2>2. /\ outbox[o] # NoRow /\ r.key = outbox[o].key
        /\ r.pred = outbox[o].pred /\ r.event = outbox[o].event
    BY <1>2 DEF Pending, TypeInv, TypeOK, Row, NoRow
  <2> HIDE DEF r
  <2> QED
    BY <2>1, <2>2 DEF RowStays, TypeInv, TypeOK
<1> QED
  BY <1>1, <1>2 DEF CountAttempt

\* A holder that fails, and leaves its lock.
LEMMA ChainedFailure ==
    ASSUME TypeInv, Chained, NEW s \in Slots, task[s].pc # "idle",
           MarkFailure(s, task[s].id), CountAttempt(task[s].id) \/ UNCHANGED outbox,
           UNCHANGED <<receipts, copied, slot, known, lineage, emitted, expired, nextObs>>
    PROVE  Chained'
<1> DEFINE o == task[s].id
           e == [queue[s][o] EXCEPT !.tried = TRUE]
<1>1. o \in Obs /\ queue[s][o] \in Entry /\ queue[s][o] # NoEntry
  BY AtTask DEF TypeInv, TaskHeld, Held
<1>2. /\ e \in Entry /\ e # NoEntry
      /\ e.key = queue[s][o].key /\ e.pred = queue[s][o].pred
      /\ e.event = queue[s][o].event /\ e.committed = queue[s][o].committed
  BY <1>1, SameCopy
<1>3. queue' = [queue EXCEPT ![s][o] = e] /\ task' = [task EXCEPT ![s] = Idle]
  BY DEF MarkFailure
<1>4. \A p \in Obs : RowStays(p)
  BY <1>1, CountAttemptStays
<1> HIDE DEF e, o
<1>5. EntryStays(s, o)
  BY <1>1, <1>2, <1>3 DEF EntryStays, TypeInv, TypeOK
<1>6. HolderLinked(s)'
  BY <1>3 DEF HolderLinked, AtCommit, Idle, TypeInv, TypeOK
<1> QED
  BY <1>1, <1>3, <1>4, <1>5, <1>6, ChainedHolder DEF Grows

LEMMA ChainedFails ==
    ASSUME TypeInv, Chained, NEW s \in Slots,
           UpsertFails(s) \/ CommitFails(s) \/ DeleteFails(s)
    PROVE  Chained'
<1> USE DEF durable, bounds, history
<1>1. CASE UpsertFails(s) /\ task[s].next = "idle"
  <2> DEFINE o == task[s].id
  <2>1. o \in Obs /\ queue[s][o] # NoEntry
    BY <1>1, AtTask DEF UpsertFails, TypeInv, TaskHeld, Held
  <2>2. /\ queue' = [queue EXCEPT ![s][o] = queue[s][o]]
        /\ task' = [task EXCEPT ![s] = Idle]
        /\ UNCHANGED <<outbox, queue, receipts, copied, slot, known, lineage, emitted, expired, nextObs>>
    BY <1>1, <2>1, SameQueue DEF UpsertFails
  <2>3. HolderLinked(s)'
    BY <2>2 DEF HolderLinked, AtCommit, Idle, TypeInv, TypeOK
  <2> HIDE DEF o
  <2> QED
    BY <2>1, <2>2, <2>3, ChainedHolder DEF Grows, EntryStays, RowStays
<1>2. CASE ~(UpsertFails(s) /\ task[s].next = "idle")
  BY <1>2, ChainedFailure DEF UpsertFails, CommitFails, DeleteFails
<1> QED
  BY <1>1, <1>2

LEMMA ChainedUpsert ==
    ASSUME TypeInv, Chained, NEW s \in Slots, Upsert(s)
    PROVE  Chained'
<1>0. PICK o \in Obs : o = task[s].id
  BY AtTask DEF Upsert
<1> DEFINE e == queue[s][o]
           x == [task[s] EXCEPT !.pc = "register"]
           old == outbox[o]
           rowEvent == IF old # NoRow /\ old.event # None THEN old.event ELSE e.event
           attempts == IF old # NoRow THEN old.tried ELSE e.tried
           row == [status |-> "pending", key |-> e.key, obs |-> e.obs,
                   pred |-> e.pred, event |-> rowEvent, tried |-> attempts]
<1>1. o \in Obs /\ e \in Entry /\ e # NoEntry /\ task[s] \in Task /\ task[s].pc = "upsert"
  BY <1>0, AtTask DEF Upsert, TypeInv, TaskHeld, Held
<1>2. /\ queue' = [queue EXCEPT ![s][o] = e] /\ UNCHANGED queue
      /\ task' = [task EXCEPT ![s] = x]
      /\ outbox' = [outbox EXCEPT ![o] = row]
      /\ UNCHANGED <<receipts, copied, slot, known, lineage, emitted, expired, nextObs>>
  BY <1>0, <1>1, SameQueue DEF Upsert, bounds
<1>3. x.pc = "register" /\ x.id = o /\ x.next = task[s].next
  BY <1>0, <1>1 DEF Task, Idle
<1>4. HolderLinked(s)'
  <2>1. task'[s] = x /\ HolderLinked(s)
    BY <1>2 DEF TypeInv, TypeOK, Chained
  <2> HIDE DEF x, e
  <2> QED
    BY <1>0, <1>1, <1>2, <1>3, <2>1 DEF HolderLinked, AtCommit
<1>5. row.key = e.key /\ row.pred = e.pred /\ row.event = rowEvent
  OBVIOUS
<1>6. RowLinked(o)'
  <2>1. EntryLinked(s, o) /\ RowLinked(o)
    BY <1>1 DEF Chained
  <2>2. /\ e.key \in emitted[o]
        /\ lineage[o] # None =>
             /\ e.pred = lineage[o]
             /\ receipts[o] = None /\ rowEvent # None => rowEvent \in Settled(o)
    <3> HIDE DEF e
    <3> QED
      BY <1>1, <2>1 DEF EntryLinked, RowLinked, Linked, e
  <2>3. outbox'[o] = row
    BY <1>1, <1>2 DEF TypeInv, TypeOK
  <2>4. Settled(o) \subseteq Settled(o)'
    BY <1>2, SettledGrows DEF Grows
  <2> HIDE DEF row, rowEvent, e
  <2> QED
    BY <1>2, <1>5, <2>2, <2>3, <2>4 DEF RowLinked, Linked
<1>7. \A p \in Obs : RowStays(p) \/ (p = o /\ RowLinked(p)')
  <2> HIDE DEF row
  <2> QED
    BY <1>2, <1>6 DEF RowStays, TypeInv, TypeOK
<1>8. queue[s][o] # NoEntry /\ EntryStays(s, o) /\ Grows
  BY <1>1, <1>2 DEF EntryStays, Grows
<1> HIDE DEF x, e, row
<1> QED
  BY <1>1, <1>2, <1>4, <1>7, <1>8, ChainedHolder

LEMMA ChainedRegister ==
    ASSUME TypeInv, Chained, NEW s \in Slots, Register(s)
    PROVE  Chained'
<1> DEFINE o == task[s].id
           e == [queue[s][o] EXCEPT !.spooled = TRUE]
           x == IF task[s].next = "idle" THEN Idle
                ELSE [task[s] EXCEPT !.pc = task[s].next]
<1>1. /\ o \in Obs /\ queue[s][o] \in Entry /\ queue[s][o] # NoEntry
      /\ task[s] \in Task /\ task[s].pc = "register"
      /\ task[s].next \in {"idle", "resolve", "commit"}
  BY AtTask DEF Register, TypeInv, TaskHeld, Held
<1>2. /\ e \in Entry /\ e # NoEntry
      /\ e.key = queue[s][o].key /\ e.pred = queue[s][o].pred
      /\ e.event = queue[s][o].event /\ e.committed = queue[s][o].committed
  BY <1>1, SameCopy
<1>3. /\ queue' = [queue EXCEPT ![s][o] = e] /\ task' = [task EXCEPT ![s] = x]
      /\ UNCHANGED <<outbox, receipts, copied, slot, known, lineage, emitted, expired, nextObs>>
  BY DEF Register, Continue, durable, bounds, history
<1>4. /\ x.pc \in {"idle", "resolve"} \/ (x.pc = "commit" /\ x.id = o /\ AtCommit(task[s]))
      /\ x.pc \notin {"upsert", "register"}
  BY <1>1 DEF AtCommit, Idle, Task
<1> HIDE DEF e, x
<1>5. queue'[s][o] = e /\ task'[s] = x /\ EntryStays(s, o) /\ HolderLinked(s)
  BY <1>1, <1>2, <1>3 DEF EntryStays, TypeInv, TypeOK, Chained
<1>6. HolderLinked(s)'
  BY <1>2, <1>4, <1>5 DEF HolderLinked, AtCommit
<1> HIDE DEF o
<1> QED
  BY <1>1, <1>3, <1>5, <1>6, ChainedHolder DEF Grows, RowStays

LEMMA ChainedDrain ==
    ASSUME TypeInv, Chained, NEW s \in Slots, NEW o \in Obs,
           NotDue(s, o) \/ Visit(s, o) \/ EndDrain(s)
    PROVE  Chained'
<1> USE DEF durable, bounds, history
<1>1. CASE NotDue(s, o) \/ EndDrain(s)
  <2>1. /\ UNCHANGED <<outbox, receipts, copied, slot, queue, task, lineage, emitted, expired, nextObs>>
        /\ \A t \in Slots : known'[t] \subseteq known[t]
    BY <1>1 DEF NotDue, EndDrain, TypeInv, TypeOK
  <2>2. \A p \in Obs : Unused(p)'
    BY <2>1 DEF Chained, Unused
  <2>3. SlotsUsed'
    BY <2>1 DEF Chained, SlotsUsed, Held
  <2>4. \A t \in Slots : HolderLinked(t)'
    BY <2>1, HolderKept
  <2> QED
    BY <2>1, <2>2, <2>3, <2>4, ChainedMove DEF Grows, EntryStays, RowStays
<1>2. CASE Visit(s, o)
  <2> DEFINE e == queue[s][o]
             x == IF e.spooled THEN [pc |-> "resolve", id |-> o, next |-> "idle"]
                  ELSE [pc |-> "upsert", id |-> o, next |-> "resolve"]
  <2>1. /\ e # NoEntry /\ task' = [task EXCEPT ![s] = x]
        /\ queue' = [queue EXCEPT ![s][o] = e]
        /\ UNCHANGED <<outbox, receipts, copied, slot, queue, known, lineage, emitted, expired, nextObs>>
    BY <1>2, SameQueue DEF Visit, StartSpool, Eligible, Held
  <2>2. ~AtCommit(x) /\ x.pc \notin {"delete", "discard"}
    BY DEF AtCommit
  <2> HIDE DEF x
  <2>3. HolderLinked(s)'
    BY <2>1, <2>2 DEF HolderLinked, TypeInv, TypeOK
  <2> HIDE DEF e
  <2> QED
    BY <2>1, <2>3, ChainedHolder DEF Grows, EntryStays, RowStays, e
<1> QED
  BY <1>1, <1>2

\* An event that a drain finds for an entry without one is settled.
LEMMA EffectiveSettled ==
    ASSUME TypeInv, Chained, NEW s \in Slots, NEW o \in Obs, queue[s][o] \in Entry,
           EntryLinked(s, o), NEW event \in EffectiveEvents(s, o), event # None
    PROVE  \/ event = queue[s][o].event
           \/ /\ queue[s][o].event = None
              /\ lineage[o] # None /\ receipts[o] = None => event \in Settled(o)
<1> DEFINE e == queue[s][o]
<1>1. CASE e.event # None
  BY <1>1 DEF EffectiveEvents
<1>2. CASE e.event = None /\ event \in ResolvedEvents(s, e)
  <2>1. PICK k \in known[s] : event = k.event /\ (SameScope(k, e) \/ CanFollow(k, e))
    BY <1>2 DEF ResolvedEvents, Newest
  <2>2. PICK q \in Obs : k.key \in emitted[q] /\ event \in Outcomes(q)
    BY <2>1 DEF Chained, CacheSettled
  <2>3. e.key \in emitted[o]
    BY EntryFields DEF EntryLinked, Linked
  <2>4. SameVisit(q, o)
    BY <2>1, <2>2, <2>3 DEF SameVisit, SameScope, CanFollow
  <2>5. receipts[o] = None => q # o
    BY <2>2 DEF Outcomes
  <2> QED
    BY <1>2, <2>2, <2>4, <2>5 DEF Settled
<1>3. CASE e.event = None /\ e.pred # None /\ event = receipts[e.pred]
  <2>1. e.pred \in Obs
    BY <1>3, EntryFields DEF Ids
  <2>2. lineage[o] # None => e.pred = lineage[o]
    BY EntryFields DEF EntryLinked, Linked
  <2>3. event \in Outcomes(e.pred)
    BY <1>3 DEF Outcomes
  <2>4. receipts[o] = None => e.pred # o
    BY <1>3
  <2> QED
    BY <1>3, <2>1, <2>2, <2>3, <2>4 DEF Settled
<1> QED
  BY <1>1, <1>2, <1>3 DEF EffectiveEvents

LEMMA ChainedResolve ==
    ASSUME TypeInv, Chained, NEW s \in Slots, Resolve(s)
    PROVE  Chained'
<1>0. PICK o \in Obs : o = task[s].id
  BY AtTask DEF Resolve
<1> DEFINE e == queue[s][o]
<1>1. /\ o \in Obs /\ e \in Entry /\ e # NoEntry /\ task[s] \in Task
      /\ task[s].pc = "resolve"
      /\ UNCHANGED <<receipts, copied, slot, known, lineage, emitted, expired, nextObs>>
      /\ EntryLinked(s, o)
  BY <1>0, AtTask DEF Resolve, TypeInv, TaskHeld, Held, bounds, history, Chained
<1>2. CASE MarkFailure(s, o) /\ CountAttempt(o)
  BY <1>0, <1>1, <1>2, ChainedFailure
<1>3. ASSUME NEW event \in EffectiveEvents(s, o), event # None, e.event # event,
             queue' = [queue EXCEPT ![s][o].event = event],
             StartSpool(s, o, "commit"), UNCHANGED outbox
      PROVE  Chained'
  <2> DEFINE f == [e EXCEPT !.event = event]
             x == [pc |-> "upsert", id |-> o, next |-> "commit"]
  <2>1. /\ e.event = None
        /\ lineage[o] # None /\ receipts[o] = None => event \in Settled(o)
    BY <1>1, <1>3, EffectiveSettled
  <2>2. /\ f.event = event /\ f.pred = e.pred
        /\ f.committed = e.committed /\ f.key = e.key
    BY <1>1 DEF Entry
  <2>3. queue' = [queue EXCEPT ![s][o] = f] /\ task' = [task EXCEPT ![s] = x]
    BY <1>3 DEF StartSpool
  <2>4. x.pc = "upsert" /\ x.id = o
    OBVIOUS
  <2> HIDE DEF f, x
  <2>5. queue'[s][o] = f /\ task'[s] = x
    BY <1>1, <2>3 DEF TypeInv, TypeOK
  <2>6. Settled(o) \subseteq Settled(o)'
    BY <1>1, <1>3, SettledGrows DEF Grows
  <2>7. ~e.committed
    <3>1. None \notin Outcomes(o)
      BY EventNames DEF Outcomes, Repeats
    <3> QED
      BY <1>1, <2>1, <3>1 DEF EntryLinked
  <2>8. EntryLinked(s, o)'
    <3> HIDE DEF e
    <3> QED
      BY <1>1, <1>3, <2>1, <2>2, <2>5, <2>6, <2>7 DEF EntryLinked, Linked, e
  <2>9. HolderLinked(s)'
    BY <1>1, <1>3, <2>2, <2>4, <2>5 DEF HolderLinked
  <2>10. queue[s][o] # NoEntry /\ Grows /\ \A p \in Obs : RowStays(p)
    BY <1>1, <1>3 DEF Grows, RowStays
  <2> HIDE DEF e
  <2> QED
    BY <1>1, <2>3, <2>8, <2>9, <2>10, ChainedHolder
<1>4. ASSUME NEW event \in EffectiveEvents(s, o),
             event # None => e.event = event, event = None => e.pred = None,
             task' = [task EXCEPT ![s].pc = "commit"], UNCHANGED <<queue, outbox>>
      PROVE  Chained'
  <2> DEFINE x == [task[s] EXCEPT !.pc = "commit"]
  <2>1. x.pc = "commit" /\ x.id = o
    BY <1>0, <1>1, TaskMove
  <2>2. /\ queue' = [queue EXCEPT ![s][o] = e] /\ task' = [task EXCEPT ![s] = x]
    BY <1>1, <1>4, SameQueue
  <2> HIDE DEF x
  <2>3. task'[s] = x
    BY <2>2 DEF TypeInv, TypeOK
  <2>4. e.event # None \/ e.pred = None
    BY <1>4
  <2>5. HolderLinked(s)'
    <3>1. queue'[s][o].event # None \/ queue'[s][o].pred = None
      BY <1>4, <2>4
    <3> QED
      BY <2>1, <2>3, <3>1 DEF HolderLinked
  <2>6. /\ queue[s][o] # NoEntry /\ EntryStays(s, o) /\ Grows
        /\ \A p \in Obs : RowStays(p)
    BY <1>1, <1>4 DEF EntryStays, Grows, RowStays
  <2> HIDE DEF e
  <2> QED
    BY <1>1, <2>2, <2>5, <2>6, ChainedHolder
<1> QED
  BY <1>0, <1>2, <1>3, <1>4 DEF Resolve

\* The first write of an entry that knows its event, or awaits none: the receipt
\* names that event, or one of the entry's own.
LEMMA ChainedWrite ==
    ASSUME TypeInv, TypeInv', Ledger, OutcomesStored, Chained,
           NEW s \in Slots, NEW o \in Obs, NEW e \in Entry, receipts[o] = None,
           Linked(e, o), e.event # None \/ e.pred = None, FirstWrite(s, o, e),
           UNCHANGED <<lineage, emitted, expired>>
    PROVE  /\ Grows
           /\ \A p \in Obs : p # o => receipts'[p] = receipts[p]
           /\ receipts'[o] \in Outcomes(o)'
           /\ ChainAt(o)'
<1>1. PICK v \in Reusable(s, e) \cup {e.event} : WriteEvent(o, e, v)
  BY DEF FirstWrite
<1>2. v \in EventRefs /\ UNCHANGED copied
  BY EntryFields DEF FirstWrite, Reusable, StoredEvents, EventRefs
<1>3. /\ receipts'[o] # None /\ \A p \in Obs : p # o => receipts'[p] = receipts[p]
  BY <1>1, <1>2, WriteLedger
<1>4. Grows
  BY <1>2, <1>3 DEF Grows
<1>5. receipts'[o] \in {o, v}
  BY <1>1 DEF WriteEvent, TypeInv, TypeOK
<1>6. receipts'[o] \in Outcomes(o)'
  BY <1>3 DEF Outcomes
<1>7. ASSUME lineage[o] # None
      PROVE  ChainAt(o)'
  <2>1. e.event # None /\ e.event \in Settled(o)
    BY <1>7 DEF Linked
  <2>2. v = e.event
    BY <2>1 DEF Reusable
  <2>3. PICK q \in Obs \ {o} : /\ q = lineage[o] \/ SameVisit(q, o)
                               /\ v \in Outcomes(q)
    BY <2>1, <2>2 DEF Settled
  <2>4. /\ q = lineage'[o] \/ SameVisit(q, o)'
        /\ receipts'[q] # None
        /\ receipts'[o] \in {o} \cup Outcomes(q)'
    <3>1. receipts[q] # None
      BY <2>3 DEF Outcomes
    <3> QED
      BY <1>3, <1>4, <1>5, <2>3, <3>1, OutcomesGrow, VisitsStay
  <2>5. v \in StoredEvents \/ expired > 0
    <3>1. receipts[q] # None /\ v \in {receipts[q]} \cup Repeats(q)
      BY <2>3 DEF Outcomes
    <3>2. v \in Repeats(q) => v \in Copies /\ copied[v] # None
      BY DEF Repeats, Obs, None
    <3> QED
      BY <3>1, <3>2 DEF OutcomesStored
  <2>6. v \in StoredEvents => v # o
    BY <1>1, <1>2, WriteKinds DEF StoredEvents
  <2>7. CASE v \in StoredEvents /\ ~Contradicts(v, e)
    <3>1. receipts'[o] = v
      BY <1>1, <2>7 DEF WriteEvent, TypeInv, TypeOK
    <3> QED
      BY <1>7, <2>4, <2>6, <2>7, <3>1 DEF ChainAt
  <2>8. CASE Contradicts(v, e)
    <3>1. e.key \in emitted'[o] /\ Ident[e.key] # NoPlate
      BY <2>8 DEF Contradicts, Linked
    <3> QED
      BY <2>4, <3>1 DEF ChainAt
  <2>9. CASE expired > 0
    BY <2>4, <2>9 DEF ChainAt
  <2> QED
    BY <2>5, <2>7, <2>8, <2>9
<1>8. lineage[o] = None => ChainAt(o)'
  BY DEF ChainAt
<1> QED
  BY <1>3, <1>4, <1>6, <1>7, <1>8

LEMMA ChainedReplay ==
    ASSUME TypeInv, Ledger, Chained, NEW s \in Slots, NEW o \in Obs,
           NEW e \in Entry, receipts[o] # None, Replay(s, o, e),
           UNCHANGED <<emitted, expired>>
    PROVE  /\ Grows /\ UNCHANGED receipts
           /\ \E v \in Outcomes(o)' : Persisted(s, o, v)
<1>1. CASE Persisted(s, o, receipts[o]) /\ UNCHANGED <<receipts, copied>>
  BY <1>1 DEF Grows, Outcomes
<1>2. ASSUME NEW c \in Copies, copied[c] = None, copied' = [copied EXCEPT ![c] = o],
             Persisted(s, o, c), UNCHANGED receipts
      PROVE  /\ Grows /\ UNCHANGED receipts
             /\ \E v \in Outcomes(o)' : Persisted(s, o, v)
  <2>1. /\ copied'[c] = o
        /\ \A d \in Copies : d # c => copied'[d] = copied[d]
    BY <1>2 DEF TypeInv, TypeOK
  <2>2. c \in Outcomes(o)'
    BY <1>2, <2>1 DEF Outcomes, Repeats
  <2> QED
    BY <1>2, <2>1, <2>2 DEF Grows
<1> QED
  BY <1>1, <1>2, ReplayKinds

LEMMA ChainedCommit ==
    ASSUME TypeInv, TypeInv', Ledger, OutcomesStored, Chained, NEW s \in Slots, Commit(s)
    PROVE  Chained'
<1>0. PICK o \in Obs : o = task[s].id
  BY AtTask DEF Commit
<1> DEFINE e == queue[s][o]
           x == [task[s] EXCEPT !.pc = "delete"]
<1>1. /\ o \in Obs /\ e \in Entry /\ e # NoEntry /\ task[s] \in Task
      /\ task[s].pc = "commit"
      /\ UNCHANGED <<outbox, slot, known, lineage, emitted, expired, nextObs>>
      /\ EntryLinked(s, o) /\ HolderLinked(s)
  BY <1>0, AtTask DEF Commit, TypeInv, TaskHeld, Held, Chained, bounds
<1>2. Linked(e, o) /\ (e.event # None \/ e.pred = None)
  BY <1>0, <1>1 DEF EntryLinked, HolderLinked, AtCommit
<1>3. /\ Grows /\ \A p \in Obs : p # o => receipts'[p] = receipts[p]
      /\ receipts'[o] = receipts[o] \/ ChainAt(o)'
      /\ \E v \in Outcomes(o)' : Persisted(s, o, v)
  <2>1. CASE receipts[o] # None
    <3>1. Replay(s, o, e)
      BY <1>0, <2>1 DEF Commit
    <3> HIDE DEF e
    <3> QED
      BY <1>1, <2>1, <3>1, ChainedReplay
  <2>2. CASE receipts[o] = None
    <3>1. FirstWrite(s, o, e)
      BY <1>0, <2>2 DEF Commit
    <3>2. Persisted(s, o, receipts'[o])
      BY <3>1 DEF FirstWrite
    <3> HIDE DEF e
    <3>3. /\ Grows /\ \A p \in Obs : p # o => receipts'[p] = receipts[p]
          /\ receipts'[o] \in Outcomes(o)' /\ ChainAt(o)'
      BY <1>1, <1>2, <2>2, <3>1, ChainedWrite
    <3> QED
      BY <3>2, <3>3
  <2> QED
    BY <2>1, <2>2
<1>4. PICK v \in Outcomes(o)' : Persisted(s, o, v)
  BY <1>3
<1> DEFINE f == [e EXCEPT !.event = v, !.committed = TRUE]
<1>5. /\ f.event = v /\ f.pred = e.pred /\ f.key = e.key /\ f.committed
      /\ queue' = [queue EXCEPT ![s][o] = f] /\ task' = [task EXCEPT ![s] = x]
      /\ x.pc = "delete" /\ x.id = o
  BY <1>0, <1>1, <1>4, TaskMove DEF Persisted, Entry
<1>6. v # None
  <2>1. None \notin Repeats(o)'
    BY EventNames DEF Repeats
  <2> QED
    BY <1>4, <2>1 DEF Outcomes
<1> HIDE DEF f, x
<1>7. queue'[s][o] = f /\ task'[s] = x
  BY <1>1, <1>5 DEF TypeInv, TypeOK
<1>8. receipts'[o] # None
  <2>1. Ledger' => receipts'[o] # None
    <3>1. task'[s].id = o /\ task'[s].pc = "delete"
      BY <1>5, <1>7
    <3> QED
      BY <3>1 DEF Ledger, HoldersBacked
  <2>2. Ledger'
    BY LedgerCommit
  <2> QED
    BY <2>1, <2>2
<1>9. EntryLinked(s, o)'
  <2> HIDE DEF e
  <2> QED
    BY <1>1, <1>2, <1>4, <1>5, <1>6, <1>7, <1>8 DEF EntryLinked, Linked, e
<1>10. HolderLinked(s)'
  BY <1>5, <1>7 DEF HolderLinked, AtCommit
<1>11. queue[s][o] # NoEntry /\ \A p \in Obs : RowStays(p)
  BY <1>1 DEF RowStays
<1> HIDE DEF e
<1> QED
  BY <1>1, <1>3, <1>5, <1>9, <1>10, <1>11, ChainedHolder

LEMMA ChainedDone ==
    ASSUME TypeInv, Chained, NEW s \in Slots, Delete(s) \/ Acknowledge(s)
    PROVE  Chained'
<1> USE DEF durable, bounds, history
<1> DEFINE o == task[s].id
           e == queue[s][o]
<1>1. /\ o \in Obs /\ e \in Entry /\ queue[s][o] # NoEntry /\ task[s] \in Task
      /\ task[s].pc \in {"delete", "discard"}
      /\ UNCHANGED <<receipts, copied, slot, lineage, emitted, expired, nextObs>>
      /\ EntryLinked(s, o) /\ HolderLinked(s) /\ e.committed
  BY AtTask DEF Delete, Acknowledge, TypeInv, TaskHeld, Held, Chained, HolderLinked
<1>2. CASE Delete(s)
  <2> DEFINE x == [task[s] EXCEPT !.pc = "discard"]
  <2>1. x.pc = "discard" /\ x.id = o
    BY <1>1, TaskMove
  <2>2. /\ queue' = [queue EXCEPT ![s][o] = e] /\ task' = [task EXCEPT ![s] = x]
        /\ UNCHANGED <<queue, known>> /\ outbox' = [outbox EXCEPT ![o] = NoRow]
    BY <1>1, <1>2, SameQueue DEF Delete
  <2> HIDE DEF x
  <2>3. HolderLinked(s)'
    <3>1. task'[s] = x
      BY <2>2 DEF TypeInv, TypeOK
    <3> QED
      BY <1>1, <2>1, <2>2, <3>1 DEF HolderLinked, AtCommit
  <2>4. EntryStays(s, o) /\ \A p \in Obs : RowStays(p)
    BY <2>2 DEF EntryStays, RowStays, TypeInv, TypeOK
  <2> HIDE DEF o, e
  <2> QED
    BY <1>1, <2>2, <2>3, <2>4, ChainedHolder DEF Grows
<1>3. CASE Acknowledge(s)
  <2> DEFINE k == [key |-> e.key, obs |-> e.obs, event |-> e.event]
  <2>1. /\ queue' = [queue EXCEPT ![s][o] = NoEntry] /\ task' = [task EXCEPT ![s] = Idle]
        /\ UNCHANGED outbox /\ known' = [known EXCEPT ![s] = @ \cup {k}]
    BY <1>3 DEF Acknowledge
  <2>2. k.key \in emitted[o] /\ k.event \in Outcomes(o)
    BY <1>1 DEF EntryLinked, Linked
  <2> HIDE DEF k, o, e
  <2>3. \A q \in Obs : Outcomes(q)' = Outcomes(q) /\ emitted'[q] = emitted[q]
    BY <1>1 DEF Outcomes, Repeats
  <2>4. \A t \in Slots : known'[t] \subseteq known[t] \/ CacheSettled(t)'
    <3>1. \A t \in Slots : t # s => known'[t] = known[t]
      BY <2>1 DEF TypeInv, TypeOK
    <3>2. known'[s] = known[s] \cup {k}
      BY <2>1 DEF TypeInv, TypeOK
    <3>3. \A j \in known'[s] : \E q \in Obs : j.key \in emitted[q] /\ j.event \in Outcomes(q)
      BY <1>1, <2>2, <3>2 DEF CacheSettled, Chained
    <3> QED
      BY <2>3, <3>1, <3>3 DEF CacheSettled
  <2>5. HolderLinked(s)'
    BY <2>1 DEF HolderLinked, AtCommit, Idle, TypeInv, TypeOK
  <2>6. EntryStays(s, o)
    BY <1>1, <2>1 DEF EntryStays, TypeInv, TypeOK
  <2> QED
    BY <1>1, <2>1, <2>4, <2>5, <2>6, ChainedHolder DEF Grows, RowStays
<1> QED
  BY <1>2, <1>3

-----------------------------------------------------------------------------
(* The steps of the pump, of the camera, of the stores and of the process.  *)

\* What a row becomes in memory is linked as the row is.
LEMMA RowBecomesEntry ==
    ASSUME TypeInv, Chained, NEW o \in Obs, Pending(o), NEW late \in BOOLEAN
    PROVE  /\ o < nextObs
           /\ FromRow(o, late).pred = outbox[o].pred
           /\ FromRow(o, late).event = outbox[o].event
           /\ FromRow(o, late).key = outbox[o].key
           /\ ~FromRow(o, late).committed
           /\ Linked(outbox[o], o)
<1>1. outbox[o] # NoRow
  BY DEF Pending, NoRow
<1>2. o < nextObs
  BY <1>1 DEF Chained, Unused, Obs, TypeInv, TypeOK
<1>3. Linked(outbox[o], o)
  BY <1>1 DEF Chained, RowLinked
<1> QED
  BY <1>2, <1>3 DEF FromRow

\* The slots change, or what is in them, but nothing durable: nobody is at work
\* in a slot that changes, and what it holds by then it held, or comes from a row.
LEMMA ChainedMemory ==
    ASSUME TypeInv, Chained, UNCHANGED <<outbox, receipts, copied, lineage, emitted, expired, nextObs>>,
           \A t \in Slots : \/ task'[t] = task[t] /\ queue'[t] = queue[t]
                            \/ task'[t].pc = "idle",
           \A t \in Slots, p \in Obs :
               \/ queue'[t][p] \in {queue[t][p], NoEntry}
                  /\ (slot'[t] = "live" => slot[t] = "live" \/ queue'[t][p] = NoEntry)
               \/ /\ Pending(p) /\ slot'[t] # "live"
                  /\ \E late \in BOOLEAN : queue'[t][p] = FromRow(p, late),
           \A t \in Slots : known'[t] \subseteq known[t],
           SlotsUsed'
    PROVE  Chained'
<1>1. Grows /\ \A p \in Obs : Settled(p) \subseteq Settled(p)'
  BY SettledGrows DEF Grows
<1>2. \A t \in Slots, p \in Obs :
        \/ EntryStays(t, p) /\ (slot'[t] = "live" => slot[t] = "live")
        \/ EntryLinked(t, p)'
  <2> TAKE t \in Slots, p \in Obs
  <2>1. CASE queue'[t][p] = NoEntry
    BY <2>1 DEF EntryLinked
  <2>2. CASE queue'[t][p] = queue[t][p] /\ (slot'[t] = "live" => slot[t] = "live")
    BY <2>2 DEF EntryStays
  <2>3. ASSUME Pending(p), slot'[t] # "live",
               NEW late \in BOOLEAN, queue'[t][p] = FromRow(p, late)
        PROVE  EntryLinked(t, p)'
    <3>1. /\ queue'[t][p].pred = outbox[p].pred /\ queue'[t][p].event = outbox[p].event
          /\ queue'[t][p].key = outbox[p].key
          /\ ~queue'[t][p].committed /\ Linked(outbox[p], p)
      BY <2>3, RowBecomesEntry
    <3> QED
      BY <1>1, <2>3, <3>1 DEF EntryLinked, Linked
  <2> QED
    BY <2>1, <2>2, <2>3
<1>3. \A p \in Obs : Unused(p)'
  <2> TAKE p \in Obs
  <2>1. CASE p >= nextObs
    <3>1. /\ receipts[p] = None /\ outbox[p] = NoRow
          /\ \A t \in Slots : queue[t][p] = NoEntry
      BY <2>1 DEF Chained, Unused
    <3>2. ~Pending(p)
      BY <3>1 DEF Pending, NoRow
    <3> QED
      BY <3>1, <3>2 DEF Unused
  <2>2. CASE ~(p >= nextObs)
    BY <2>2 DEF Unused
  <2> QED
    BY <2>1, <2>2
<1>4. \A t \in Slots : HolderLinked(t)'
  <2> TAKE t \in Slots
  <2>1. CASE task'[t] = task[t] /\ queue'[t] = queue[t]
    BY <2>1, HolderKept
  <2>2. CASE task'[t].pc = "idle"
    BY <2>2 DEF HolderLinked, AtCommit
  <2> QED
    BY <2>1, <2>2
<1>5. \A p \in Obs : RowStays(p)
  BY DEF RowStays
<1> QED
  BY <1>1, <1>2, <1>3, <1>4, <1>5, ChainedMove

LEMMA ChainedPump ==
    ASSUME TypeInv, Chained, NEW s \in Slots, NEW o \in Obs,
           \/ Hydrate(s, o) \/ Publish(s) \/ HydrateFails(s)
           \/ Evict(s, o) \/ Prune(s) \/ Remove(s) \/ Create(s)
    PROVE  Chained'
<1> USE DEF durable, bounds, history
<1>1. CASE Hydrate(s, o)
  <2> DEFINE late == \E p \in Held(s) : queue[s][p].key = outbox[o].key
             e == FromRow(o, late)
  <2>1. /\ Pending(o) /\ late \in BOOLEAN
        /\ queue' = [queue EXCEPT ![s][o] = e]
        /\ slot' = [slot EXCEPT ![s] = IF @ = "free" THEN "loading" ELSE @]
        /\ UNCHANGED <<outbox, receipts, copied, lineage, emitted, expired, nextObs, task, known>>
        /\ task[s].pc = "idle" /\ slot[s] \in {"loading", "detached", "free"}
    BY <1>1 DEF Hydrate, BetweenDrains, IsIdle, Loading, Detached, Free
  <2>2. \E l \in BOOLEAN : e = FromRow(o, l)
    BY <2>1
  <2> HIDE DEF late, e
  <2>3. /\ queue'[s][o] = e
        /\ \A t \in Slots, p \in Obs : t # s \/ p # o => queue'[t][p] = queue[t][p]
        /\ \A t \in Slots : t # s => queue'[t] = queue[t]
    BY <2>1 DEF TypeInv, TypeOK
  <2>4. /\ slot'[s] \notin {"live", "free"} /\ \A t \in Slots : t # s => slot'[t] = slot[t]
    BY <2>1 DEF TypeInv, TypeOK
  <2>5. SlotsUsed'
    BY <2>3, <2>4 DEF SlotsUsed, Chained, Held
  <2>6. \A t \in Slots, p \in Obs :
           \/ queue'[t][p] \in {queue[t][p], NoEntry}
              /\ (slot'[t] = "live" => slot[t] = "live" \/ queue'[t][p] = NoEntry)
           \/ /\ Pending(p) /\ slot'[t] # "live"
              /\ \E l \in BOOLEAN : queue'[t][p] = FromRow(p, l)
    <3> TAKE t \in Slots, p \in Obs
    <3>1. CASE t = s /\ p = o
      BY <2>1, <2>2, <2>3, <2>4, <3>1
    <3>2. CASE ~(t = s /\ p = o)
      BY <2>3, <2>4, <3>2
    <3> QED
      BY <3>1, <3>2
  <2>7. \A t \in Slots : \/ task'[t] = task[t] /\ queue'[t] = queue[t]
                         \/ task'[t].pc = "idle"
    BY <2>1, <2>3
  <2> QED
    BY <2>1, <2>5, <2>6, <2>7, ChainedMemory
<1>2. CASE Publish(s) \/ Prune(s) \/ Remove(s) \/ Create(s)
  <2>1. /\ UNCHANGED <<outbox, receipts, copied, lineage, emitted, expired, nextObs, task, queue>>
        /\ \A t \in Slots : known'[t] \subseteq known[t]
    BY <1>2 DEF Publish, Prune, Remove, Create, TypeInv, TypeOK
  <2>2. /\ \A t \in Slots : t # s => slot'[t] = slot[t]
        /\ slot'[s] = "live" => slot[s] = "free" /\ \A t \in Slots : slot[t] # "live"
        /\ slot'[s] = "free" => Held(s) = {}
    BY <1>2 DEF Publish, Prune, Remove, Create, TypeInv, TypeOK
  <2>3. SlotsUsed'
    BY <2>1, <2>2 DEF SlotsUsed, Chained, Held
  <2>4. slot[s] = "free" => \A p \in Obs : queue[s][p] = NoEntry
    BY DEF SlotsUsed, Chained, Held
  <2>5. \A t \in Slots, p \in Obs :
           /\ queue'[t][p] \in {queue[t][p], NoEntry}
           /\ slot'[t] = "live" => slot[t] = "live" \/ queue'[t][p] = NoEntry
    BY <2>1, <2>2, <2>4
  <2> QED
    BY <2>1, <2>3, <2>5, ChainedMemory
<1>3. CASE Evict(s, o)
  <2>1. /\ UNCHANGED <<outbox, receipts, copied, lineage, emitted, expired, nextObs, task, known, slot>>
        /\ queue' = [queue EXCEPT ![s][o] = NoEntry] /\ task[s].pc = "idle"
    BY <1>3 DEF Evict, BetweenDrains, IsIdle
  <2>2. /\ \A t \in Slots, p \in Obs : queue'[t][p] \in {queue[t][p], NoEntry}
        /\ \A t \in Slots : t # s => queue'[t] = queue[t]
    BY <2>1 DEF TypeInv, TypeOK
  <2>3. SlotsUsed'
    BY <2>1, <2>2 DEF SlotsUsed, Chained, Held
  <2> QED
    BY <2>1, <2>2, <2>3, ChainedMemory
<1>4. CASE HydrateFails(s)
  <2>1. /\ UNCHANGED <<outbox, receipts, copied, lineage, emitted, expired, nextObs, task, known>>
        /\ queue' = [queue EXCEPT ![s] = [p \in Obs |-> NoEntry]]
        /\ slot' = [slot EXCEPT ![s] = "free"] /\ task[s].pc = "idle"
    BY <1>4 DEF HydrateFails, BetweenDrains, IsIdle
  <2>2. /\ \A p \in Obs : queue'[s][p] = NoEntry
        /\ \A t \in Slots : t # s => queue'[t] = queue[t] /\ slot'[t] = slot[t]
        /\ slot'[s] = "free"
    BY <2>1 DEF TypeInv, TypeOK
  <2>3. SlotsUsed'
    BY <2>1, <2>2 DEF SlotsUsed, Chained, Held
  <2>4. \A t \in Slots, p \in Obs :
           /\ queue'[t][p] \in {queue[t][p], NoEntry}
           /\ slot'[t] = "live" => slot[t] = "live" \/ queue'[t][p] = NoEntry
    BY <2>2
  <2>5. \A t \in Slots : \/ task'[t] = task[t] /\ queue'[t] = queue[t]
                         \/ task'[t].pc = "idle"
    BY <2>1, <2>2
  <2> QED
    BY <2>1, <2>3, <2>4, <2>5, ChainedMemory
<1> QED
  BY <1>1, <1>2, <1>3, <1>4

\* A new worker starts with rows of the sidecar.
LEMMA ChainedRestart ==
    ASSUME TypeInv, Chained, Restart, UNCHANGED <<durable, nextObs, expired, history>>
    PROVE  Chained'
<1>1. PICK s \in Slots, S \in SUBSET {o \in Obs : Pending(o)} :
         /\ slot' = [t \in Slots |-> IF t = s /\ S # {} THEN "detached" ELSE "free"]
         /\ queue' = [t \in Slots |-> [o \in Obs |->
               IF t = s /\ o \in S
               THEN FromRow(o, \E p \in S : p < o /\ outbox[p].key = outbox[o].key)
               ELSE NoEntry]]
  BY DEF Restart
<1>2. /\ task' = [t \in Slots |-> Idle] /\ known' = [t \in Slots |-> {}]
      /\ UNCHANGED <<outbox, receipts, copied, lineage, emitted, expired, nextObs>>
  BY DEF Restart, durable, history
<1>3. \A t \in Slots, p \in Obs :
        \/ queue'[t][p] = NoEntry
        \/ /\ Pending(p) /\ t = s /\ S # {}
           /\ \E late \in BOOLEAN : queue'[t][p] = FromRow(p, late)
  <2> TAKE t \in Slots, p \in Obs
  <2> DEFINE late == \E q \in S : q < p /\ outbox[q].key = outbox[p].key
  <2>1. CASE t = s /\ p \in S
    <3>1. queue'[t][p] = FromRow(p, late) /\ late \in BOOLEAN /\ Pending(p) /\ S # {}
      BY <1>1, <2>1
    <3> QED
      BY <2>1, <3>1
  <2>2. CASE ~(t = s /\ p \in S)
    BY <1>1, <2>2
  <2> QED
    BY <2>1, <2>2
<1>4. /\ \A t \in Slots : slot'[t] # "live"
      /\ \A t \in Slots : slot'[t] = "free" => ~(t = s /\ S # {})
  BY <1>1
<1>5. SlotsUsed'
  BY <1>3, <1>4 DEF SlotsUsed, Held
<1>6. \A t \in Slots, p \in Obs :
        \/ queue'[t][p] \in {queue[t][p], NoEntry}
           /\ (slot'[t] = "live" => slot[t] = "live" \/ queue'[t][p] = NoEntry)
        \/ /\ Pending(p) /\ slot'[t] # "live"
           /\ \E late \in BOOLEAN : queue'[t][p] = FromRow(p, late)
  BY <1>3, <1>4
<1>7. \A t \in Slots : task'[t].pc = "idle" /\ known'[t] \subseteq known[t]
  BY <1>2 DEF Idle
<1> QED
  BY <1>2, <1>5, <1>6, <1>7, ChainedMemory

LEMMA ChainedStores ==
    ASSUME TypeInv, Chained,
           \/ \E o \in Obs : Quarantine(o)
           \/ \E v \in EventIds : Expire(v) \/ \E p \in Plates : Correct(v, p)
           \/ UNCHANGED vars
    PROVE  Chained'
<1>1. /\ UNCHANGED <<receipts, copied, lineage, emitted, nextObs, slot, queue, task, known>>
      /\ expired > 0 => expired' > 0
  <2>1. UNCHANGED <<receipts, copied, lineage, emitted, nextObs, slot, queue, task, known>>
    BY DEF Quarantine, Expire, Correct, memory, history, vars, durable
  <2>2. expired' = expired \/ expired' = expired + 1
    BY DEF Quarantine, Expire, Correct, bounds, vars
  <2> QED
    BY <2>1, <2>2 DEF TypeInv, TypeOK
<1>2. \A p \in Obs : RowStays(p)
  <2>1. CASE UNCHANGED outbox
    BY <2>1 DEF RowStays
  <2>2. ASSUME NEW o \in Obs, Quarantine(o)
        PROVE  \A p \in Obs : RowStays(p)
    <3> DEFINE r == [outbox[o] EXCEPT !.status = "quarantined"]
    <3>1. outbox' = [outbox EXCEPT ![o] = r]
      BY <2>2 DEF Quarantine
    <3>2. /\ outbox[o] # NoRow /\ r.pred = outbox[o].pred /\ r.event = outbox[o].event
          /\ r.key = outbox[o].key
      BY <2>2 DEF Quarantine, Pending, TypeInv, TypeOK, Row, NoRow
    <3> HIDE DEF r
    <3> QED
      BY <3>1, <3>2 DEF RowStays, TypeInv, TypeOK
  <2>3. UNCHANGED outbox \/ \E o \in Obs : Quarantine(o)
    BY DEF Expire, Correct, vars, durable
  <2> QED
    BY <2>1, <2>2, <2>3
<1>3. \A t \in Slots, p \in Obs : EntryStays(t, p)
  BY <1>1 DEF EntryStays
<1>4. \A p \in Obs : Unused(p)'
  <2> TAKE p \in Obs
  <2>1. p >= nextObs => outbox'[p] = NoRow
    BY <1>2 DEF Chained, Unused, RowStays
  <2> QED
    BY <1>1, <2>1 DEF Chained, Unused
<1>5. SlotsUsed' /\ \A t \in Slots : HolderLinked(t)'
  BY <1>1, HolderKept DEF Chained, SlotsUsed, Held
<1> QED
  BY <1>1, <1>2, <1>3, <1>4, <1>5, ChainedMove DEF Grows

\* What Enqueue leaves: a new copy f of entry o, about to be spooled, where o is
\* either fresh or a copy f refreshes; the other copies stay.
LEMMA EnqueueKinds ==
    ASSUME TypeInv, Chained, NEW s \in Slots, NEW k \in Keys, Enqueue(s, k)
    PROVE  \E o \in Obs, f \in Entry :
              /\ queue'[s][o] = f /\ ~f.committed
              /\ task' = [task EXCEPT ![s] = [pc |-> "upsert", id |-> o, next |-> "idle"]]
              /\ lineage' = [lineage EXCEPT ![o] = IF f.event = None THEN f.pred ELSE None]
              /\ f.key = k /\ emitted' = [emitted EXCEPT ![o] = @ \cup {k}]
              /\ \/ o = nextObs
                 \/ /\ o \in Held(s)
                    /\ f.event = None => queue[s][o].event = None
                                         /\ f.pred = queue[s][o].pred
              /\ \A p \in Obs : p # o => EntryStays(s, p) /\ (queue'[s][p] = NoEntry <=>
                                                               queue[s][p] = NoEntry)
              /\ \A t \in Slots : t # s => queue'[t] = queue[t]
<1>1. nextObs \in Obs /\ task[s].pc = "idle" /\ slot[s] = "live"
  BY DEF Enqueue, IsIdle, TypeInv, TypeOK, Obs
<1>2. PICK bound \in Hints(s, NewEntry(k, None, None, FALSE)) \cup {None} :
        EnqueueWrite(s, k, bound)
  BY EnqueueBranches
<1>3. \A o \in Previous(s, k) :
        /\ o \in Obs /\ o \in Held(s) /\ queue[s][o] \in Entry
  BY DEF Previous, Held, TypeInv, TypeOK
<1>4. bound \in EventRefs
  BY <1>2, HintTyping DEF EventRefs
<1>5. ASSUME NEW o \in Obs, NEW f \in Entry,
             task' = [task EXCEPT ![s] = [pc |-> "upsert", id |-> o, next |-> "idle"]],
             queue'[s][o] = f
      PROVE  /\ lineage' = [lineage EXCEPT ![o] = IF f.event = None THEN f.pred ELSE None]
             /\ emitted' = [emitted EXCEPT ![o] = @ \cup {k}]
  <2>1. task'[s].id = o
    BY <1>5 DEF TypeInv, TypeOK
  <2>2. LET q == task'[s].id
            e == queue'[s][q]
        IN  /\ lineage' = [lineage EXCEPT ![q] = IF e.event = None THEN e.pred ELSE None]
            /\ emitted' = [emitted EXCEPT ![q] = @ \cup {k}]
    BY Zenon DEF Enqueue
  <2> QED
    BY <1>5, <2>1, <2>2
<1> DEFINE Left(o, f) ==
              /\ queue'[s][o] = f /\ ~f.committed
              /\ task' = [task EXCEPT ![s] = [pc |-> "upsert", id |-> o, next |-> "idle"]]
              /\ lineage' = [lineage EXCEPT ![o] = IF f.event = None THEN f.pred ELSE None]
              /\ f.key = k /\ emitted' = [emitted EXCEPT ![o] = @ \cup {k}]
              /\ \/ o = nextObs
                 \/ /\ o \in Held(s)
                    /\ f.event = None => queue[s][o].event = None
                                         /\ f.pred = queue[s][o].pred
              /\ \A p \in Obs : p # o => EntryStays(s, p) /\ (queue'[s][p] = NoEntry <=>
                                                               queue[s][p] = NoEntry)
              /\ \A t \in Slots : t # s => queue'[t] = queue[t]
<1>6. ASSUME NEW o \in Obs, NEW f \in Entry, ~f.committed, f.key = k,
             queue' = [queue EXCEPT ![s][o] = f], StartSpool(s, o, "idle"),
             \/ o = nextObs
             \/ /\ o \in Held(s)
                /\ f.event = None => queue[s][o].event = None /\ f.pred = queue[s][o].pred
      PROVE  Left(o, f)
  <2>1. queue'[s][o] = f
    BY <1>6 DEF TypeInv, TypeOK
  <2>2. /\ \A p \in Obs : p # o => queue'[s][p] = queue[s][p]
        /\ \A t \in Slots : t # s => queue'[t] = queue[t]
    BY <1>6 DEF TypeInv, TypeOK
  <2>3. task' = [task EXCEPT ![s] = [pc |-> "upsert", id |-> o, next |-> "idle"]]
    BY <1>6 DEF StartSpool
  <2>4. /\ lineage' = [lineage EXCEPT ![o] = IF f.event = None THEN f.pred ELSE None]
        /\ emitted' = [emitted EXCEPT ![o] = @ \cup {k}]
    BY <1>5, <2>1, <2>3
  <2> QED
    BY <1>6, <2>1, <2>2, <2>3, <2>4 DEF EntryStays
<1>7. CASE \E pred \in Predecessors(s, NewEntry(k, None, bound, FALSE)) :
             /\ queue' = [queue EXCEPT ![s][nextObs] = NewEntry(k, pred, bound, FALSE)]
             /\ StartSpool(s, nextObs, "idle")
  <2>1. PICK pred \in Predecessors(s, NewEntry(k, None, bound, FALSE)) :
             /\ queue' = [queue EXCEPT ![s][nextObs] = NewEntry(k, pred, bound, FALSE)]
             /\ StartSpool(s, nextObs, "idle")
    BY <1>7
  <2>2. PICK o \in Obs : o = nextObs
    BY <1>1
  <2> DEFINE f == NewEntry(k, pred, bound, FALSE)
  <2>3. f \in Entry /\ ~f.committed /\ f.key = k
    <3>1. pred \in Ids
      BY <2>1, HintTyping
    <3> QED
      BY <1>1, <1>4, <3>1, NewEntryTyping DEF NewEntry
  <2>4. queue' = [queue EXCEPT ![s][o] = f] /\ StartSpool(s, o, "idle")
    BY <2>1, <2>2
  <2> HIDE DEF f, Left
  <2>5. Left(o, f)
    BY <1>6, <2>2, <2>3, <2>4
  <2> QED
    BY <2>3, <2>5 DEF Left
<1>8. CASE \E o \in Previous(s, k) :
             /\ queue' = [queue EXCEPT ![s][o] =
                   NewEntry(k, queue[s][o].pred,
                            IF queue[s][o].event # None THEN queue[s][o].event ELSE bound,
                            queue[s][o].tried)]
             /\ StartSpool(s, o, "idle")
  <2>1. PICK o \in Previous(s, k) :
             /\ queue' = [queue EXCEPT ![s][o] =
                   NewEntry(k, queue[s][o].pred,
                            IF queue[s][o].event # None THEN queue[s][o].event ELSE bound,
                            queue[s][o].tried)]
             /\ StartSpool(s, o, "idle")
    BY <1>8
  <2> DEFINE ev == IF queue[s][o].event # None THEN queue[s][o].event ELSE bound
             f == NewEntry(k, queue[s][o].pred, ev, queue[s][o].tried)
  <2>2. o \in Obs /\ o \in Held(s) /\ queue[s][o] \in Entry
    BY <1>3
  <2>3. f \in Entry /\ ~f.committed /\ f.key = k /\ f.event = ev /\ f.pred = queue[s][o].pred
    <3>1. queue[s][o].pred \in Ids /\ ev \in EventRefs /\ queue[s][o].tried \in BOOLEAN
      BY <1>4, <2>2, EntryFields
    <3> QED
      BY <1>1, <3>1, NewEntryTyping DEF NewEntry
  <2>4. f.event = None => queue[s][o].event = None /\ f.pred = queue[s][o].pred
    BY <2>3
  <2> HIDE DEF f, Left
  <2>5. Left(o, f)
    BY <1>6, <2>1, <2>2, <2>3, <2>4 DEF f
  <2> QED
    BY <2>2, <2>3, <2>5 DEF Left
<1>9. CASE \E o \in Previous(s, k) :
             /\ queue' = [queue EXCEPT
                   ![s][o].rekeyed = TRUE,
                   ![s][nextObs] = NewEntry(k, o, queue[s][o].event, FALSE)]
             /\ StartSpool(s, nextObs, "idle")
  <2>1. PICK q \in Previous(s, k) :
             /\ queue' = [queue EXCEPT
                   ![s][q].rekeyed = TRUE,
                   ![s][nextObs] = NewEntry(k, q, queue[s][q].event, FALSE)]
             /\ StartSpool(s, nextObs, "idle")
    BY <1>9
  <2>2. PICK o \in Obs : o = nextObs
    BY <1>1
  <2> DEFINE g == [queue[s][q] EXCEPT !.rekeyed = TRUE]
             f == NewEntry(k, q, queue[s][q].event, FALSE)
  <2>3. /\ q \in Obs /\ queue[s][q] \in Entry /\ queue[s][q] # NoEntry
        /\ g \in Entry /\ g # NoEntry /\ g.pred = queue[s][q].pred
        /\ g.key = queue[s][q].key
        /\ g.event = queue[s][q].event /\ g.committed = queue[s][q].committed
    BY <1>3, SameCopy DEF Held
  <2>4. f \in Entry /\ ~f.committed /\ f.key = k
    <3>1. q \in Ids /\ queue[s][q].event \in EventRefs
      BY <2>3, EntryFields DEF Ids
    <3> QED
      BY <1>1, <3>1, NewEntryTyping DEF NewEntry
  <2>5. /\ queue' = [[queue EXCEPT ![s][q] = g] EXCEPT ![s][o] = f]
        /\ task' = [task EXCEPT ![s] = [pc |-> "upsert", id |-> o, next |-> "idle"]]
    BY <2>1, <2>2 DEF StartSpool
  <2> HIDE DEF f, g
  <2>6. /\ queue'[s][o] = f
        /\ \A p \in Obs : p # o => queue'[s][p] = IF p = q THEN g ELSE queue[s][p]
        /\ \A t \in Slots : t # s => queue'[t] = queue[t]
    BY <2>3, <2>5 DEF TypeInv, TypeOK
  <2>7. /\ lineage' = [lineage EXCEPT ![o] = IF f.event = None THEN f.pred ELSE None]
        /\ emitted' = [emitted EXCEPT ![o] = @ \cup {k}]
    BY <1>5, <2>4, <2>5, <2>6
  <2>8. \A p \in Obs : p # o => /\ EntryStays(s, p)
                                /\ queue'[s][p] = NoEntry <=> queue[s][p] = NoEntry
    BY <2>3, <2>6 DEF EntryStays
  <2>9. Left(o, f)
    BY <2>2, <2>4, <2>5, <2>6, <2>7, <2>8
  <2> HIDE DEF Left
  <2> QED
    BY <2>4, <2>9 DEF Left
<1> QED
  BY <1>2, <1>7, <1>8, <1>9 DEF EnqueueWrite

LEMMA ChainedEnqueue ==
    ASSUME TypeInv, Chained, NEW s \in Slots, NEW k \in Keys, Enqueue(s, k)
    PROVE  Chained'
<1>1. /\ nextObs \in Obs /\ nextObs' = nextObs + 1 /\ slot[s] = "live"
      /\ UNCHANGED <<outbox, receipts, copied, slot, known, expired>>
  BY DEF Enqueue, TypeInv, TypeOK, Obs, durable, bounds
<1>2. PICK o \in Obs, f \in Entry :
         /\ queue'[s][o] = f /\ ~f.committed
         /\ task' = [task EXCEPT ![s] = [pc |-> "upsert", id |-> o, next |-> "idle"]]
         /\ lineage' = [lineage EXCEPT ![o] = IF f.event = None THEN f.pred ELSE None]
         /\ f.key = k /\ emitted' = [emitted EXCEPT ![o] = @ \cup {k}]
         /\ \/ o = nextObs
            \/ /\ o \in Held(s)
               /\ f.event = None => queue[s][o].event = None /\ f.pred = queue[s][o].pred
         /\ \A p \in Obs : p # o => EntryStays(s, p) /\ (queue'[s][p] = NoEntry <=>
                                                          queue[s][p] = NoEntry)
         /\ \A t \in Slots : t # s => queue'[t] = queue[t]
  BY EnqueueKinds
<1>3. /\ Grows /\ k \in emitted'[o]
      /\ \A p \in Obs : Outcomes(p)' = Outcomes(p) /\ emitted[p] \subseteq emitted'[p]
  BY <1>1, <1>2 DEF Grows, Outcomes, Repeats, TypeInv, TypeOK
<1>4. /\ lineage'[o] = IF f.event = None THEN f.pred ELSE None
      /\ \A p \in Obs : p # o => lineage'[p] = lineage[p]
      /\ task'[s] = [pc |-> "upsert", id |-> o, next |-> "idle"]
      /\ \A t \in Slots : t # s => task'[t] = task[t]
  BY <1>2 DEF TypeInv, TypeOK
<1>5. \/ /\ receipts[o] = None /\ outbox[o] = NoRow
         /\ \A t \in Slots : queue[t][o] = NoEntry
         /\ o = nextObs
      \/ lineage'[o] \in {lineage[o], None}
  <2>1. CASE o = nextObs
    <3>1. Unused(o) /\ o >= nextObs
      BY <2>1 DEF Chained, Obs
    <3> QED
      BY <2>1, <3>1 DEF Unused
  <2>2. CASE /\ o \in Held(s)
             /\ f.event = None => queue[s][o].event = None /\ f.pred = queue[s][o].pred
    <3>1. queue[s][o] # NoEntry /\ EntryLinked(s, o)
      BY <2>2 DEF Held, Chained
    <3> QED
      BY <1>1, <1>4, <2>2, <3>1 DEF EntryLinked
  <2> QED
    BY <1>2, <2>1, <2>2
<1>6. \A t \in Slots : t # s => slot'[t] # "live"
  BY <1>1 DEF Chained, SlotsUsed
<1>7. \A t \in Slots, p \in Obs : EntryLinked(t, p)'
  <2> TAKE t \in Slots, p \in Obs
  <2>1. CASE p # o
    <3>1. EntryStays(t, p)
      BY <1>2, <2>1 DEF EntryStays
    <3> QED
      BY <1>1, <1>3, <1>4, <2>1, <3>1, EntryKept
  <2>2. CASE p = o /\ t = s
    BY <1>1, <1>2, <1>3, <1>4, <2>2 DEF EntryLinked, Linked
  <2>3. CASE p = o /\ t # s /\ lineage'[o] = lineage[o]
    <3>1. EntryStays(t, p)
      BY <1>2, <2>3 DEF EntryStays
    <3> QED
      BY <1>1, <1>3, <2>3, <3>1, EntryKept
  <2>4. CASE p = o /\ t # s /\ lineage'[o] # lineage[o]
    <3>1. queue'[t][p] = queue[t][p] /\ slot'[t] # "live" /\ EntryLinked(t, p)
      BY <1>2, <1>6, <2>4 DEF Chained
    <3>2. queue[t][p] = NoEntry \/ lineage'[p] = None
      BY <1>5, <2>4
    <3> QED
      BY <1>3, <3>1, <3>2 DEF EntryLinked, Linked
  <2> QED
    BY <2>1, <2>2, <2>3, <2>4
<1>8. \A p \in Obs : RowLinked(p)' /\ ChainAt(p)'
  <2> TAKE p \in Obs
  <2>1. CASE lineage'[p] = lineage[p]
    BY <1>1, <1>3, <2>1, RowKept, ChainStays DEF RowStays
  <2>2. CASE lineage'[p] # lineage[p]
    <3>1. lineage'[p] = None \/ (receipts[p] = None /\ outbox[p] = NoRow)
      BY <1>4, <1>5, <2>2
    <3>2. outbox[p] # NoRow => outbox[p].key \in emitted[p]
      BY DEF Chained, RowLinked, Linked
    <3> QED
      BY <1>1, <1>3, <3>1, <3>2 DEF RowLinked, Linked, ChainAt
  <2> QED
    BY <2>1, <2>2
<1>9. \A p \in Obs : Unused(p)'
  <2> TAKE p \in Obs
  <2>1. CASE p >= nextObs + 1
    <3>1. p >= nextObs /\ p # nextObs
      BY <1>1, <2>1 DEF Obs
    <3>2. /\ receipts[p] = None /\ outbox[p] = NoRow
          /\ \A t \in Slots : queue[t][p] = NoEntry
      BY <3>1 DEF Chained, Unused
    <3>3. p # o
      BY <1>2, <3>1, <3>2 DEF Held
    <3>4. \A t \in Slots : queue'[t][p] = NoEntry
      BY <1>2, <3>2, <3>3
    <3> QED
      BY <1>1, <3>2, <3>4 DEF Unused
  <2>2. CASE ~(p >= nextObs + 1)
    BY <1>1, <2>2 DEF Unused
  <2> QED
    BY <2>1, <2>2
<1>10. \A t \in Slots : CacheSettled(t)'
  BY <1>1, <1>3, CacheStays
<1>11. \A t \in Slots : HolderLinked(t)'
  <2> TAKE t \in Slots
  <2>1. CASE t = s
    BY <1>4, <2>1 DEF HolderLinked, AtCommit
  <2>2. CASE t # s
    BY <1>2, <1>4, <2>2, HolderKept
  <2> QED
    BY <2>1, <2>2
<1>12. SlotsUsed'
  BY <1>1, <1>2 DEF Chained, SlotsUsed, Held
<1> QED
  BY <1>7, <1>8, <1>9, <1>10, <1>11, <1>12 DEF Chained

LEMMA ChainedStep ==
    TypeInv /\ TypeInv' /\ Ledger /\ OutcomesStored /\ Chained /\ [Next]_vars => Chained'
<1> SUFFICES ASSUME TypeInv, TypeInv', Ledger, OutcomesStored, Chained, [Next]_vars
             PROVE  Chained'
  OBVIOUS
<1>1. ASSUME NEW s \in Slots, Holder(s)
      PROVE  Chained'
  BY <1>1, ChainedUpsert, ChainedFails, ChainedRegister, ChainedResolve, ChainedCommit,
     ChainedDone, ChainedDrain, BoundsAssumption DEF Holder, Obs
<1>2. ASSUME NEW s \in Slots, Pump(s)
      PROVE  Chained'
  BY <1>2, ChainedPump, BoundsAssumption DEF Pump, Obs
<1>3. ASSUME NEW s \in Slots, Camera(s)
      PROVE  Chained'
  BY <1>3, ChainedEnqueue, ChainedPump, BoundsAssumption DEF Camera, Obs
<1>4. CASE Store \/ UNCHANGED vars
  BY <1>4, ChainedStores DEF Store
<1>5. CASE Stop \/ Crash
  BY <1>5, ChainedRestart DEF Stop, Crash, bounds
<1> QED
  BY <1>1, <1>2, <1>3, <1>4, <1>5 DEF Next

LEMMA ChainedKeepsChains == Chained => ChainKept
BY DEF Chained, ChainAt, ChainKept

\* Across failures, retries, hydration, eviction and crashes, the receipt of a
\* correction follows that of the entry it waited for, or of another entry of the
\* visit that was settled first, and names an event of that entry; an event of its
\* own it becomes only if it has another plate, or after retention.
THEOREM CorrectionsStayWithTheirVisit == Spec => []ChainKept
<1> DEFINE IInv == OutcomesStored /\ Chained
<1>1. Init => IInv
  BY StoredInit, ChainedInit
<1>2. (TypeInv /\ Ledger) /\ (TypeInv /\ Ledger)' /\ IInv /\ [Next]_vars => IInv'
  BY StoredStep, ChainedStep
<1>3. IInv => ChainKept
  BY ChainedKeepsChains
<1> HIDE DEF IInv
<1> QED
  BY <1>1, <1>2, <1>3, Invariant, PTL DEF Spec
=============================================================================
