-------------------------- MODULE ThreadPoolProofs --------------------------
(***************************************************************************)
(* Proofs about ThreadPool, for any workers, tasks and control scripts.    *)
(*                                                                         *)
(* OnePlace needs that only a running worker holds a task and that a task  *)
(* is nowhere before it is pushed. NoLostWakeup needs two facts about the  *)
(* flags, which change outside the mutex: a worker between its check and   *)
(* its wait that could run after all has a notify_all coming, which waits  *)
(* for the mutex that worker holds (Backed); and a worker that sleeps in a *)
(* terminated pool still has terminate's notify_all coming (Summoned).     *)
(***************************************************************************)
EXTENDS ThreadPool, SequenceTheorems, TLAPS

WorkerPcs == {"none", "lock", "check", "wait", "asleep", "decide", "run", "dead"}
WorkerRecords == [pc : WorkerPcs, task : SUBSET Tasks]
ControlPcs == {"call", "start", "notifyUnpaused", "notifyTerminated", "join"}
ControlRecords == [calls : Seq(Calls), pc : ControlPcs]

MutexHeld ==
  /\ \A w \in Workers : worker[w].pc \in {"check", "wait", "decide"} <=> holder = w
  /\ asleep = {w \in Workers : worker[w].pc = "asleep"}

OnlyRunnersHold == \A w \in Workers : worker[w].pc # "run" => worker[w].task = {}

Tracked ==
  /\ \A t \in Tasks : producer[t] \in {"start", "push"} =>
        t \notin queue /\ \A w \in Workers : t \notin worker[w].task
  /\ \A t \in Tasks : producer[t] = "push" => future[t] = "pending"

CallsLeft == \A c \in Controls : control[c].pc # "call" => control[c].calls # <<>>

(* initialize: one at a time, with no worker left from before.              *)
Started ==
  /\ \A c \in Controls : control[c].pc = "start" => ~initialized
  /\ \A c, d \in Controls : control[c].pc = "start" /\ control[d].pc = "start" => c = d
  /\ ~initialized => ~paused
  /\ (~initialized /\ \A c \in Controls : control[c].pc # "start")
        => \A w \in Workers : worker[w].pc = "none"

Notifying == {"notifyUnpaused", "notifyTerminated"}

Backed ==
  (Predicate /\ \E w \in Workers : worker[w].pc = "wait") => \E c \in Controls : control[c].pc \in Notifying

Summoned ==
  (terminated /\ \E w \in Workers : worker[w].pc \in {"wait", "asleep"})
     => \E c \in Controls : control[c].pc = "notifyTerminated"

PlaceInv == TypeOK /\ OnePlace /\ OnlyRunnersHold /\ Tracked /\ CallsLeft /\ Started
WakeInv == Backed /\ Summoned /\ NoLostWakeup

-----------------------------------------------------------------------------
(* TypeOK and OnePlace, in the form the proofs use.                         *)

Types ==
  /\ initialized \in BOOLEAN /\ terminated \in BOOLEAN /\ paused \in BOOLEAN
  /\ queue \subseteq Tasks
  /\ holder \in Workers \cup {NoWorker}
  /\ asleep \subseteq Workers
  /\ worker \in [Workers -> WorkerRecords]
  /\ producer \in [Tasks -> {"start", "push", "notify", "returned"}]
  /\ future \in [Tasks -> {"none", "pending", "done", "failed"}]
  /\ control \in [Controls -> ControlRecords]

Places ==
  /\ \A t \in queue : future[t] = "pending"
  /\ \A w \in Workers : \A t \in worker[w].task : future[t] = "pending" /\ t \notin queue
  /\ \A v, w \in Workers : v # w => worker[v].task \cap worker[w].task = {}

LEMMA TypeForms == TypeOK <=> Types /\ MutexHeld
BY DEF TypeOK, Types, MutexHeld, WorkerRecords, WorkerPcs, ControlRecords, ControlPcs

LEMMA PlaceForms == OnePlace <=> Places
<1>1. \A t : t \in Held <=> \E w \in Workers : t \in worker[w].task
  BY DEF Held
<1>2. OnePlace => Places
  BY <1>1 DEF OnePlace, Places
<1>3. Places => OnePlace
  BY <1>1 DEF OnePlace, Places
<1>4. QED
  BY <1>2, <1>3

LEMMA TypeFormsPrime == TypeOK' <=> Types' /\ MutexHeld'
BY DEF TypeOK, Types, MutexHeld, WorkerRecords, WorkerPcs, ControlRecords, ControlPcs

LEMMA PlaceFormsPrime == OnePlace' <=> Places'
<1>1. \A t : t \in Held' <=> \E w \in Workers : t \in worker'[w].task
  BY DEF Held
<1>2. OnePlace' => Places'
  BY <1>1 DEF OnePlace, Places
<1>3. Places' => OnePlace'
  BY <1>1 DEF OnePlace, Places
<1>4. QED
  BY <1>2, <1>3

-----------------------------------------------------------------------------
(* What moving a worker or a control thread does.                           *)

LEMMA GotoKeeps ==
  ASSUME worker \in [Workers -> WorkerRecords], NEW w \in Workers, NEW pc \in WorkerPcs, WorkerGoto(w, pc)
  PROVE  /\ worker' \in [Workers -> WorkerRecords]
         /\ worker'[w].pc = pc /\ worker'[w].task = worker[w].task
         /\ \A v \in Workers \ {w} : worker'[v] = worker[v]
<1>1. worker[w] \in WorkerRecords
  OBVIOUS
<1>2. [worker[w] EXCEPT !.pc = pc] \in WorkerRecords
  BY <1>1 DEF WorkerRecords
<1>3. worker' = [worker EXCEPT ![w] = [worker[w] EXCEPT !.pc = pc]]
  BY DEF WorkerGoto
<1>4. QED
  BY <1>1, <1>2, <1>3 DEF WorkerRecords

LEMMA WakeKeeps ==
  ASSUME worker \in [Workers -> WorkerRecords], NEW ws \in SUBSET Workers, WakeUp(ws)
  PROVE  /\ worker' \in [Workers -> WorkerRecords]
         /\ \A w \in Workers : worker'[w].pc = IF w \in ws THEN "lock" ELSE worker[w].pc
         /\ \A w \in Workers : worker'[w].task = worker[w].task
<1>1. \A w \in Workers : worker[w] \in WorkerRecords
  OBVIOUS
<1>2. \A w \in Workers : /\ [worker[w] EXCEPT !.pc = "lock"] \in WorkerRecords
                         /\ [worker[w] EXCEPT !.pc = "lock"].pc = "lock"
                         /\ [worker[w] EXCEPT !.pc = "lock"].task = worker[w].task
  BY <1>1 DEF WorkerRecords, WorkerPcs
<1>3. QED
  BY <1>1, <1>2 DEF WakeUp

LEMMA ControlGotoKeeps ==
  ASSUME control \in [Controls -> ControlRecords], NEW c \in Controls, NEW pc \in ControlPcs,
         ControlGoto(c, pc)
  PROVE  /\ control' \in [Controls -> ControlRecords]
         /\ control'[c].pc = pc /\ control'[c].calls = control[c].calls
         /\ \A d \in Controls \ {c} : control'[d] = control[d]
<1>1. control[c] \in ControlRecords
  OBVIOUS
<1>2. [control[c] EXCEPT !.pc = pc] \in ControlRecords
  BY <1>1 DEF ControlRecords
<1>3. control' = [control EXCEPT ![c] = [control[c] EXCEPT !.pc = pc]]
  BY DEF ControlGoto
<1>4. QED
  BY <1>1, <1>2, <1>3 DEF ControlRecords

LEMMA ReturnsKeeps ==
  ASSUME control \in [Controls -> ControlRecords], NEW c \in Controls, control[c].calls # <<>>, Returns(c)
  PROVE  /\ control' \in [Controls -> ControlRecords]
         /\ control'[c].pc = "call"
         /\ \A d \in Controls \ {c} : control'[d] = control[d]
<1>1. control[c].calls \in Seq(Calls)
  BY DEF ControlRecords
<1>2. Tail(control[c].calls) \in Seq(Calls)
  BY <1>1, HeadTailProperties
<1>3. [calls |-> Tail(control[c].calls), pc |-> "call"] \in ControlRecords
  BY <1>2 DEF ControlRecords, ControlPcs
<1>4. control' = [control EXCEPT ![c] = [calls |-> Tail(control[c].calls), pc |-> "call"]]
  BY DEF Returns
<1>5. QED
  BY <1>3, <1>4

-----------------------------------------------------------------------------
(* PlaceInv, step by step.                                                  *)

(* Steps that move workers but no tasks.                                    *)
WorkersMove ==
  /\ worker' \in [Workers -> WorkerRecords]
  /\ \A w \in Workers : worker'[w].task = worker[w].task
  /\ \A w \in Workers : worker'[w].pc = worker[w].pc \/ worker[w].pc \notin {"none", "run"}

TasksStay ==
  /\ UNCHANGED <<queue, future>>
  /\ producer' \in [Tasks -> {"start", "push", "notify", "returned"}]
  /\ \A t \in Tasks : producer'[t] = producer[t] \/ producer'[t] \in {"notify", "returned"}

LEMMA PlacesKept ==
  ASSUME PlaceInv, WorkersMove, TasksStay
  PROVE  OnePlace' /\ Tracked' /\ OnlyRunnersHold'
<1>1. Types /\ Places /\ Tracked /\ OnlyRunnersHold
  BY TypeForms, PlaceForms DEF PlaceInv
<1>2. Places'
  BY <1>1 DEF Places, WorkersMove, TasksStay
<1>3. Tracked'
  BY <1>1 DEF Tracked, WorkersMove, TasksStay
<1>4. OnlyRunnersHold'
  BY <1>1 DEF OnlyRunnersHold, WorkersMove
<1>5. QED
  BY <1>2, <1>3, <1>4, PlaceFormsPrime

LEMMA ControlsKept ==
  ASSUME PlaceInv, WorkersMove, UNCHANGED <<flags, control>>
  PROVE  CallsLeft' /\ Started'
<1>1. Started /\ CallsLeft
  BY DEF PlaceInv
<1>2. CallsLeft'
  BY <1>1 DEF CallsLeft
<1>3. \A w \in Workers : worker[w].pc = "none" => worker'[w].pc = "none"
  BY DEF WorkersMove
<1>4. Started'
  BY <1>1, <1>3 DEF Started, flags
<1>5. QED
  BY <1>2, <1>4

LEMMA MovesKeep ==
  ASSUME PlaceInv, WorkersMove, TasksStay, UNCHANGED <<flags, control>>,
         holder' \in Workers \cup {NoWorker}, asleep' \subseteq Workers, MutexHeld'
  PROVE  PlaceInv'
<1>1. Types'
  BY TypeForms DEF PlaceInv, Types, WorkersMove, TasksStay, flags
<1>2. QED
  BY <1>1, TypeFormsPrime, PlacesKept, ControlsKept DEF PlaceInv

LEMMA GotoMoves ==
  ASSUME PlaceInv, NEW w \in Workers, NEW pc \in WorkerPcs, WorkerGoto(w, pc),
         worker[w].pc \notin {"none", "run"}
  PROVE  /\ WorkersMove /\ worker'[w].pc = pc
         /\ \A v \in Workers \ {w} : worker'[v] = worker[v]
<1>1. worker \in [Workers -> WorkerRecords]
  BY TypeForms DEF PlaceInv, Types
<1>2. QED
  BY <1>1, GotoKeeps DEF WorkersMove

LEMMA SameTasks ==
  ASSUME PlaceInv, UNCHANGED <<queue, producer, future>>
  PROVE  TasksStay
BY TypeForms DEF PlaceInv, Types, TasksStay

LEMMA HolderFacts ==
  ASSUME PlaceInv
  PROVE  /\ Types /\ MutexHeld /\ NoWorker \notin Workers
         /\ holder = NoWorker => \A w \in Workers : worker[w].pc \notin {"check", "wait", "decide"}
BY TypeForms, PoolAssumption DEF PlaceInv, MutexHeld

LEMMA LockKeeps == ASSUME PlaceInv, NEW w \in Workers, Lock(w) PROVE PlaceInv'
<1>1. /\ WorkersMove /\ worker'[w].pc = "check"
      /\ \A v \in Workers \ {w} : worker'[v] = worker[v]
  BY GotoMoves DEF Lock, WorkerPcs
<1>2. MutexHeld'
  BY <1>1, HolderFacts DEF Lock, MutexHeld
<1>3. TasksStay
  BY SameTasks DEF Lock
<1>4. QED
  BY <1>1, <1>2, <1>3, MovesKeep, HolderFacts DEF Lock, Types

LEMMA CheckKeeps == ASSUME PlaceInv, NEW w \in Workers, Check(w) PROVE PlaceInv'
<1>1. /\ WorkersMove /\ worker'[w].pc \in {"decide", "wait"}
      /\ \A v \in Workers \ {w} : worker'[v] = worker[v]
  BY GotoMoves DEF Check, WorkerPcs
<1>2. MutexHeld'
  BY <1>1, HolderFacts DEF Check, MutexHeld
<1>3. TasksStay
  BY SameTasks DEF Check
<1>4. QED
  BY <1>1, <1>2, <1>3, MovesKeep, HolderFacts DEF Check, Types

LEMMA WaitKeeps == ASSUME PlaceInv, NEW w \in Workers, Wait(w) PROVE PlaceInv'
<1>1. /\ WorkersMove /\ worker'[w].pc = "asleep"
      /\ \A v \in Workers \ {w} : worker'[v] = worker[v]
  BY GotoMoves DEF Wait, WorkerPcs
<1>2. holder = w
  BY HolderFacts DEF Wait, MutexHeld
<1>3. MutexHeld'
  BY <1>1, <1>2, HolderFacts DEF Wait, MutexHeld
<1>4. TasksStay
  BY SameTasks DEF Wait
<1>5. QED
  BY <1>1, <1>3, <1>4, MovesKeep, HolderFacts DEF Wait, Types

LEMMA WakeMoves ==
  ASSUME PlaceInv, NEW ws \in SUBSET asleep, WakeUp(ws), holder' = holder
  PROVE  WorkersMove /\ MutexHeld' /\ asleep' \subseteq Workers
<1>1. Types /\ MutexHeld
  BY HolderFacts
<1>2. ws \in SUBSET Workers /\ asleep' = asleep \ ws /\ \A w \in ws : worker[w].pc = "asleep"
  BY <1>1 DEF Types, MutexHeld, WakeUp
<1>3. /\ worker' \in [Workers -> WorkerRecords]
      /\ \A w \in Workers : worker'[w].pc = IF w \in ws THEN "lock" ELSE worker[w].pc
      /\ \A w \in Workers : worker'[w].task = worker[w].task
  BY <1>1, <1>2, WakeKeeps DEF Types
<1>4. WorkersMove
  BY <1>2, <1>3 DEF WorkersMove
<1>5. MutexHeld'
  BY <1>1, <1>2, <1>3 DEF MutexHeld
<1>6. QED
  BY <1>1, <1>2, <1>4, <1>5 DEF Types

LEMMA SpuriousKeeps == ASSUME PlaceInv, NEW w \in Workers, Spurious(w) PROVE PlaceInv'
<1>1. WorkersMove /\ MutexHeld' /\ asleep' \subseteq Workers
  BY WakeMoves DEF Spurious
<1>2. TasksStay
  BY SameTasks DEF Spurious
<1>3. QED
  BY <1>1, <1>2, MovesKeep, HolderFacts DEF Spurious, Types

LEMMA DecideKeeps == ASSUME PlaceInv, NEW w \in Workers, Decide(w) PROVE PlaceInv'
<1>1. holder = w /\ Types /\ MutexHeld /\ worker[w].pc = "decide" /\ NoWorker \notin Workers
  BY HolderFacts DEF Decide, MutexHeld
<1>2. holder' = NoWorker /\ UNCHANGED <<flags, asleep, producer, future, control>>
  BY DEF Decide
<1>3. ASSUME NEW pc \in {"dead", "lock"}, WorkerGoto(w, pc), UNCHANGED queue PROVE PlaceInv'
  <2>1. /\ WorkersMove /\ worker'[w].pc = pc
        /\ \A v \in Workers \ {w} : worker'[v] = worker[v]
    BY <1>1, <1>3, GotoMoves DEF WorkerPcs
  <2>2. MutexHeld'
    BY <1>1, <1>2, <2>1 DEF MutexHeld
  <2>3. TasksStay
    BY <1>2, <1>3, SameTasks
  <2>4. QED
    BY <1>1, <1>2, <2>1, <2>2, <2>3, MovesKeep DEF Types
<1>4. ASSUME NEW t \in Top, queue' = queue \ {t},
             worker' = [worker EXCEPT ![w] = [pc |-> "run", task |-> {t}]]
      PROVE PlaceInv'
  <2>1. t \in queue /\ t \in Tasks
    BY <1>1, <1>4 DEF Top, Types
  <2>2. [pc |-> "run", task |-> {t}] \in WorkerRecords
    BY <2>1 DEF WorkerRecords, WorkerPcs
  <2>3. /\ worker' \in [Workers -> WorkerRecords]
        /\ worker'[w].pc = "run" /\ worker'[w].task = {t}
        /\ \A v \in Workers \ {w} : worker'[v] = worker[v]
    BY <1>1, <1>4, <2>2 DEF Types
  <2>4. Types'
    BY <1>1, <1>2, <1>4, <2>3 DEF Types, flags
  <2>5. MutexHeld'
    BY <1>1, <1>2, <2>3 DEF MutexHeld
  <2>6. Places /\ Tracked /\ OnlyRunnersHold /\ Started /\ CallsLeft
    BY PlaceForms DEF PlaceInv
  <2>7. Places'
    BY <1>2, <1>4, <2>1, <2>3, <2>6 DEF Places
  <2>8. Tracked'
    BY <1>2, <1>4, <2>1, <2>3, <2>6 DEF Tracked
  <2>9. OnlyRunnersHold'
    BY <2>3, <2>6 DEF OnlyRunnersHold
  <2>10. CallsLeft'
    BY <1>2, <2>6 DEF CallsLeft
  <2>11. \A v \in Workers : worker[v].pc = "none" => worker'[v].pc = "none"
    BY <1>1, <2>3
  <2>12. Started'
    BY <1>2, <2>6, <2>11 DEF Started, flags
  <2>13. QED
    BY <2>4, <2>5, <2>7, <2>8, <2>9, <2>10, <2>12, TypeFormsPrime, PlaceFormsPrime DEF PlaceInv
<1>5. QED
  BY <1>3, <1>4 DEF Decide

LEMMA RunKeeps == ASSUME PlaceInv, NEW w \in Workers, Run(w) PROVE PlaceInv'
<1>1. Types /\ MutexHeld /\ Places /\ Tracked /\ OnlyRunnersHold /\ Started /\ CallsLeft
  BY HolderFacts, PlaceForms DEF PlaceInv
<1>2. /\ worker[w].pc = "run" /\ UNCHANGED <<flags, queue, holder, asleep, producer, control>>
      /\ future' = [t \in Tasks |-> IF t \in worker[w].task THEN "done" ELSE future[t]]
  BY DEF Run
<1>3. [pc |-> "lock", task |-> {}] \in WorkerRecords
  BY DEF WorkerRecords, WorkerPcs
<1>4. /\ worker' \in [Workers -> WorkerRecords]
      /\ worker'[w].pc = "lock" /\ worker'[w].task = {}
      /\ \A v \in Workers \ {w} : worker'[v] = worker[v]
  BY <1>1, <1>3 DEF Run, Types
<1>5. Types'
  BY <1>1, <1>2, <1>4 DEF Types, flags
<1>6. MutexHeld'
  BY <1>1, <1>2, <1>4 DEF MutexHeld
<1>7. Places'
  <2>1. \A t \in queue : t \in Tasks /\ t \notin worker[w].task
    BY <1>1 DEF Types, Places
  <2>2. \A v \in Workers \ {w} : \A t \in worker[v].task : t \in Tasks /\ t \notin worker[w].task
    BY <1>1 DEF Types, Places, WorkerRecords
  <2>3. QED
    BY <1>1, <1>2, <1>4, <2>1, <2>2 DEF Places
<1>8. Tracked'
  BY <1>1, <1>2, <1>4 DEF Tracked
<1>9. OnlyRunnersHold' /\ CallsLeft'
  BY <1>1, <1>2, <1>4 DEF OnlyRunnersHold, CallsLeft
<1>10. Started'
  <2>1. \A v \in Workers : worker[v].pc = "none" => worker'[v].pc = "none"
    BY <1>2, <1>4
  <2>2. QED
    BY <1>1, <1>2, <2>1 DEF Started, flags
<1>11. QED
  BY <1>5, <1>6, <1>7, <1>8, <1>9, <1>10, TypeFormsPrime, PlaceFormsPrime DEF PlaceInv

(* The steps of add_task before its notification move one task.             *)
LEMMA ProducerKeeps ==
  ASSUME PlaceInv, Types', Places', Tracked', UNCHANGED <<flags, holder, asleep, worker, control>>
  PROVE  PlaceInv'
<1>1. MutexHeld /\ OnlyRunnersHold /\ Started /\ CallsLeft
  BY HolderFacts DEF PlaceInv
<1>2. MutexHeld' /\ OnlyRunnersHold' /\ CallsLeft'
  BY <1>1 DEF MutexHeld, OnlyRunnersHold, CallsLeft
<1>3. Started'
  BY <1>1 DEF Started, flags
<1>4. QED
  BY <1>2, <1>3, TypeFormsPrime, PlaceFormsPrime DEF PlaceInv

LEMMA AddCheckKeeps == ASSUME PlaceInv, NEW t \in Tasks, AddCheck(t) PROVE PlaceInv'
<1>1. Types /\ Places /\ Tracked
  BY HolderFacts, PlaceForms DEF PlaceInv
<1>2. /\ producer[t] = "start" /\ UNCHANGED <<flags, queue, holder, asleep, worker, control>>
      /\ \/ /\ producer' = [producer EXCEPT ![t] = "push"]
            /\ future' = [future EXCEPT ![t] = "pending"]
         \/ /\ producer' = [producer EXCEPT ![t] = "returned"]
            /\ future' = [future EXCEPT ![t] = "failed"]
  BY DEF AddCheck
<1>3. t \notin queue /\ \A w \in Workers : t \notin worker[w].task
  BY <1>1, <1>2 DEF Tracked
<1>4. Types'
  BY <1>1, <1>2 DEF Types, flags
<1>5. \A u \in Tasks \ {t} : producer'[u] = producer[u] /\ future'[u] = future[u]
  BY <1>1, <1>2 DEF Types
<1>6. \A w \in Workers : worker[w].task \subseteq Tasks
  BY <1>1 DEF Types, WorkerRecords
<1>7. Places'
  BY <1>1, <1>2, <1>3, <1>5, <1>6 DEF Places, Types
<1>8. Tracked'
  BY <1>1, <1>2, <1>3, <1>5 DEF Tracked, Types
<1>9. QED
  BY <1>2, <1>4, <1>7, <1>8, ProducerKeeps

LEMMA AddPushKeeps == ASSUME PlaceInv, NEW t \in Tasks, AddPush(t) PROVE PlaceInv'
<1>1. Types /\ Places /\ Tracked
  BY HolderFacts, PlaceForms DEF PlaceInv
<1>2. /\ producer[t] = "push" /\ UNCHANGED <<flags, holder, asleep, worker, future, control>>
      /\ queue' = queue \cup {t} /\ producer' = [producer EXCEPT ![t] = "notify"]
  BY DEF AddPush
<1>3. future[t] = "pending" /\ \A w \in Workers : t \notin worker[w].task
  BY <1>1, <1>2 DEF Tracked
<1>4. Types'
  BY <1>1, <1>2 DEF Types, flags
<1>5. producer'[t] = "notify" /\ \A u \in Tasks \ {t} : producer'[u] = producer[u]
  BY <1>1, <1>2 DEF Types
<1>6. Places'
  BY <1>1, <1>2, <1>3 DEF Places
<1>7. Tracked'
  BY <1>1, <1>2, <1>5 DEF Tracked
<1>8. QED
  BY <1>2, <1>4, <1>6, <1>7, ProducerKeeps

LEMMA NotifyMoves ==
  ASSUME PlaceInv, NotifyOne, holder' = holder
  PROVE  WorkersMove /\ MutexHeld' /\ asleep' \subseteq Workers
<1>1. CASE asleep = {}
  BY <1>1, HolderFacts DEF NotifyOne, WorkersMove, MutexHeld, Types
<1>2. CASE asleep # {}
  <2>1. PICK w \in asleep : WakeUp({w})
    BY <1>2 DEF NotifyOne
  <2>2. QED
    BY <2>1, WakeMoves
<1>3. QED
  BY <1>1, <1>2

LEMMA AddNotifyKeeps == ASSUME PlaceInv, NEW t \in Tasks, AddNotify(t) PROVE PlaceInv'
<1>1. WorkersMove /\ MutexHeld' /\ asleep' \subseteq Workers
  BY NotifyMoves DEF AddNotify
<1>2. TasksStay
  BY HolderFacts DEF AddNotify, Types, TasksStay
<1>3. QED
  BY <1>1, <1>2, MovesKeep, HolderFacts DEF AddNotify, Types

-----------------------------------------------------------------------------
(* The control calls.                                                       *)

LEMMA CallerFacts ==
  ASSUME PlaceInv, NEW c \in Controls, NEW call, Calling(c, call)
  PROVE  /\ control[c].calls # <<>> /\ control[c].pc = "call"
         /\ \A d \in Controls : control[d].pc # "start"
BY DEF Calling

(* control thread c goes to pc, or returns from its call and is at "call".  *)
LEMMA ControlMoves ==
  ASSUME PlaceInv, NEW c \in Controls, control[c].calls # <<>>, NEW pc \in ControlPcs,
         ControlGoto(c, pc) \/ (Returns(c) /\ pc = "call")
  PROVE  /\ control' \in [Controls -> ControlRecords] /\ CallsLeft'
         /\ control'[c].pc = pc /\ \A d \in Controls \ {c} : control'[d] = control[d]
<1>1. control \in [Controls -> ControlRecords] /\ CallsLeft
  BY HolderFacts DEF PlaceInv, Types
<1>2. CASE ControlGoto(c, pc)
  <2>1. /\ control' \in [Controls -> ControlRecords]
        /\ control'[c].pc = pc /\ control'[c].calls = control[c].calls
        /\ \A d \in Controls \ {c} : control'[d] = control[d]
    BY <1>1, <1>2, ControlGotoKeeps
  <2>2. CallsLeft'
    BY <1>1, <2>1 DEF CallsLeft
  <2>3. QED
    BY <2>1, <2>2
<1>3. CASE Returns(c) /\ pc = "call"
  <2>1. /\ control' \in [Controls -> ControlRecords] /\ control'[c].pc = "call"
        /\ \A d \in Controls \ {c} : control'[d] = control[d]
    BY <1>1, <1>3, ReturnsKeeps
  <2>2. CallsLeft'
    BY <1>1, <2>1 DEF CallsLeft
  <2>3. QED
    BY <1>3, <2>1, <2>2
<1>4. QED
  BY <1>2, <1>3

LEMMA FlagsKeep ==
  ASSUME PlaceInv, UNCHANGED <<queue, holder, asleep, worker, producer, future>>,
         initialized' \in BOOLEAN, terminated' \in BOOLEAN, paused' \in BOOLEAN,
         control' \in [Controls -> ControlRecords], CallsLeft', Started'
  PROVE  PlaceInv'
<1>1. Types /\ MutexHeld /\ Places /\ Tracked /\ OnlyRunnersHold
  BY HolderFacts, PlaceForms DEF PlaceInv
<1>2. Types' /\ MutexHeld'
  BY <1>1 DEF Types, MutexHeld
<1>3. Places' /\ Tracked' /\ OnlyRunnersHold'
  BY <1>1 DEF Places, Tracked, OnlyRunnersHold
<1>4. QED
  BY <1>2, <1>3, TypeFormsPrime, PlaceFormsPrime DEF PlaceInv

LEMMA InitializeKeeps == ASSUME PlaceInv, NEW c \in Controls, Initialize(c) PROVE PlaceInv'
<1>1. Types /\ MutexHeld /\ Places /\ Tracked /\ Started /\ NoWorker \notin Workers
  BY HolderFacts, PlaceForms DEF PlaceInv
<1>2. /\ control[c].calls # <<>> /\ control[c].pc = "call"
      /\ \A d \in Controls : control[d].pc # "start"
  BY CallerFacts DEF Initialize
<1>3. UNCHANGED <<flags, queue, holder, asleep, producer, future>>
  BY DEF Initialize
<1>4. CASE initialized
  <2>1. Returns(c) /\ UNCHANGED worker /\ "call" \in ControlPcs
    BY <1>4 DEF Initialize, ControlPcs
  <2>2. /\ control' \in [Controls -> ControlRecords] /\ CallsLeft'
        /\ control'[c].pc = "call" /\ \A d \in Controls \ {c} : control'[d] = control[d]
    BY <1>2, <2>1, ControlMoves
  <2>3. Started'
    BY <1>1, <1>2, <1>3, <1>4, <2>1, <2>2 DEF Started, flags
  <2>4. QED
    BY <1>1, <1>3, <2>1, <2>2, <2>3, FlagsKeep DEF flags, Types
<1>5. CASE ~initialized
  <2>1. /\ worker' = [w \in Workers |-> [pc |-> "lock", task |-> {}]]
        /\ ControlGoto(c, "start") /\ "start" \in ControlPcs
    BY <1>5 DEF Initialize, ControlPcs
  <2>2. /\ control' \in [Controls -> ControlRecords] /\ CallsLeft'
        /\ control'[c].pc = "start" /\ \A d \in Controls \ {c} : control'[d] = control[d]
    BY <1>2, <2>1, ControlMoves
  <2>3. \A w \in Workers : worker[w].pc = "none"
    BY <1>1, <1>2, <1>5 DEF Started
  <2>4. worker' \in [Workers -> WorkerRecords]
    BY <2>1 DEF WorkerRecords, WorkerPcs
  <2>5. Types'
    BY <1>1, <1>3, <2>2, <2>4 DEF Types, flags
  <2>6. MutexHeld'
    <3>1. asleep = {} /\ \A w \in Workers : holder # w
      BY <1>1, <2>3 DEF MutexHeld
    <3>2. QED
      BY <1>3, <2>1, <3>1 DEF MutexHeld
  <2>7. Places' /\ Tracked' /\ OnlyRunnersHold'
    BY <1>1, <1>3, <2>1 DEF Places, Tracked, OnlyRunnersHold
  <2>8. Started'
    BY <1>1, <1>2, <1>3, <1>5, <2>2 DEF Started, flags
  <2>9. QED
    BY <2>2, <2>5, <2>6, <2>7, <2>8, TypeFormsPrime, PlaceFormsPrime DEF PlaceInv
<1>6. QED
  BY <1>1, <1>4, <1>5 DEF Types

LEMMA InitializeFlagsKeeps == ASSUME PlaceInv, NEW c \in Controls, InitializeFlags(c) PROVE PlaceInv'
<1>1. Started /\ CallsLeft
  BY DEF PlaceInv
<1>2. /\ control[c].pc = "start" /\ initialized' = TRUE /\ paused' = FALSE /\ terminated' = FALSE
      /\ Returns(c) /\ UNCHANGED <<queue, holder, asleep, worker, producer, future>>
      /\ "call" \in ControlPcs
  BY DEF InitializeFlags, ControlPcs
<1>3. control[c].calls # <<>>
  BY <1>1, <1>2 DEF CallsLeft
<1>4. /\ control' \in [Controls -> ControlRecords] /\ CallsLeft'
      /\ control'[c].pc = "call" /\ \A d \in Controls \ {c} : control'[d] = control[d]
  BY <1>2, <1>3, ControlMoves
<1>5. \A d \in Controls : control'[d].pc # "start"
  BY <1>1, <1>2, <1>4 DEF Started
<1>6. Started'
  BY <1>2, <1>5 DEF Started
<1>7. QED
  BY <1>2, <1>4, <1>6, FlagsKeep

(* pause, unpause and terminate, up to the notification.                    *)
LEMMA FlagCallKeeps ==
  ASSUME PlaceInv, NEW c \in Controls, Pause(c) \/ Unpause(c) \/ Terminate(c)
  PROVE  PlaceInv'
<1>1. Started /\ Types
  BY HolderFacts DEF PlaceInv
<1>2. /\ control[c].calls # <<>> /\ \A d \in Controls : control[d].pc # "start"
  BY CallerFacts DEF Pause, Unpause, Terminate
<1>3. \E pc \in {"call", "notifyUnpaused", "notifyTerminated"} :
         ControlGoto(c, pc) \/ (Returns(c) /\ pc = "call")
  BY DEF Pause, Unpause, Terminate
<1>4. PICK pc \in {"call", "notifyUnpaused", "notifyTerminated"} :
         ControlGoto(c, pc) \/ (Returns(c) /\ pc = "call")
  BY <1>3
<1>5. /\ control' \in [Controls -> ControlRecords] /\ CallsLeft'
      /\ control'[c].pc = pc /\ \A d \in Controls \ {c} : control'[d] = control[d]
  <2>1. pc \in ControlPcs
    BY DEF ControlPcs
  <2>2. QED
    BY <1>2, <1>4, <2>1, ControlMoves
<1>6. /\ initialized' = initialized /\ UNCHANGED <<queue, holder, asleep, worker, producer, future>>
      /\ terminated' \in BOOLEAN /\ paused' \in BOOLEAN
      /\ (~initialized => paused' = paused)
  BY <1>1 DEF Pause, Unpause, Terminate, Types
<1>7. \A d \in Controls : control'[d].pc # "start"
  BY <1>2, <1>5
<1>8. Started'
  BY <1>1, <1>2, <1>6, <1>7 DEF Started
<1>9. QED
  BY <1>1, <1>5, <1>6, <1>8, FlagsKeep DEF Types

LEMMA NotifyAllKeeps == ASSUME PlaceInv, NEW c \in Controls, NotifyAll(c) PROVE PlaceInv'
<1>1. Types /\ Started /\ CallsLeft
  BY HolderFacts DEF PlaceInv
<1>2. /\ control[c].pc \in {"notifyUnpaused", "notifyTerminated"}
      /\ WakeUp(asleep) /\ UNCHANGED <<flags, queue, holder, producer, future>>
  BY DEF NotifyAll
<1>3. WorkersMove /\ MutexHeld' /\ asleep' \subseteq Workers
  BY <1>2, WakeMoves
<1>4. TasksStay
  BY <1>2, SameTasks
<1>5. OnePlace' /\ Tracked' /\ OnlyRunnersHold'
  BY <1>3, <1>4, PlacesKept
<1>6. PICK pc \in {"call", "join"} : ControlGoto(c, pc) \/ (Returns(c) /\ pc = "call")
  BY DEF NotifyAll
<1>7. control[c].calls # <<>> /\ pc \in ControlPcs
  BY <1>1, <1>2 DEF CallsLeft, ControlPcs
<1>8. /\ control' \in [Controls -> ControlRecords] /\ CallsLeft'
      /\ control'[c].pc = pc /\ \A d \in Controls \ {c} : control'[d] = control[d]
  BY <1>6, <1>7, ControlMoves
<1>9. Types'
  BY <1>1, <1>2, <1>3, <1>4, <1>8 DEF Types, flags, WorkersMove, TasksStay
<1>10. \A d \in Controls : control'[d].pc = "start" <=> control[d].pc = "start"
  BY <1>2, <1>8
<1>11. \A w \in Workers : worker[w].pc = "none" => worker'[w].pc = "none"
  BY <1>3 DEF WorkersMove
<1>12. Started'
  BY <1>1, <1>2, <1>10, <1>11 DEF Started, flags
<1>13. QED
  BY <1>3, <1>5, <1>8, <1>9, <1>12, TypeFormsPrime DEF PlaceInv

LEMMA JoinKeeps == ASSUME PlaceInv, NEW c \in Controls, Join(c) PROVE PlaceInv'
<1>1. Types /\ MutexHeld /\ Tracked /\ CallsLeft /\ NoWorker \notin Workers
  BY HolderFacts DEF PlaceInv
<1>2. /\ control[c].pc = "join" /\ Returns(c) /\ "call" \in ControlPcs
      /\ \A w \in Workers : worker[w].pc = "dead"
      /\ \A d \in Controls : control[d].pc # "start"
      /\ queue' = {} /\ initialized' = FALSE /\ paused' = FALSE
      /\ worker' = [w \in Workers |-> [pc |-> "none", task |-> {}]]
      /\ future' = [t \in Tasks |-> IF t \in queue THEN "failed" ELSE future[t]]
      /\ UNCHANGED <<terminated, holder, asleep>>
  BY DEF Join, ControlPcs
<1>3. PICK lost \in SUBSET {t \in Tasks : producer[t] = "push"} :
         producer' = [t \in Tasks |-> IF t \in lost THEN "notify" ELSE producer[t]]
  BY DEF Join
<1>4. control[c].calls # <<>>
  BY <1>1, <1>2 DEF CallsLeft
<1>5. /\ control' \in [Controls -> ControlRecords] /\ CallsLeft'
      /\ control'[c].pc = "call" /\ \A d \in Controls \ {c} : control'[d] = control[d]
  BY <1>2, <1>4, ControlMoves
<1>6. worker' \in [Workers -> WorkerRecords]
  BY <1>2 DEF WorkerRecords, WorkerPcs
<1>7. Types'
  BY <1>1, <1>2, <1>3, <1>5, <1>6 DEF Types
<1>8. MutexHeld'
  <2>1. asleep = {} /\ \A w \in Workers : holder # w
    BY <1>1, <1>2 DEF MutexHeld
  <2>2. QED
    BY <1>2, <2>1 DEF MutexHeld
<1>9. Places' /\ OnlyRunnersHold'
  BY <1>2 DEF Places, OnlyRunnersHold
<1>10. Tracked'
  BY <1>1, <1>2, <1>3 DEF Tracked
<1>11. Started'
  BY <1>2, <1>5 DEF Started
<1>12. QED
  BY <1>5, <1>7, <1>8, <1>9, <1>10, <1>11, TypeFormsPrime, PlaceFormsPrime DEF PlaceInv

-----------------------------------------------------------------------------
LEMMA InitPlaceInv == Init => PlaceInv
<1> SUFFICES ASSUME Init PROVE PlaceInv
  OBVIOUS
<1>1. worker \in [Workers -> WorkerRecords]
  BY DEF Init, WorkerRecords, WorkerPcs
<1>2. control \in [Controls -> ControlRecords]
  BY PoolAssumption DEF Init, ControlRecords, ControlPcs
<1>3. Types /\ MutexHeld
  BY <1>1, <1>2, PoolAssumption DEF Init, Types, MutexHeld
<1>4. Places /\ Tracked /\ OnlyRunnersHold
  BY DEF Init, Places, Tracked, OnlyRunnersHold
<1>5. CallsLeft /\ Started
  BY DEF Init, CallsLeft, Started
<1>6. QED
  BY <1>3, <1>4, <1>5, TypeForms, PlaceForms DEF PlaceInv

LEMMA StepPlaceInv == PlaceInv /\ [Next]_vars => PlaceInv'
<1> SUFFICES ASSUME PlaceInv, [Next]_vars PROVE PlaceInv'
  OBVIOUS
<1>1. CASE UNCHANGED vars
  <2>1. Started /\ CallsLeft /\ Types
    BY HolderFacts DEF PlaceInv
  <2>2. Started' /\ CallsLeft'
    BY <1>1, <2>1 DEF vars, Started, CallsLeft
  <2>3. QED
    BY <1>1, <2>1, <2>2, FlagsKeep DEF vars, Types
<1>2. CASE \E w \in Workers : WorkerStep(w) \/ Spurious(w)
  BY <1>2, LockKeeps, CheckKeeps, WaitKeeps, DecideKeeps, RunKeeps, SpuriousKeeps DEF WorkerStep
<1>3. CASE \E t \in Tasks : ProducerStep(t)
  BY <1>3, AddCheckKeeps, AddPushKeeps, AddNotifyKeeps DEF ProducerStep
<1>4. CASE \E c \in Controls : ControlStep(c)
  BY <1>4, InitializeKeeps, InitializeFlagsKeeps, FlagCallKeeps, NotifyAllKeeps, JoinKeeps DEF ControlStep
<1>5. QED
  BY <1>1, <1>2, <1>3, <1>4 DEF Next

LEMMA PlaceInvHolds == Spec => []PlaceInv
BY InitPlaceInv, StepPlaceInv, PTL DEF Spec

(* Every step of routine, add_task and the control calls keeps the types    *)
(* and the mutual exclusion of m_queue_mutex.                               *)
THEOREM PoolTypes == Spec => []TypeOK
<1>1. PlaceInv => TypeOK
  BY DEF PlaceInv
<1>2. QED
  BY PlaceInvHolds, <1>1, PTL

(* A task runs at most once and terminate never breaks the promise of one   *)
(* that runs, for any number of workers and producers and any order of      *)
(* control calls.                                                           *)
THEOREM TasksRunOnce == Spec => []OnePlace
<1>1. PlaceInv => OnePlace
  BY DEF PlaceInv
<1>2. QED
  BY PlaceInvHolds, <1>1, PTL

-----------------------------------------------------------------------------
(* NoLostWakeup.                                                            *)

Awake == {"lock", "check", "wait", "decide", "run"}

LEMMA AwakeSufficesPrime ==
  ASSUME NEW w \in Workers, worker'[w].pc \in Awake
  PROVE  NoLostWakeup'
BY DEF Awake, NoLostWakeup

LEMMA WorkerWake ==
  ASSUME PlaceInv, PlaceInv', WakeInv, NEW w \in Workers, WorkerStep(w) \/ Spurious(w)
  PROVE  WakeInv'
<1>1. Types /\ MutexHeld /\ NoWorker \notin Workers
  BY HolderFacts
<1>2. Types' /\ MutexHeld'
  BY TypeFormsPrime DEF PlaceInv
<1>3. CASE Lock(w) \/ Check(w)
  <2>1. /\ UNCHANGED <<flags, queue, asleep, producer, control>>
        /\ \A v \in Workers \ {w} : worker'[v] = worker[v]
        /\ worker'[w].pc \in {"check", "decide", "wait"}
        /\ worker'[w].pc = "wait" => ~Predicate
    BY <1>1, <1>3, GotoKeeps DEF Lock, Check, WorkerPcs, Types
  <2>2. Backed' /\ Summoned'
    BY <2>1 DEF WakeInv, Backed, Summoned, Predicate, flags
  <2>3. NoLostWakeup'
    BY <2>1, AwakeSufficesPrime DEF Awake
  <2>4. QED
    BY <2>2, <2>3 DEF WakeInv
<1>4. CASE Wait(w)
  <2>1. /\ UNCHANGED <<flags, queue, producer, control>> /\ worker[w].pc = "wait"
        /\ \A v \in Workers \ {w} : worker'[v] = worker[v]
        /\ worker'[w].pc = "asleep"
    BY <1>1, <1>4, GotoKeeps DEF Wait, WorkerPcs, Types
  <2>2. Backed' /\ Summoned'
    BY <2>1 DEF WakeInv, Backed, Summoned, Predicate, flags
  <2>3. Predicate' => \E c \in Controls : control'[c].pc \in Notifying
    BY <2>1 DEF WakeInv, Backed, Predicate, flags
  <2>4. NoLostWakeup'
    BY <2>3 DEF NoLostWakeup, Notifying
  <2>5. QED
    BY <2>2, <2>4 DEF WakeInv
<1>5. CASE Decide(w)
  <2>1. /\ UNCHANGED <<flags, asleep, producer, control>> /\ queue' \subseteq queue
        /\ \A v \in Workers \ {w} : worker'[v] = worker[v]
        /\ worker'[w].pc \in {"dead", "lock", "run"}
        /\ worker'[w].pc = "dead" => terminated
    <3>1. CASE \E pc \in {"dead", "lock"} : WorkerGoto(w, pc) /\ UNCHANGED queue /\ (pc = "dead" => terminated)
      BY <1>1, <1>5, <3>1, GotoKeeps DEF Decide, WorkerPcs, Types
    <3>2. CASE \E t \in Top : /\ queue' = queue \ {t}
                              /\ worker' = [worker EXCEPT ![w] = [pc |-> "run", task |-> {t}]]
      BY <1>1, <1>5, <3>2 DEF Decide, Types
    <3>3. QED
      BY <1>5, <3>1, <3>2 DEF Decide
  <2>2. Backed'
    <3>1. \A v \in Workers : worker'[v].pc # "wait"
      BY <1>1, <1>5, <2>1 DEF MutexHeld, Decide
    <3>2. QED
      BY <3>1 DEF Backed
  <2>3. Summoned'
    BY <2>1 DEF WakeInv, Summoned, flags
  <2>4. NoLostWakeup'
    <3>1. CASE worker'[w].pc = "dead"
      <4>1. asleep' # {} => \E c \in Controls : control[c].pc = "notifyTerminated"
        BY <1>1, <2>1, <3>1 DEF WakeInv, Summoned, MutexHeld
      <4>2. QED
        BY <2>1, <4>1 DEF NoLostWakeup
    <3>2. CASE worker'[w].pc # "dead"
      BY <2>1, <3>2, AwakeSufficesPrime DEF Awake
    <3>3. QED
      BY <3>1, <3>2
  <2>5. QED
    BY <2>2, <2>3, <2>4 DEF WakeInv
<1>6. CASE Run(w)
  <2>1. /\ UNCHANGED <<flags, queue, asleep, producer, control>>
        /\ \A v \in Workers \ {w} : worker'[v] = worker[v]
        /\ worker'[w].pc = "lock"
    BY <1>1, <1>6 DEF Run, Types
  <2>2. Backed' /\ Summoned'
    BY <2>1 DEF WakeInv, Backed, Summoned, Predicate, flags
  <2>3. NoLostWakeup'
    BY <2>1, AwakeSufficesPrime DEF Awake
  <2>4. QED
    BY <2>2, <2>3 DEF WakeInv
<1>7. CASE Spurious(w)
  <2>1. /\ UNCHANGED <<flags, queue, producer, control>>
        /\ \A v \in Workers : worker'[v].pc = IF v \in {w} THEN "lock" ELSE worker[v].pc
    BY <1>1, <1>7, WakeKeeps DEF Spurious, Types
  <2>2. Backed' /\ Summoned'
    BY <2>1 DEF WakeInv, Backed, Summoned, Predicate, flags
  <2>3. NoLostWakeup'
    BY <2>1, AwakeSufficesPrime DEF Awake
  <2>4. QED
    BY <2>2, <2>3 DEF WakeInv
<1>8. QED
  BY <1>3, <1>4, <1>5, <1>6, <1>7 DEF WorkerStep

LEMMA ProducerWake ==
  ASSUME PlaceInv, PlaceInv', WakeInv, NEW t \in Tasks, ProducerStep(t)
  PROVE  WakeInv'
<1>1. Types /\ MutexHeld /\ Types' /\ MutexHeld'
  BY HolderFacts, TypeFormsPrime DEF PlaceInv
<1>2. CASE AddCheck(t)
  <2>1. UNCHANGED <<flags, queue, asleep, worker, control>>
        /\ \A u \in Tasks : producer[u] = "notify" => producer'[u] = "notify"
    BY <1>1, <1>2 DEF AddCheck, Types
  <2>2. QED
    BY <2>1 DEF WakeInv, Backed, Summoned, NoLostWakeup, Predicate, flags
<1>3. CASE AddPush(t)
  <2>1. producer'[t] = "notify" /\ UNCHANGED <<flags, worker, control>>
    BY <1>1, <1>3 DEF AddPush, Types
  <2>2. \A w \in Workers : worker'[w].pc # "wait"
    BY <1>3, <2>1, HolderFacts DEF AddPush
  <2>3. QED
    BY <2>1, <2>2 DEF WakeInv, Backed, Summoned, NoLostWakeup, flags
<1>4. CASE AddNotify(t)
  <2>1. UNCHANGED <<flags, queue, control>>
    BY <1>4 DEF AddNotify
  <2>2. CASE asleep = {}
    <3>1. UNCHANGED <<asleep, worker>>
      BY <1>4, <2>2 DEF AddNotify, NotifyOne
    <3>2. QED
      BY <2>1, <2>2, <3>1 DEF WakeInv, Backed, Summoned, NoLostWakeup, Predicate, flags
  <2>3. CASE asleep # {}
    <3>1. PICK w \in asleep : WakeUp({w})
      BY <1>4, <2>3 DEF AddNotify, NotifyOne
    <3>2. w \in Workers /\ \A v \in Workers : worker'[v].pc = IF v \in {w} THEN "lock" ELSE worker[v].pc
      BY <1>1, <3>1, WakeKeeps DEF Types
    <3>3. Backed' /\ Summoned'
      BY <2>1, <3>2 DEF WakeInv, Backed, Summoned, Predicate, flags
    <3>4. NoLostWakeup'
      BY <3>2, AwakeSufficesPrime DEF Awake
    <3>5. QED
      BY <3>3, <3>4 DEF WakeInv
  <2>4. QED
    BY <2>2, <2>3
<1>5. QED
  BY <1>2, <1>3, <1>4 DEF ProducerStep

(* A step after which no worker is on its way to sleep or asleep.           *)
LEMMA NoSleeper ==
  ASSUME Types', MutexHeld', \A w \in Workers : worker'[w].pc \notin {"wait", "asleep"}
  PROVE  WakeInv'
<1>1. asleep' = {}
  BY DEF MutexHeld
<1>2. QED
  BY <1>1 DEF WakeInv, Backed, Summoned, NoLostWakeup

LEMMA ControlWake ==
  ASSUME PlaceInv, PlaceInv', WakeInv, NEW c \in Controls, ControlStep(c)
  PROVE  WakeInv'
<1>1. Types /\ MutexHeld /\ Types' /\ MutexHeld' /\ Started /\ CallsLeft
  BY HolderFacts, TypeFormsPrime DEF PlaceInv
<1>2. ASSUME control[c].calls # <<>>, NEW pc \in ControlPcs, ControlGoto(c, pc) \/ (Returns(c) /\ pc = "call")
      PROVE  control'[c].pc = pc /\ \A d \in Controls \ {c} : control'[d] = control[d]
  BY <1>2, ControlMoves
<1>3. CASE Initialize(c) /\ ~initialized
  BY <1>1, <1>3, NoSleeper DEF Initialize
<1>4. CASE Initialize(c) /\ initialized
  <2>1. control[c].pc = "call" /\ control[c].calls # <<>> /\ Returns(c)
        /\ UNCHANGED <<flags, queue, asleep, worker, producer>>
    BY <1>4 DEF Initialize, Calling
  <2>2. \A d \in Controls : control[d].pc # "call" => control'[d] = control[d]
    BY <1>2, <2>1 DEF ControlPcs
  <2>3. QED
    BY <2>1, <2>2 DEF WakeInv, Backed, Summoned, NoLostWakeup, Predicate, flags, Notifying
<1>5. CASE InitializeFlags(c)
  <2>1. /\ control[c].pc = "start" /\ Returns(c) /\ terminated' = FALSE /\ paused' = FALSE
        /\ UNCHANGED <<queue, asleep, worker, producer>>
    BY <1>5 DEF InitializeFlags
  <2>2. ~paused /\ control[c].calls # <<>>
    BY <1>1, <2>1 DEF Started, CallsLeft
  <2>3. Predicate' => Predicate
    BY <2>1, <2>2 DEF Predicate
  <2>4. \A d \in Controls : control[d].pc # "start" => control'[d] = control[d]
    BY <1>2, <2>1, <2>2 DEF ControlPcs
  <2>5. QED
    BY <2>1, <2>3, <2>4 DEF WakeInv, Backed, Summoned, NoLostWakeup, Notifying
<1>6. CASE Pause(c) \/ Unpause(c) \/ Terminate(c)
  <2>1. /\ control[c].pc = "call" /\ control[c].calls # <<>>
        /\ UNCHANGED <<queue, asleep, worker, producer>>
    BY <1>6 DEF Pause, Unpause, Terminate, Calling
  <2>2. \A d \in Controls \ {c} : control'[d] = control[d]
    BY <1>2, <1>6, <2>1 DEF Pause, Unpause, Terminate, ControlPcs
  <2>3. CASE Returns(c) /\ terminated' = terminated /\ (Predicate' => Predicate)
    <3>1. \A d \in Controls : control[d].pc # "call" => control'[d] = control[d]
      BY <2>1, <2>2
    <3>2. QED
      BY <2>1, <2>3, <3>1 DEF WakeInv, Backed, Summoned, NoLostWakeup, Notifying
  <2>4. CASE ControlGoto(c, "notifyUnpaused") /\ terminated' = terminated
    <3>1. control'[c].pc = "notifyUnpaused"
      BY <1>2, <2>1, <2>4 DEF ControlPcs
    <3>2. \A d \in Controls : control[d].pc # "call" => control'[d] = control[d]
      BY <2>1, <2>2
    <3>3. Backed' /\ NoLostWakeup'
      BY <3>1 DEF Backed, NoLostWakeup, Notifying
    <3>4. Summoned'
      BY <2>1, <2>4, <3>2 DEF WakeInv, Summoned
    <3>5. QED
      BY <3>3, <3>4 DEF WakeInv
  <2>5. CASE ControlGoto(c, "notifyTerminated")
    <3>1. control'[c].pc = "notifyTerminated"
      BY <1>2, <2>1, <2>5 DEF ControlPcs
    <3>2. QED
      BY <3>1 DEF WakeInv, Backed, Summoned, NoLostWakeup, Notifying
  <2>6. QED
    BY <1>6, <2>1, <2>3, <2>4, <2>5 DEF Pause, Unpause, Terminate, Predicate
<1>7. CASE NotifyAll(c)
  <2>1. \A w \in Workers : worker[w].pc # "wait" /\ (worker[w].pc = "asleep" <=> w \in asleep)
    BY <1>1, <1>7, HolderFacts DEF NotifyAll, MutexHeld
  <2>2. \A w \in Workers : worker'[w].pc = IF w \in asleep THEN "lock" ELSE worker[w].pc
    BY <1>1, <1>7, WakeKeeps DEF NotifyAll, Types
  <2>3. QED
    BY <1>1, <2>1, <2>2, NoSleeper
<1>8. CASE Join(c)
  BY <1>1, <1>8, NoSleeper DEF Join
<1>9. QED
  BY <1>1, <1>3, <1>4, <1>5, <1>6, <1>7, <1>8 DEF ControlStep, Types

LEMMA StepWakeInv == PlaceInv /\ PlaceInv' /\ WakeInv /\ [Next]_vars => WakeInv'
<1> SUFFICES ASSUME PlaceInv, PlaceInv', WakeInv, [Next]_vars PROVE WakeInv'
  OBVIOUS
<1>1. CASE UNCHANGED vars
  BY <1>1 DEF vars, WakeInv, Backed, Summoned, NoLostWakeup, Predicate
<1>2. QED
  BY <1>1, WorkerWake, ProducerWake, ControlWake DEF Next

LEMMA InitWakeInv == Init => WakeInv
BY DEF Init, WakeInv, Backed, Summoned, NoLostWakeup

(* No worker sleeps through its last notification: if a task could run, or  *)
(* the pool is terminated, and all workers are asleep or gone, add_task,    *)
(* unpause or terminate is still about to notify, although the flags are    *)
(* written without the mutex of m_queue_cv.                                 *)
THEOREM WakeupsNeverLost == Spec => []NoLostWakeup
<1>1. WakeInv => NoLostWakeup
  BY DEF WakeInv
<1>2. QED
  BY InitWakeInv, StepWakeInv, PlaceInvHolds, <1>1, PTL DEF Spec
=============================================================================
