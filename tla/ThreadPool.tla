------------------------------ MODULE ThreadPool ------------------------------
(***************************************************************************)
(* The thread pool of the servers: worker threads that sleep on a          *)
(* condition variable, producers that call add_task, and control threads   *)
(* that call initialize, pause, unpause and terminate.                     *)
(*                                                                         *)
(* m_is_initialized, m_is_terminated and m_is_paused are atomics read and  *)
(* written outside m_queue_mutex, so a step ends wherever another thread   *)
(* can see or change one of them. A critical section of m_queue_mutex that *)
(* touches nothing else is one step, taken when the mutex is free.         *)
(***************************************************************************)
EXTENDS Naturals, FiniteSets, Sequences

CONSTANTS
  Workers,    \* worker threads initialize starts
  Tasks,      \* tasks, each added by a producer thread of its own
  High,       \* the tasks added with a higher priority than the others
  Controls,   \* control threads
  Scripts,    \* calls a control thread makes: sequences of Calls
  NoWorker

Calls == {"initialize", "pause", "unpause", "terminate"}

ASSUME PoolAssumption ==
  /\ High \subseteq Tasks
  /\ Scripts \in [Controls -> Seq(Calls)]
  /\ NoWorker \notin Workers

VARIABLES
  initialized, terminated, paused,   \* the atomics
  queue,      \* tasks in m_queue
  holder,     \* worker that holds m_queue_mutex, or NoWorker
  asleep,     \* workers waiting on m_queue_cv
  worker,     \* per worker: next step and the task it holds
  producer,   \* per task: next step of its add_task
  future,     \* per task: state of the future add_task returned
  control     \* per control thread: calls left and next step

vars == <<initialized, terminated, paused, queue, holder, asleep, worker, producer, future, control>>
flags == <<initialized, terminated, paused>>

Init ==
  /\ initialized = FALSE /\ terminated = FALSE /\ paused = FALSE
  /\ queue = {}
  /\ holder = NoWorker
  /\ asleep = {}
  /\ worker = [w \in Workers |-> [pc |-> "none", task |-> {}]]
  /\ producer = [t \in Tasks |-> "start"]
  /\ future = [t \in Tasks |-> "none"]
  /\ control = [c \in Controls |-> [calls |-> Scripts[c], pc |-> "call"]]

-----------------------------------------------------------------------------
(* routine: lock, evaluate the predicate, sleep or go on.                   *)

WorkerGoto(w, pc) == worker' = [worker EXCEPT ![w].pc = pc]

Lock(w) ==
  /\ worker[w].pc = "lock"
  /\ holder = NoWorker
  /\ holder' = w
  /\ WorkerGoto(w, "check")
  /\ UNCHANGED <<flags, queue, asleep, producer, future, control>>

Predicate == terminated \/ (~paused /\ queue # {})

Check(w) ==
  /\ worker[w].pc = "check"
  /\ WorkerGoto(w, IF Predicate THEN "decide" ELSE "wait")
  /\ UNCHANGED <<flags, queue, holder, asleep, producer, future, control>>

(* The wait releases the mutex and goes to sleep in one step.               *)
Wait(w) ==
  /\ worker[w].pc = "wait"
  /\ holder' = NoWorker
  /\ asleep' = asleep \cup {w}
  /\ WorkerGoto(w, "asleep")
  /\ UNCHANGED <<flags, queue, producer, future, control>>

(* A notified worker, or one that wakes up by itself, locks again.          *)
WakeUp(ws) ==
  /\ asleep' = asleep \ ws
  /\ worker' = [w \in Workers |-> IF w \in ws THEN [worker[w] EXCEPT !.pc = "lock"] ELSE worker[w]]

Spurious(w) ==
  /\ w \in asleep
  /\ WakeUp({w})
  /\ UNCHANGED <<flags, queue, holder, producer, future, control>>

(* TasksQueue::pop takes a task of the highest priority in the queue, any   *)
(* of them when several have it.                                            *)
Top == IF queue \cap High # {} THEN queue \cap High ELSE queue

(* Mutant: the task is copied and stays in the queue.                       *)
DecideWithoutPop(w) ==
  /\ worker[w].pc = "decide"
  /\ holder' = NoWorker
  /\ \/ terminated /\ WorkerGoto(w, "dead")
     \/ ~terminated /\ (paused \/ queue = {}) /\ WorkerGoto(w, "lock")
     \/ /\ ~terminated /\ ~paused
        /\ \E t \in Top : worker' = [worker EXCEPT ![w] = [pc |-> "run", task |-> {t}]]
  /\ UNCHANGED <<flags, queue, asleep, producer, future, control>>

Decide(w) ==
  /\ worker[w].pc = "decide"
  /\ holder' = NoWorker
  /\ \/ terminated /\ WorkerGoto(w, "dead") /\ UNCHANGED queue
     \/ ~terminated /\ (paused \/ queue = {}) /\ WorkerGoto(w, "lock") /\ UNCHANGED queue
     \/ /\ ~terminated /\ ~paused
        /\ \E t \in Top : /\ queue' = queue \ {t}
                          /\ worker' = [worker EXCEPT ![w] = [pc |-> "run", task |-> {t}]]
  /\ UNCHANGED <<flags, asleep, producer, future, control>>

(* The packaged task fills its future, with a value or an exception.        *)
Run(w) ==
  /\ worker[w].pc = "run"
  /\ future' = [t \in Tasks |-> IF t \in worker[w].task THEN "done" ELSE future[t]]
  /\ worker' = [worker EXCEPT ![w] = [pc |-> "lock", task |-> {}]]
  /\ UNCHANGED <<flags, queue, holder, asleep, producer, control>>

WorkerStep(w) == Lock(w) \/ Check(w) \/ Wait(w) \/ Decide(w) \/ Run(w)

-----------------------------------------------------------------------------
(* add_task: check the flags, push under the mutex, notify one worker.      *)

AddCheck(t) ==
  /\ producer[t] = "start"
  /\ IF initialized /\ ~terminated
     THEN /\ producer' = [producer EXCEPT ![t] = "push"]
          /\ future' = [future EXCEPT ![t] = "pending"]
     ELSE /\ producer' = [producer EXCEPT ![t] = "returned"]
          /\ future' = [future EXCEPT ![t] = "failed"]
  /\ UNCHANGED <<flags, queue, holder, asleep, worker, control>>

AddPush(t) ==
  /\ producer[t] = "push"
  /\ holder = NoWorker
  /\ queue' = queue \cup {t}
  /\ producer' = [producer EXCEPT ![t] = "notify"]
  /\ UNCHANGED <<flags, holder, asleep, worker, future, control>>

NotifyOne == IF asleep = {} THEN UNCHANGED <<asleep, worker>> ELSE \E w \in asleep : WakeUp({w})

AddNotify(t) ==
  /\ producer[t] = "notify"
  /\ NotifyOne
  /\ producer' = [producer EXCEPT ![t] = "returned"]
  /\ UNCHANGED <<flags, queue, holder, future, control>>

ProducerStep(t) == AddCheck(t) \/ AddPush(t) \/ AddNotify(t)

-----------------------------------------------------------------------------
(* The control calls. m_pool_state_mutex makes the sections of one call     *)
(* exclude those of another; initialize holds it over two steps.            *)

Calling(c, call) ==
  /\ control[c].pc = "call" /\ control[c].calls # <<>> /\ Head(control[c].calls) = call
  /\ \A d \in Controls : control[d].pc # "start"

ControlGoto(c, pc) == control' = [control EXCEPT ![c].pc = pc]
Returns(c) == control' = [control EXCEPT ![c] = [calls |-> Tail(@.calls), pc |-> "call"]]

(* initialize starts the workers before it sets the flags.                  *)
Initialize(c) ==
  /\ Calling(c, "initialize")
  /\ IF initialized
     THEN Returns(c) /\ UNCHANGED worker
     ELSE /\ worker' = [w \in Workers |-> [pc |-> "lock", task |-> {}]]
          /\ ControlGoto(c, "start")
  /\ UNCHANGED <<flags, queue, holder, asleep, producer, future>>

InitializeFlags(c) ==
  /\ control[c].pc = "start"
  /\ initialized' = TRUE /\ paused' = FALSE /\ terminated' = FALSE
  /\ Returns(c)
  /\ UNCHANGED <<queue, holder, asleep, worker, producer, future>>

Pause(c) ==
  /\ Calling(c, "pause")
  /\ paused' = (paused \/ (initialized /\ ~terminated))
  /\ Returns(c)
  /\ UNCHANGED <<initialized, terminated, queue, holder, asleep, worker, producer, future>>

Unpause(c) ==
  /\ Calling(c, "unpause")
  /\ IF initialized /\ ~terminated /\ paused
     THEN paused' = FALSE /\ ControlGoto(c, "notifyUnpaused")
     ELSE UNCHANGED paused /\ Returns(c)
  /\ UNCHANGED <<initialized, terminated, queue, holder, asleep, worker, producer, future>>

Terminate(c) ==
  /\ Calling(c, "terminate")
  /\ IF initialized /\ ~terminated
     THEN terminated' = TRUE /\ paused' = FALSE /\ ControlGoto(c, "notifyTerminated")
     ELSE UNCHANGED <<terminated, paused>> /\ Returns(c)
  /\ UNCHANGED <<initialized, queue, holder, asleep, worker, producer, future>>

(* Mutant: notify_all without taking m_queue_mutex first.                   *)
NotifyAllUnlocked(c) ==
  /\ control[c].pc \in {"notifyUnpaused", "notifyTerminated"}
  /\ WakeUp(asleep)
  /\ IF control[c].pc = "notifyUnpaused" THEN Returns(c) ELSE ControlGoto(c, "join")
  /\ UNCHANGED <<flags, queue, holder, producer, future>>

NotifyAll(c) ==
  /\ control[c].pc \in {"notifyUnpaused", "notifyTerminated"}
  /\ holder = NoWorker
  /\ WakeUp(asleep)
  /\ IF control[c].pc = "notifyUnpaused" THEN Returns(c) ELSE ControlGoto(c, "join")
  /\ UNCHANGED <<flags, queue, holder, producer, future>>

(* When all workers have ended, the queue is cleared: the packaged tasks    *)
(* in it are destroyed, which breaks their promises. The clear does not     *)
(* take m_queue_mutex, so it races a push: the pushed task may be in the    *)
(* queue before it or after it (AddPush), or be lost to both.               *)
Join(c) ==
  /\ control[c].pc = "join"
  /\ \A w \in Workers : worker[w].pc = "dead"
  /\ \A d \in Controls : control[d].pc # "start"
  /\ \E lost \in SUBSET {t \in Tasks : producer[t] = "push"} :
       producer' = [t \in Tasks |-> IF t \in lost THEN "notify" ELSE producer[t]]
  /\ queue' = {}
  /\ future' = [t \in Tasks |-> IF t \in queue THEN "failed" ELSE future[t]]
  /\ initialized' = FALSE /\ paused' = FALSE
  /\ worker' = [w \in Workers |-> [pc |-> "none", task |-> {}]]
  /\ Returns(c)
  /\ UNCHANGED <<terminated, holder, asleep>>

ControlStep(c) ==
  \/ Initialize(c)
  \/ InitializeFlags(c)
  \/ Pause(c)
  \/ Unpause(c)
  \/ Terminate(c)
  \/ NotifyAll(c)
  \/ Join(c)

Next ==
  \/ \E w \in Workers : WorkerStep(w) \/ Spurious(w)
  \/ \E t \in Tasks : ProducerStep(t)
  \/ \E c \in Controls : ControlStep(c)

(* Threads run: one that can take a step does, and one that waits for a     *)
(* mutex that is released again and again gets it. Nothing is assumed about *)
(* spurious wake-ups, and tasks end.                                        *)
Fairness ==
  /\ \A w \in Workers : WF_vars(WorkerStep(w)) /\ SF_vars(Lock(w))
  /\ \A t \in Tasks : WF_vars(ProducerStep(t)) /\ SF_vars(AddPush(t))
  /\ \A c \in Controls : WF_vars(ControlStep(c)) /\ SF_vars(NotifyAll(c))

Spec == Init /\ [][Next]_vars /\ Fairness

-----------------------------------------------------------------------------
Held == UNION {worker[w].task : w \in Workers}

(* Types; the worker between lock and unlock is the one that holds          *)
(* m_queue_mutex, and the sleepers are the workers in the wait.             *)
TypeOK ==
  /\ initialized \in BOOLEAN /\ terminated \in BOOLEAN /\ paused \in BOOLEAN
  /\ queue \subseteq Tasks
  /\ holder \in Workers \cup {NoWorker}
  /\ asleep \subseteq Workers
  /\ worker \in [Workers -> [pc : {"none", "lock", "check", "wait", "asleep", "decide", "run", "dead"},
                             task : SUBSET Tasks]]
  /\ producer \in [Tasks -> {"start", "push", "notify", "returned"}]
  /\ future \in [Tasks -> {"none", "pending", "done", "failed"}]
  /\ control \in [Controls -> [calls : Seq(Calls),
                               pc : {"call", "start", "notifyUnpaused", "notifyTerminated", "join"}]]
  /\ \A w \in Workers : worker[w].pc \in {"check", "wait", "decide"} <=> holder = w
  /\ asleep = {w \in Workers : worker[w].pc = "asleep"}

(* A task is in one place: in the queue, with one worker, or finished. So   *)
(* it runs at most once, whichever workers race for it, and terminate never *)
(* breaks the promise of a task that a worker runs.                         *)
OnePlace ==
  /\ \A t \in queue \cup Held : future[t] = "pending"
  /\ queue \cap Held = {}
  /\ \A v, w \in Workers : v # w => worker[v].task \cap worker[w].task = {}

(* No lost wake-up: when there is a task to run or the pool is terminated,  *)
(* and no worker is awake, those that sleep have a notification on its way, *)
(* although the flags change outside the mutex the workers sleep with.      *)
NoLostWakeup ==
  (Predicate /\ asleep # {} /\ \A w \in Workers : worker[w].pc \in {"none", "asleep", "dead"}) =>
     \/ \E t \in Tasks : producer[t] = "notify"
     \/ \E c \in Controls : control[c].pc \in {"notifyUnpaused", "notifyTerminated"}

(* Every future becomes ready: with the task's result, or with an exception *)
(* when the pool was not ready or was terminated first. add_task reads the  *)
(* flags before it takes the mutex, so a task pushed after terminate has    *)
(* cleared the queue stays there and its future is never ready; no run      *)
(* checks it, QueuedResolve below is what holds.                            *)
FuturesResolve == \A t \in Tasks : (producer[t] # "start") ~> (future[t] \in {"done", "failed"})


(* Every control call returns; terminate joins all the workers.             *)
ControlReturns == \A c \in Controls : <>(control[c].calls = <<>>)
=============================================================================
