-------------------------------- MODULE Logger --------------------------------
(***************************************************************************)
(* The asynchronous logger: threads that call Log, Read (or Search) and    *)
(* set_strategy, the work thread that takes the queue in batches and gives *)
(* it to the storage strategy, and the destructor that stops it.           *)
(*                                                                         *)
(* m_queue, m_flush and m_is_flushed are only used under m_queue_mtx, so a *)
(* critical section up to the point where it waits on m_cv is one step.    *)
(* All threads wait on the same m_cv. Log levels are left out: a message   *)
(* that the strategy filters counts as written.                            *)
(***************************************************************************)
EXTENDS Naturals, Sequences

CONSTANTS
  Threads,   \* threads that use the logger
  Scripts,   \* ways they may use it: a sequence of Ops for each thread
  Batch,     \* LogsForBatch
  Faults     \* what may go wrong with the log file: a subset of Kinds

Ops == {"log", "read", "set_strategy"}
Kinds == {"rotation", "stream"}

ASSUME LoggerAssumption ==
  /\ Scripts \subseteq [Threads -> Seq(Ops)]
  /\ Batch \in Nat
  /\ Faults \subseteq Kinds

VARIABLES
  queue,             \* m_queue
  flush, flushed,    \* m_flush, m_is_flushed
  running,           \* m_running_flag
  strategy,          \* m_strategy
  valid,             \* whether the file strategy is valid
  worker,            \* next step of the work thread
  local, using,      \* its local_queue and local_strategy
  thread,            \* per thread: calls left, and where its call is
  life,              \* the destructor
  accepted, written  \* history: messages queued, given to the storage

vars == <<queue, flush, flushed, running, strategy, valid, worker, local, using,
          thread, life, accepted, written>>

Sys == [from |-> "logger", n |-> 0]     \* ReportSystemInfo, ReportError

(* The constructor queues two messages before it starts the work thread.    *)
Init ==
  /\ queue = <<Sys, Sys>> /\ accepted = <<Sys, Sys>> /\ written = <<>>
  /\ flush = FALSE /\ flushed = FALSE /\ running = TRUE
  /\ strategy = "file" /\ valid = TRUE
  /\ worker = "wait" /\ local = <<>> /\ using = "file"
  /\ \E script \in Scripts :
       thread = [t \in Threads |-> [ops |-> script[t], pc |-> "call", due |-> 0]]
  /\ life = "alive"

-----------------------------------------------------------------------------
(* m_cv: the work thread sleeps in its timed wait or, after a flush, in an  *)
(* untimed one; readers sleep in WaitFlush.                                 *)

Woken(pc) == IF pc = "asleep" THEN "wait" ELSE IF pc = "flushed" THEN "flushWait" ELSE pc
WokenThread(rec) == IF rec.pc = "asleep" THEN [rec EXCEPT !.pc = "wait"] ELSE rec

Readers == {t \in Threads : thread[t].pc = "asleep"}

(* Pushing messages notifies one sleeper, whoever it is, if the queue is    *)
(* long enough; pc and recs are where the threads are otherwise.            *)
Push(msgs, pc, recs) ==
  /\ queue' = queue \o msgs
  /\ accepted' = accepted \o msgs
  /\ \/ /\ Len(queue') < Batch \/ (pc \notin {"asleep", "flushed"} /\ Readers = {})
        /\ worker' = pc /\ thread' = recs
     \/ /\ Len(queue') >= Batch /\ pc \in {"asleep", "flushed"}
        /\ worker' = Woken(pc) /\ thread' = recs
     \/ /\ Len(queue') >= Batch
        /\ \E t \in Readers : thread' = [recs EXCEPT ![t] = WokenThread(@)]
        /\ worker' = pc

-----------------------------------------------------------------------------
(* WorkQueue.                                                               *)

BatchDue == Len(queue) >= Batch \/ flush \/ ~running

(* Mutant: the empty queue is always waited for, stopped or not.            *)
TakeQueueForever ==
  /\ IF queue = <<>>
     THEN worker' = "wait" /\ UNCHANGED <<queue, local>>
     ELSE /\ local' = queue /\ queue' = <<>>
          /\ worker' = "pick"

(* Once past the waits: go round again, leave, or take the whole queue.     *)
TakeQueue ==
  /\ IF queue = <<>>
     THEN /\ worker' = IF running THEN "wait" ELSE "done"
          /\ UNCHANGED <<queue, local>>
     ELSE /\ local' = queue /\ queue' = <<>>
          /\ worker' = "pick"

(* Mutant: the confirmation does not wake the reader.                       *)
ProceedQuietly ==
  /\ IF flush /\ queue = <<>>
     THEN /\ flushed' = TRUE
          /\ IF running
             THEN worker' = "flushed" /\ UNCHANGED <<queue, local>>
             ELSE TakeQueue
     ELSE TakeQueue /\ UNCHANGED flushed
  /\ UNCHANGED <<thread, flush, running, strategy, valid, using, life, accepted, written>>

(* Past the timed wait. A flush of the empty queue is confirmed at once,    *)
(* and the work thread waits until the reader has seen it.                  *)
Proceed ==
  /\ IF flush /\ queue = <<>>
     THEN /\ flushed' = TRUE
          /\ thread' = [t \in Threads |-> WokenThread(thread[t])]
          /\ IF running
             THEN worker' = "flushed" /\ UNCHANGED <<queue, local>>
             ELSE TakeQueue
     ELSE TakeQueue /\ UNCHANGED <<flushed, thread>>
  /\ UNCHANGED <<flush, running, strategy, valid, using, life, accepted, written>>

Await ==
  /\ worker = "wait"
  /\ IF BatchDue
     THEN Proceed
     ELSE worker' = "asleep" /\ UNCHANGED <<queue, flush, flushed, running, strategy, valid, local, using,
                                            thread, life, accepted, written>>

(* Mutant: a timeout does not take what is there.                           *)
TimeoutGoesRound ==
  /\ worker = "asleep" /\ worker' = "wait"
  /\ UNCHANGED <<queue, flush, flushed, running, strategy, valid, local, using, thread, life, accepted, written>>

Timeout == worker = "asleep" /\ Proceed

AwaitReader ==
  /\ worker = "flushWait"
  /\ IF ~flush \/ queue # <<>> \/ ~running
     THEN TakeQueue
     ELSE worker' = "flushed" /\ UNCHANGED <<queue, local>>
  /\ UNCHANGED <<flush, flushed, running, strategy, valid, using, thread, life, accepted, written>>

(* The file failed: fall back to the console and report it, twice, in the   *)
(* queue itself; Log takes nothing more once the destructor has run.        *)
FallBack ==
  /\ strategy' = "console" /\ using' = "console"
  /\ IF running
     THEN Push(<<Sys, Sys>>, "write", thread)
     ELSE worker' = "write" /\ UNCHANGED <<queue, accepted, thread>>

PickStrategy ==
  /\ worker = "pick"
  /\ IF strategy = "file" /\ ~valid
     THEN FallBack
     ELSE /\ using' = strategy
          /\ worker' = "write"
          /\ UNCHANGED <<queue, accepted, thread, strategy>>
  /\ UNCHANGED <<flush, flushed, running, valid, local, life, written>>

(* Mutant: the message is popped before its write is known to be good.      *)
WritePopsFirst ==
  /\ worker = "write" /\ local # <<>>
  /\ \/ /\ using = "console" \/ valid
        /\ written' = Append(written, Head(local)) /\ local' = Tail(local)
        /\ UNCHANGED <<queue, accepted, thread, strategy, using, valid, worker>>
     \/ /\ using = "file" /\ (~valid \/ "rotation" \in Faults)
        /\ valid' = FALSE
        /\ FallBack
        /\ local' = Tail(local)
        /\ UNCHANGED written
  /\ UNCHANGED <<flush, flushed, running, life>>

(* Write a message. A rotation that fails is noticed and the message tried  *)
(* again on the console. What becomes of the stream while it takes the      *)
(* message is not looked at: if it broke, the next message finds out.       *)
Write ==
  /\ worker = "write" /\ local # <<>>
  /\ \/ /\ using = "console" \/ valid
        /\ written' = Append(written, Head(local)) /\ local' = Tail(local)
        /\ UNCHANGED valid \/ (using = "file" /\ "stream" \in Faults /\ valid' = FALSE)
        /\ UNCHANGED <<queue, accepted, thread, strategy, using, worker>>
     \/ /\ using = "file" /\ (~valid \/ "rotation" \in Faults)
        /\ valid' = FALSE
        /\ FallBack
        /\ UNCHANGED <<local, written>>
  /\ UNCHANGED <<flush, flushed, running, life>>

(* Mutant: the flush is confirmed although there are new messages.          *)
ConfirmUnlessRead ==
  /\ worker = "write" /\ local = <<>>
  /\ worker' = "wait"
  /\ IF flush
     THEN flushed' = TRUE /\ thread' = [t \in Threads |-> WokenThread(thread[t])]
     ELSE UNCHANGED <<flushed, thread>>
  /\ UNCHANGED <<queue, flush, running, strategy, valid, local, using, life, accepted, written>>

Confirm ==
  /\ worker = "write" /\ local = <<>>
  /\ worker' = "wait"
  /\ IF flush /\ queue = <<>>
     THEN flushed' = TRUE /\ thread' = [t \in Threads |-> WokenThread(thread[t])]
     ELSE UNCHANGED <<flushed, thread>>
  /\ UNCHANGED <<queue, flush, running, strategy, valid, local, using, life, accepted, written>>

WorkQueue == Await \/ Timeout \/ AwaitReader \/ PickStrategy \/ Write \/ Confirm

-----------------------------------------------------------------------------
Calls(t, op) == thread[t].pc = "call" /\ thread[t].ops # <<>> /\ Head(thread[t].ops) = op
Returned(t) == [thread[t] EXCEPT !.ops = Tail(@), !.pc = "call"]

Log(t) ==
  /\ Calls(t, "log")
  /\ Push(<<[from |-> t, n |-> Len(thread[t].ops)]>>, worker, [thread EXCEPT ![t] = Returned(t)])
  /\ UNCHANGED <<flush, flushed, running, strategy, valid, local, using, life, written>>

(* set_strategy with a new file, or with one that cannot be opened.         *)
SetStrategy(t) ==
  /\ Calls(t, "set_strategy")
  /\ \/ /\ strategy' = "file" /\ valid' = TRUE
        /\ Push(<<Sys>>, worker, [thread EXCEPT ![t] = Returned(t)])
     \/ /\ Faults # {}
        /\ strategy' = "console" /\ UNCHANGED valid
        /\ Push(<<Sys, Sys>>, worker, [thread EXCEPT ![t] = Returned(t)])
  /\ UNCHANGED <<flush, flushed, running, local, using, life, written>>

FlushSeen == (queue = <<>> /\ flushed) \/ ~running

(* WaitFlush returns when the flush is confirmed, or waits for a notify.    *)
AfterNotify(t, rec) ==
  IF FlushSeen
  THEN /\ flush' = FALSE /\ flushed' = FALSE
       /\ thread' = [u \in Threads |-> IF u = t THEN Returned(t) ELSE WokenThread(thread[u])]
  ELSE /\ flush' = TRUE /\ UNCHANGED flushed
       /\ thread' = [u \in Threads |-> IF u = t THEN rec ELSE WokenThread(thread[u])]

(* Read and Search begin with WaitFlush, which notifies all the waiters.    *)
Read(t) ==
  /\ Calls(t, "read")
  /\ AfterNotify(t, [thread[t] EXCEPT !.pc = "asleep", !.due = Len(accepted)])
  /\ worker' = Woken(worker)
  /\ UNCHANGED <<queue, running, strategy, valid, local, using, life, accepted, written>>

ReadGoesOn(t) ==
  /\ thread[t].pc = "wait"
  /\ IF FlushSeen
     THEN AfterNotify(t, thread[t]) /\ worker' = Woken(worker)
     ELSE /\ thread' = [thread EXCEPT ![t].pc = "asleep"]
          /\ UNCHANGED <<flush, flushed, worker>>
  /\ UNCHANGED <<queue, running, strategy, valid, local, using, life, accepted, written>>

Call(t) == Log(t) \/ SetStrategy(t) \/ Read(t) \/ ReadGoesOn(t)

-----------------------------------------------------------------------------
(* The destructor, when no thread uses the logger any more.                 *)

DestructorLog ==
  /\ life = "alive"
  /\ \A t \in Threads : thread[t].ops = <<>>
  /\ life' = "stopping"
  /\ Push(<<Sys>>, worker, thread)
  /\ UNCHANGED <<flush, flushed, running, strategy, valid, local, using, written>>

DestructorStop ==
  /\ life = "stopping" /\ running
  /\ running' = FALSE
  /\ worker' = Woken(worker)
  /\ thread' = [t \in Threads |-> WokenThread(thread[t])]
  /\ UNCHANGED <<queue, flush, flushed, strategy, valid, local, using, life, accepted, written>>

DestructorJoin ==
  /\ life = "stopping" /\ worker = "done"
  /\ life' = "gone"
  /\ UNCHANGED <<queue, flush, flushed, running, strategy, valid, worker, local, using, thread,
                 accepted, written>>

Destructor == DestructorLog \/ DestructorStop \/ DestructorJoin

(* A condition variable may wake its waiters for no reason.                 *)
Spurious ==
  /\ \/ worker' = Woken(worker) /\ worker' # worker /\ UNCHANGED thread
     \/ \E t \in Readers : thread' = [thread EXCEPT ![t].pc = "wait"] /\ UNCHANGED worker
  /\ UNCHANGED <<queue, flush, flushed, running, strategy, valid, local, using, life, accepted, written>>

Next == WorkQueue \/ (\E t \in Threads : Call(t)) \/ Destructor \/ Spurious

(* The work thread, its timeout included, the callers and a destructor that *)
(* has begun go on when they can; nothing is assumed of spurious wake-ups,  *)
(* nor that the logger is ever destroyed. The deadline of the timed wait is *)
(* fixed when it begins: wake-ups do not put the timeout off.               *)
Fairness ==
  /\ WF_vars(WorkQueue) /\ SF_vars(Timeout)
  /\ WF_vars(DestructorStop \/ DestructorJoin)
  /\ \A t \in Threads : WF_vars(Call(t))

Spec == Init /\ [][Next]_vars /\ Fairness

-----------------------------------------------------------------------------
Messages == {Sys} \cup [from : Threads, n : Nat]

(* Types; a flush is confirmed only while it is asked for, and the work     *)
(* thread has left only after the destructor and an empty queue.            *)
TypeOK ==
  /\ queue \in Seq(Messages) /\ local \in Seq(Messages)
  /\ accepted \in Seq(Messages) /\ written \in Seq(Messages)
  /\ flush \in BOOLEAN /\ flushed \in BOOLEAN /\ running \in BOOLEAN /\ valid \in BOOLEAN
  /\ strategy \in {"file", "console"} /\ using \in {"file", "console"}
  /\ worker \in {"wait", "asleep", "flushWait", "flushed", "pick", "write", "done"}
  /\ thread \in [Threads -> [ops : Seq(Ops), pc : {"call", "asleep", "wait"}, due : Nat]]
  /\ life \in {"alive", "stopping", "gone"}
  /\ flushed => flush
  /\ worker = "done" => ~running /\ queue = <<>>

(* No message is lost, duplicated or overtaken between Log and the strategy *)
(* that stores it, whatever happens to the file meanwhile: they have all    *)
(* been given to the strategy's stream, or are in the batch being written   *)
(* or in the queue, in the order they came.                                 *)
NothingLost == accepted = written \o local \o queue

(* The destructor, once called, returns.                                    *)
DestructorReturns == (life = "stopping") ~> (life = "gone")

Readerless == \A t \in Threads : \A i \in DOMAIN thread[t].ops : thread[t].ops[i] # "read"
Alone(t) == \A u \in Threads \ {t} : thread[u].ops = <<>>

(* A message reaches the storage without anyone asking for it: where nobody *)
(* reads, the timeout or the next full batch takes it.                      *)
LogsReachStorage ==
  []Readerless => \A k \in 1..(2 * Batch) : (Len(accepted) >= k) ~> (Len(written) >= k)

(* Read and Search see every message that was logged before they began:     *)
(* WaitFlush returns only when those are in the storage.                    *)
FlushCovers ==
  [][\A t \in Threads :
       (thread[t].ops # <<>> /\ Head(thread[t].ops) = "read" /\ thread'[t].ops # thread[t].ops)
         => Len(written) >= IF thread[t].pc = "call" THEN Len(accepted) ELSE thread[t].due]_vars

(* Read and Search return to a thread that has the logger to itself and     *)
(* logs between its reads.                                                  *)
LoneReadReturns ==
  \A t \in Threads : []Alone(t) => ((thread[t].pc = "asleep") ~> (thread[t].pc = "call"))

(* Read and Search return, whoever else uses the logger.                    *)
ReadReturns ==
  \A t \in Threads : (thread[t].pc = "asleep") ~> (thread[t].pc = "call")
=============================================================================
