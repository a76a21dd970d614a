---------------------------- MODULE CommandQueue ----------------------------
(***************************************************************************)
(* CommandQueue of the mail client: the front end pushes, the worker thread *)
(* pops. push and stop change the state under the mutex and notify after   *)
(* unlocking it, so the notification is a step of its own; the pushing     *)
(* thread does nothing else before it.                                     *)
(***************************************************************************)
EXTENDS Naturals, Sequences

VARIABLES
  queue,      \* m_queue
  m_stopped,
  notifying,  \* the front end is between unlock and notify
  asleep      \* the worker waits on m_condition

queueVars == <<queue, m_stopped, notifying, asleep>>

QueueInit == queue = <<>> /\ m_stopped = FALSE /\ notifying = FALSE /\ asleep = FALSE

push(c) ==
  /\ ~notifying
  /\ queue' = Append(queue, c)
  /\ notifying' = TRUE
  /\ UNCHANGED <<m_stopped, asleep>>

stopQueue ==
  /\ ~notifying
  /\ m_stopped' = TRUE
  /\ notifying' = TRUE
  /\ UNCHANGED <<queue, asleep>>

(* notify_one and notify_all: there is one consumer.                        *)
notify ==
  /\ notifying
  /\ notifying' = FALSE
  /\ asleep' = FALSE
  /\ UNCHANGED <<queue, m_stopped>>

(* pop: the predicate is tested under the mutex; a thread that wakes tests  *)
(* it again.                                                                *)
popWaits ==
  /\ ~asleep /\ queue = <<>> /\ ~m_stopped
  /\ asleep' = TRUE
  /\ UNCHANGED <<queue, m_stopped, notifying>>

popTakes ==
  /\ ~asleep /\ queue # <<>>
  /\ queue' = Tail(queue)
  /\ UNCHANGED <<m_stopped, notifying, asleep>>

popEnds == ~asleep /\ queue = <<>> /\ m_stopped /\ UNCHANGED queueVars
=============================================================================
