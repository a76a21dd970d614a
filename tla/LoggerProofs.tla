---------------------------- MODULE LoggerProofs ----------------------------
(***************************************************************************)
(* Proofs about Logger, for any threads, calls, batch size and faults.     *)
(*                                                                         *)
(* NothingLost needs that the work thread holds messages only between      *)
(* taking the queue and writing the last of them, and that no thread logs  *)
(* after the destructor has begun. FlushCovers needs one reading thread:   *)
(* a second one may be handed the confirmation meant for the first.        *)
(***************************************************************************)
EXTENDS Logger, SequenceTheorems, TLAPS

Records == [ops : Seq(Ops), pc : {"call", "asleep", "wait"}, due : Nat]
Steps == {"wait", "asleep", "flushWait", "flushed", "pick", "write", "done"}

HoldsBatch == worker \notin {"pick", "write"} => local = <<>>
CallsLeft == \A t \in Threads : thread[t].pc # "call" => thread[t].ops # <<>>
NoneAfterDestructor ==
  /\ life = "alive" => running
  /\ life # "alive" => \A t \in Threads : thread[t].ops = <<>>

LoggerInv == TypeOK /\ NothingLost /\ HoldsBatch /\ CallsLeft /\ NoneAfterDestructor

(* What waking threads up leaves of their calls.                            *)
SameCall(new, old) ==
  /\ new \in Records
  /\ new.ops = old.ops /\ new.due = old.due
  /\ new.pc = "call" <=> old.pc = "call"

SameCalls == DOMAIN thread' = Threads /\ \A t \in Threads : SameCall(thread'[t], thread[t])

-----------------------------------------------------------------------------
(* Sequences of messages.                                                   *)

LEMMA QueueTaken ==
  ASSUME NEW S, NEW a \in Seq(S), NEW c \in Seq(S)
  PROVE  a \o <<>> \o c = a \o c \o <<>>
<1>1. a \o c \in Seq(S)
  BY ConcatProperties
<1>2. QED
  BY <1>1, ConcatEmptySeq

LEMMA HeadWritten ==
  ASSUME NEW a \in Seq(Messages), NEW b \in Seq(Messages), b # <<>>, NEW c \in Seq(Messages)
  PROVE  a \o b \o c = Append(a, Head(b)) \o Tail(b) \o c
<1>1. Head(b) \in Messages /\ Tail(b) \in Seq(Messages)
  BY HeadTailProperties
<1>2. <<Head(b)>> \in Seq(Messages)
  BY <1>1
<1>3. b = <<Head(b)>> \o Tail(b)
  <2>1. b = SubSeq(b, 1, Len(b)) /\ Len(b) \in Nat \ {0}
    BY SubSeqFull, EmptySeq
  <2>2. SubSeq(b, 1, Len(b)) = <<b[1]>> \o SubSeq(b, 2, Len(b))
    BY <2>1, SubSeqRecursiveFirst
  <2>3. Head(b) = b[1]
    BY <2>1
  <2>4. QED
    BY <2>1, <2>2, <2>3, TailIsSubSeq
<1>4. Append(a, Head(b)) = a \o <<Head(b)>>
  BY <1>1, AppendIsConcat
<1>5. a \o (<<Head(b)>> \o Tail(b)) = (a \o <<Head(b)>>) \o Tail(b)
  BY <1>1, <1>2, ConcatAssociative
<1>6. QED
  BY <1>3, <1>4, <1>5

-----------------------------------------------------------------------------
LEMMA WokenThreadKeeps ==
  ASSUME NEW rec \in Records
  PROVE  SameCall(WokenThread(rec), rec)
BY DEF SameCall, WokenThread, Records

LEMMA WokenKeeps ==
  ASSUME NEW pc \in Steps
  PROVE  /\ Woken(pc) \in Steps
         /\ Woken(pc) \in {"pick", "write"} <=> pc \in {"pick", "write"}
         /\ Woken(pc) = "done" <=> pc = "done"
BY DEF Woken, Steps

LEMMA PushKeeps ==
  ASSUME NEW msgs \in Seq(Messages), NEW pc \in Steps, NEW recs \in [Threads -> Records],
         TypeOK, Push(msgs, pc, recs)
  PROVE  /\ queue' = queue \o msgs /\ accepted' = accepted \o msgs
         /\ queue' \in Seq(Messages) /\ accepted' \in Seq(Messages)
         /\ worker' \in Steps
         /\ worker' \in {"pick", "write"} <=> pc \in {"pick", "write"}
         /\ worker' = "done" <=> pc = "done"
         /\ thread' \in [Threads -> Records]
         /\ \A t \in Threads : SameCall(thread'[t], recs[t])
<1>1. queue' = queue \o msgs /\ accepted' = accepted \o msgs
  BY DEF Push
<1>2. queue' \in Seq(Messages) /\ accepted' \in Seq(Messages)
  BY <1>1, ConcatProperties DEF TypeOK
<1>3. worker' = pc \/ worker' = Woken(pc)
  BY DEF Push
<1>4. \/ thread' = recs
      \/ \E t \in Threads : thread' = [recs EXCEPT ![t] = WokenThread(@)]
  BY DEF Push, Readers
<1>5. \A t \in Threads : recs[t] \in Records /\ SameCall(recs[t], recs[t])
  BY DEF SameCall
<1>6. \A t \in Threads : SameCall(WokenThread(recs[t]), recs[t]) /\ WokenThread(recs[t]) \in Records
  BY <1>5, WokenThreadKeeps DEF SameCall
<1>7. thread' \in [Threads -> Records]
  BY <1>4, <1>6
<1>8. \A t \in Threads : SameCall(thread'[t], recs[t])
  BY <1>4, <1>5, <1>6
<1>9. QED
  BY <1>1, <1>2, <1>3, <1>7, <1>8, WokenKeeps

LEMMA PushLosesNothing ==
  ASSUME LoggerInv, NEW msgs \in Seq(Messages), queue' = queue \o msgs,
         accepted' = accepted \o msgs, UNCHANGED <<local, written>>
  PROVE  NothingLost'
<1>1. written \in Seq(Messages) /\ local \in Seq(Messages) /\ queue \in Seq(Messages)
  BY DEF LoggerInv, TypeOK
<1>2. written \o local \in Seq(Messages)
  BY <1>1, ConcatProperties
<1>3. \A a, b, c \in Seq(Messages) : (a \o b) \o c = a \o (b \o c)
  BY ConcatAssociative
<1>4. ((written \o local) \o queue) \o msgs = (written \o local) \o (queue \o msgs)
  BY <1>1, <1>2, <1>3, Zenon
<1>5. QED
  BY <1>4 DEF LoggerInv, NothingLost

LEMMA ThreadsKept ==
  ASSUME LoggerInv, thread' \in [Threads -> Records], SameCalls, UNCHANGED <<life, running>>
  PROVE  CallsLeft' /\ NoneAfterDestructor'
<1>1. \A t \in Threads : thread'[t].ops = thread[t].ops /\ (thread'[t].pc = "call" <=> thread[t].pc = "call")
  BY DEF SameCalls, SameCall
<1>2. QED
  BY <1>1 DEF LoggerInv, CallsLeft, NoneAfterDestructor

(* The threads a notify_all reaches.                                        *)
LEMMA AllWoken ==
  ASSUME LoggerInv, thread' = [t \in Threads |-> WokenThread(thread[t])]
  PROVE  thread' \in [Threads -> Records] /\ SameCalls
<1>1. \A t \in Threads : thread[t] \in Records
  BY DEF LoggerInv, TypeOK, Records
<1>2. \A t \in Threads : SameCall(WokenThread(thread[t]), thread[t]) /\ WokenThread(thread[t]) \in Records
  BY <1>1, WokenThreadKeeps DEF SameCall
<1>3. QED
  BY <1>2 DEF SameCalls

LEMMA NobodyWoken ==
  ASSUME LoggerInv, UNCHANGED thread
  PROVE  thread' \in [Threads -> Records] /\ SameCalls
<1>1. thread \in [Threads -> Records]
  BY DEF LoggerInv, TypeOK, Records
<1>2. QED
  BY <1>1 DEF SameCalls, SameCall

-----------------------------------------------------------------------------
(* The work thread.                                                         *)

LEMMA TakeQueueKeeps ==
  ASSUME LoggerInv, worker \notin {"pick", "write"}, TakeQueue, UNCHANGED <<written, accepted, running>>
  PROVE  /\ queue' \in Seq(Messages) /\ local' \in Seq(Messages)
         /\ NothingLost' /\ HoldsBatch'
         /\ worker' \in Steps /\ (worker' = "done" => ~running' /\ queue' = <<>>)
<1>1. queue \in Seq(Messages) /\ written \in Seq(Messages) /\ <<>> \in Seq(Messages) /\ running \in BOOLEAN
  BY EmptySeq DEF LoggerInv, TypeOK
<1>2. local = <<>> /\ accepted = written \o <<>> \o queue
  BY DEF LoggerInv, HoldsBatch, NothingLost
<1>3. CASE queue = <<>>
  BY <1>1, <1>2, <1>3 DEF TakeQueue, NothingLost, HoldsBatch, Steps
<1>4. CASE queue # <<>>
  <2>1. local' = queue /\ queue' = <<>> /\ worker' = "pick"
    BY <1>4 DEF TakeQueue
  <2>2. NothingLost'
    BY <1>1, <1>2, <2>1, QueueTaken DEF NothingLost
  <2>3. QED
    BY <1>1, <2>1, <2>2 DEF HoldsBatch, Steps
<1>5. QED
  BY <1>3, <1>4

LEMMA TypeFrom ==
  ASSUME LoggerInv, queue' \in Seq(Messages), local' \in Seq(Messages),
         accepted' \in Seq(Messages), written' \in Seq(Messages),
         flush' \in BOOLEAN, flushed' \in BOOLEAN, running' \in BOOLEAN, valid' \in BOOLEAN,
         strategy' \in {"file", "console"}, using' \in {"file", "console"},
         worker' \in Steps, thread' \in [Threads -> Records], life' \in {"alive", "stopping", "gone"},
         flushed' => flush', worker' = "done" => ~running' /\ queue' = <<>>
  PROVE  TypeOK'
BY DEF TypeOK, Steps, Records

LEMMA ProceedKeeps ==
  ASSUME LoggerInv, worker \in {"wait", "asleep"}, Proceed
  PROVE  LoggerInv'
<1>1. UNCHANGED <<flush, running, strategy, valid, using, life, accepted, written>>
  BY DEF Proceed
<1>2. \/ TakeQueue
      \/ running /\ worker' = "flushed" /\ UNCHANGED <<queue, local>>
  BY DEF Proceed
<1>3. \/ UNCHANGED thread
      \/ thread' = [t \in Threads |-> WokenThread(thread[t])]
  BY DEF Proceed
<1>4. flushed' = flushed \/ (flushed' = TRUE /\ flush)
  BY DEF Proceed
<1>5. thread' \in [Threads -> Records] /\ SameCalls
  BY <1>3, AllWoken, NobodyWoken
<1>6. CallsLeft' /\ NoneAfterDestructor'
  BY <1>1, <1>5, ThreadsKept
<1>7. /\ queue' \in Seq(Messages) /\ local' \in Seq(Messages)
      /\ NothingLost' /\ HoldsBatch'
      /\ worker' \in Steps /\ (worker' = "done" => ~running' /\ queue' = <<>>)
  <2>1. CASE TakeQueue
    BY <1>1, <2>1, TakeQueueKeeps
  <2>2. CASE running /\ worker' = "flushed" /\ UNCHANGED <<queue, local>>
    BY <1>1, <2>2 DEF LoggerInv, TypeOK, NothingLost, HoldsBatch, Steps
  <2>3. QED
    BY <1>2, <2>1, <2>2
<1>8. TypeOK'
  <2>1. flushed' \in BOOLEAN /\ (flushed' => flush')
    <3>1. flushed \in BOOLEAN /\ (flushed => flush) /\ flush' = flush
      BY <1>1 DEF LoggerInv, TypeOK
    <3>2. CASE flushed' = flushed
      BY <3>1, <3>2
    <3>3. CASE flushed' = TRUE /\ flush
      BY <3>1, <3>3
    <3>4. QED
      BY <1>4, <3>2, <3>3
  <2>2. QED
    BY <1>1, <1>5, <1>7, <2>1, TypeFrom DEF LoggerInv, TypeOK
<1>9. QED
  BY <1>6, <1>7, <1>8 DEF LoggerInv

LEMMA AwaitKeeps == ASSUME LoggerInv, Await PROVE LoggerInv'
<1>1. CASE BatchDue
  BY <1>1, ProceedKeeps DEF Await
<1>2. CASE ~BatchDue
  BY <1>2 DEF Await, LoggerInv, TypeOK, NothingLost, HoldsBatch, CallsLeft, NoneAfterDestructor
<1>3. QED
  BY <1>1, <1>2

LEMMA AwaitReaderKeeps == ASSUME LoggerInv, AwaitReader PROVE LoggerInv'
<1>1. UNCHANGED <<flush, flushed, running, strategy, valid, using, thread, life, accepted, written>>
  BY DEF AwaitReader
<1>2. thread' \in [Threads -> Records] /\ CallsLeft' /\ NoneAfterDestructor'
  BY <1>1, NobodyWoken, ThreadsKept
<1>3. /\ queue' \in Seq(Messages) /\ local' \in Seq(Messages)
      /\ NothingLost' /\ HoldsBatch'
      /\ worker' \in Steps /\ (worker' = "done" => ~running' /\ queue' = <<>>)
  <2>1. CASE TakeQueue
    BY <1>1, <2>1, TakeQueueKeeps DEF AwaitReader
  <2>2. CASE worker' = "flushed" /\ UNCHANGED <<queue, local>>
    BY <1>1, <2>2 DEF AwaitReader, LoggerInv, TypeOK, NothingLost, HoldsBatch, Steps
  <2>3. QED
    BY <2>1, <2>2 DEF AwaitReader
<1>4. TypeOK'
  BY <1>1, <1>2, <1>3, TypeFrom DEF LoggerInv, TypeOK
<1>5. QED
  BY <1>2, <1>3, <1>4 DEF LoggerInv

LEMMA SysIsMessage == <<Sys>> \in Seq(Messages) /\ <<Sys, Sys>> \in Seq(Messages)
<1>1. Sys \in Messages
  BY DEF Messages
<1>2. QED
  BY <1>1

LEMMA FallBackKeeps ==
  ASSUME LoggerInv, worker \in {"pick", "write"}, FallBack, valid' \in BOOLEAN,
         UNCHANGED <<flush, flushed, running, local, life, written>>
  PROVE  LoggerInv'
<1>1. CASE running
  <2>1. Push(<<Sys, Sys>>, "write", thread)
    BY <1>1 DEF FallBack
  <2>2. thread \in [Threads -> Records] /\ "write" \in Steps /\ TypeOK
    BY DEF LoggerInv, TypeOK, Records, Steps
  <2>3. /\ queue' = queue \o <<Sys, Sys>> /\ accepted' = accepted \o <<Sys, Sys>>
        /\ queue' \in Seq(Messages) /\ accepted' \in Seq(Messages)
        /\ worker' \in Steps /\ worker' # "done" /\ worker' \in {"pick", "write"}
        /\ thread' \in [Threads -> Records]
        /\ \A t \in Threads : SameCall(thread'[t], thread[t])
    BY <2>1, <2>2, SysIsMessage, PushKeeps
  <2>4. NothingLost'
    BY <2>3, SysIsMessage, PushLosesNothing
  <2>5. CallsLeft' /\ NoneAfterDestructor'
    BY <2>3, ThreadsKept DEF SameCalls
  <2>6. HoldsBatch'
    BY <2>3 DEF HoldsBatch
  <2>7. TypeOK'
    BY <2>3, TypeFrom DEF LoggerInv, TypeOK, FallBack
  <2>8. QED
    BY <2>4, <2>5, <2>6, <2>7 DEF LoggerInv
<1>2. CASE ~running
  BY <1>2 DEF FallBack, LoggerInv, TypeOK, NothingLost, HoldsBatch, CallsLeft, NoneAfterDestructor
<1>3. QED
  BY <1>1, <1>2

LEMMA PickKeeps == ASSUME LoggerInv, PickStrategy PROVE LoggerInv'
<1>1. CASE strategy = "file" /\ ~valid
  <2>1. valid' \in BOOLEAN
    BY DEF PickStrategy, LoggerInv, TypeOK
  <2>2. QED
    BY <1>1, <2>1, FallBackKeeps DEF PickStrategy
<1>2. CASE ~(strategy = "file" /\ ~valid)
  BY <1>2 DEF PickStrategy, LoggerInv, TypeOK, NothingLost, HoldsBatch, CallsLeft, NoneAfterDestructor
<1>3. QED
  BY <1>1, <1>2

LEMMA WriteKeeps == ASSUME LoggerInv, Write PROVE LoggerInv'
<1>1. CASE valid' = FALSE /\ FallBack /\ UNCHANGED <<local, written>>
  BY <1>1, FallBackKeeps DEF Write
<1>2. CASE /\ written' = Append(written, Head(local)) /\ local' = Tail(local)
           /\ UNCHANGED valid \/ valid' = FALSE
           /\ UNCHANGED <<queue, accepted, thread, strategy, using, worker>>
  <2>1. /\ local \in Seq(Messages) /\ local # <<>> /\ written \in Seq(Messages) /\ queue \in Seq(Messages)
        /\ worker = "write" /\ UNCHANGED <<flush, flushed, running, life>>
    BY DEF Write, LoggerInv, TypeOK
  <2>2. Head(local) \in Messages /\ Tail(local) \in Seq(Messages)
    BY <2>1, HeadTailProperties
  <2>3. Append(written, Head(local)) \in Seq(Messages)
    BY <2>1, <2>2, AppendProperties
  <2>4. NothingLost'
    <3>1. written \o local \o queue = Append(written, Head(local)) \o Tail(local) \o queue
      BY <2>1, HeadWritten
    <3>2. accepted = written \o local \o queue
      BY DEF LoggerInv, NothingLost
    <3>3. accepted' = Append(written, Head(local)) \o Tail(local) \o queue
      BY <1>2, <3>1, <3>2, Zenon
    <3>4. written' = Append(written, Head(local)) /\ local' = Tail(local) /\ queue' = queue
      BY <1>2
    <3>5. accepted' = written' \o local' \o queue'
      BY <3>3, <3>4, Zenon
    <3>6. QED
      BY <3>5 DEF NothingLost
  <2>5. valid' \in BOOLEAN
    BY <1>2 DEF LoggerInv, TypeOK
  <2>6. thread' \in [Threads -> Records] /\ SameCalls
    BY <1>2, NobodyWoken
  <2>7. CallsLeft' /\ NoneAfterDestructor'
    BY <2>1, <2>6, ThreadsKept
  <2>8. TypeOK'
    BY <1>2, <2>1, <2>2, <2>3, <2>5, <2>6, TypeFrom DEF LoggerInv, TypeOK, Steps
  <2>9. HoldsBatch'
    BY <1>2, <2>1 DEF HoldsBatch
  <2>10. QED
    BY <2>4, <2>7, <2>8, <2>9 DEF LoggerInv
<1>3. QED
  BY <1>1, <1>2 DEF Write

LEMMA ConfirmKeeps == ASSUME LoggerInv, Confirm PROVE LoggerInv'
<1>1. /\ UNCHANGED <<queue, flush, running, strategy, valid, local, using, life, accepted, written>>
      /\ local = <<>> /\ worker' = "wait"
  BY DEF Confirm
<1>2. UNCHANGED thread \/ thread' = [t \in Threads |-> WokenThread(thread[t])]
  BY DEF Confirm
<1>3. thread' \in [Threads -> Records] /\ SameCalls
  BY <1>2, AllWoken, NobodyWoken
<1>4. CallsLeft' /\ NoneAfterDestructor'
  BY <1>1, <1>3, ThreadsKept
<1>5. flushed' \in BOOLEAN /\ (flushed' => flush')
  <2>1. flushed \in BOOLEAN /\ (flushed => flush) /\ flush' = flush
    BY <1>1 DEF LoggerInv, TypeOK
  <2>2. flushed' = flushed \/ (flushed' = TRUE /\ flush)
    BY DEF Confirm
  <2>3. CASE flushed' = flushed
    BY <2>1, <2>3
  <2>4. CASE flushed' = TRUE /\ flush
    BY <2>1, <2>4
  <2>5. QED
    BY <2>2, <2>3, <2>4
<1>6. TypeOK'
  BY <1>1, <1>3, <1>5, TypeFrom DEF LoggerInv, TypeOK, Steps
<1>7. NothingLost' /\ HoldsBatch'
  BY <1>1 DEF LoggerInv, NothingLost, HoldsBatch
<1>8. QED
  BY <1>4, <1>6, <1>7 DEF LoggerInv

-----------------------------------------------------------------------------
(* The threads that use the logger.                                         *)

LEMMA CallerKnown ==
  ASSUME LoggerInv, NEW t \in Threads, thread[t].ops # <<>>
  PROVE  /\ life = "alive" /\ running /\ worker # "done"
         /\ thread[t] \in Records /\ Returned(t) \in Records
         /\ Returned(t).pc = "call" /\ Returned(t).ops = Tail(thread[t].ops)
         /\ Returned(t).due = thread[t].due
<1>1. life = "alive" /\ running
  BY DEF LoggerInv, NoneAfterDestructor
<1>2. worker # "done"
  BY <1>1 DEF LoggerInv, TypeOK
<1>3. thread[t] \in Records
  BY DEF LoggerInv, TypeOK, Records
<1>4. Tail(thread[t].ops) \in Seq(Ops)
  BY <1>3, HeadTailProperties DEF Records
<1>5. QED
  BY <1>1, <1>2, <1>3, <1>4 DEF Returned, Records

LEMMA CallPushes ==
  ASSUME LoggerInv, NEW t \in Threads, thread[t].pc = "call", thread[t].ops # <<>>,
         NEW msgs \in Seq(Messages), Push(msgs, worker, [thread EXCEPT ![t] = Returned(t)]),
         strategy' \in {"file", "console"}, valid' \in BOOLEAN,
         UNCHANGED <<flush, flushed, running, local, using, life, written>>
  PROVE  LoggerInv'
<1> DEFINE recs == [thread EXCEPT ![t] = Returned(t)]
<1>1. /\ life = "alive" /\ running /\ worker # "done" /\ Returned(t) \in Records
      /\ Returned(t).pc = "call"
  BY CallerKnown
<1>2. thread \in [Threads -> Records] /\ worker \in Steps /\ TypeOK
  BY DEF LoggerInv, TypeOK, Records, Steps
<1>3. /\ recs \in [Threads -> Records]
      /\ recs[t] = Returned(t) /\ \A u \in Threads \ {t} : recs[u] = thread[u]
  BY <1>1, <1>2
<1>4. Push(msgs, worker, recs)
  OBVIOUS
<1> HIDE DEF recs
<1>5. /\ queue' = queue \o msgs /\ accepted' = accepted \o msgs
      /\ queue' \in Seq(Messages) /\ accepted' \in Seq(Messages)
      /\ worker' \in Steps
      /\ worker' \in {"pick", "write"} <=> worker \in {"pick", "write"}
      /\ worker' = "done" <=> worker = "done"
      /\ thread' \in [Threads -> Records]
      /\ \A u \in Threads : SameCall(thread'[u], recs[u])
  BY <1>2, <1>3, <1>4, PushKeeps
<1>6. NothingLost'
  BY <1>5, PushLosesNothing
<1>7. HoldsBatch'
  BY <1>5 DEF LoggerInv, HoldsBatch
<1>8. CallsLeft'
  BY <1>1, <1>3, <1>5 DEF LoggerInv, CallsLeft, SameCall
<1>9. NoneAfterDestructor'
  BY <1>1 DEF NoneAfterDestructor
<1>10. TypeOK'
  BY <1>1, <1>5, TypeFrom DEF LoggerInv, TypeOK
<1>11. QED
  BY <1>6, <1>7, <1>8, <1>9, <1>10 DEF LoggerInv

LEMMA LogKeeps == ASSUME LoggerInv, NEW t \in Threads, Log(t) PROVE LoggerInv'
<1>1. thread[t].pc = "call" /\ thread[t].ops # <<>>
  BY DEF Log, Calls
<1>2. Len(thread[t].ops) \in Nat
  BY DEF LoggerInv, TypeOK
<1>3. <<[from |-> t, n |-> Len(thread[t].ops)]>> \in Seq(Messages)
  BY <1>2 DEF Messages
<1>4. strategy' \in {"file", "console"} /\ valid' \in BOOLEAN
  BY DEF Log, LoggerInv, TypeOK
<1>5. QED
  BY <1>1, <1>3, <1>4, CallPushes DEF Log

LEMMA SetStrategyKeeps == ASSUME LoggerInv, NEW t \in Threads, SetStrategy(t) PROVE LoggerInv'
<1>1. thread[t].pc = "call" /\ thread[t].ops # <<>>
  BY DEF SetStrategy, Calls
<1>2. strategy' \in {"file", "console"} /\ valid' \in BOOLEAN
  BY DEF SetStrategy, LoggerInv, TypeOK
<1>3. \E msgs \in Seq(Messages) : Push(msgs, worker, [thread EXCEPT ![t] = Returned(t)])
  BY SysIsMessage DEF SetStrategy
<1>4. QED
  BY <1>1, <1>2, <1>3, CallPushes DEF SetStrategy

LEMMA AfterNotifyKeeps ==
  ASSUME LoggerInv, NEW t \in Threads, thread[t].ops # <<>>, NEW rec \in Records,
         rec.ops = thread[t].ops, AfterNotify(t, rec), worker' = Woken(worker),
         UNCHANGED <<queue, running, strategy, valid, local, using, life, accepted, written>>
  PROVE  LoggerInv'
<1>1. /\ life = "alive" /\ running /\ worker # "done"
      /\ Returned(t) \in Records /\ Returned(t).pc = "call"
  BY CallerKnown
<1>2. \A u \in Threads : thread[u] \in Records
  BY DEF LoggerInv, TypeOK, Records
<1>3. \A u \in Threads : WokenThread(thread[u]) \in Records /\ SameCall(WokenThread(thread[u]), thread[u])
  BY <1>2, WokenThreadKeeps DEF SameCall
<1>4. \E r \in {rec, Returned(t)} :
         thread' = [u \in Threads |-> IF u = t THEN r ELSE WokenThread(thread[u])]
  BY DEF AfterNotify
<1>5. thread' \in [Threads -> Records]
  BY <1>1, <1>3, <1>4
<1>6. CallsLeft'
  BY <1>1, <1>3, <1>4 DEF LoggerInv, CallsLeft, SameCall
<1>7. NoneAfterDestructor'
  BY <1>1 DEF NoneAfterDestructor
<1>8. worker \in Steps
  BY DEF LoggerInv, TypeOK, Steps
<1>9. /\ worker' \in Steps /\ worker' # "done"
      /\ worker' \in {"pick", "write"} <=> worker \in {"pick", "write"}
  BY <1>1, <1>8, WokenKeeps
<1>10. NothingLost' /\ HoldsBatch'
  BY <1>9 DEF LoggerInv, NothingLost, HoldsBatch
<1>11. flush' \in BOOLEAN /\ flushed' \in BOOLEAN /\ (flushed' => flush')
  BY DEF AfterNotify, LoggerInv, TypeOK
<1>12. TypeOK'
  BY <1>5, <1>9, <1>11, TypeFrom DEF LoggerInv, TypeOK
<1>13. QED
  BY <1>6, <1>7, <1>10, <1>12 DEF LoggerInv

LEMMA ReadKeeps == ASSUME LoggerInv, NEW t \in Threads, Read(t) PROVE LoggerInv'
<1> DEFINE rec == [thread[t] EXCEPT !.pc = "asleep", !.due = Len(accepted)]
<1>1. thread[t].ops # <<>> /\ thread[t] \in Records
  BY CallerKnown DEF Read, Calls
<1>2. Len(accepted) \in Nat
  BY LenProperties DEF LoggerInv, TypeOK
<1>3. rec \in Records /\ rec.ops = thread[t].ops
  BY <1>1, <1>2 DEF Records
<1>4. AfterNotify(t, rec)
  BY DEF Read
<1> HIDE DEF rec
<1>5. QED
  BY <1>1, <1>3, <1>4, AfterNotifyKeeps DEF Read

LEMMA ReadGoesOnKeeps == ASSUME LoggerInv, NEW t \in Threads, ReadGoesOn(t) PROVE LoggerInv'
<1>1. thread[t].ops # <<>> /\ thread[t].pc = "wait"
  BY DEF ReadGoesOn, LoggerInv, CallsLeft
<1>2. thread[t] \in Records
  BY <1>1, CallerKnown
<1>3. CASE FlushSeen
  BY <1>1, <1>2, <1>3, AfterNotifyKeeps DEF ReadGoesOn
<1>4. CASE ~FlushSeen
  <2>1. /\ thread' = [thread EXCEPT ![t].pc = "asleep"]
        /\ UNCHANGED <<flush, flushed, worker, queue, running, strategy, valid, local, using, life,
                       accepted, written>>
    BY <1>4 DEF ReadGoesOn
  <2>2. thread \in [Threads -> Records]
    BY DEF LoggerInv, TypeOK, Records
  <2>3. [thread[t] EXCEPT !.pc = "asleep"] \in Records
    BY <1>2 DEF Records
  <2>4. thread' \in [Threads -> Records]
    BY <2>1, <2>2, <2>3
  <2>5. SameCalls
    BY <1>1, <1>2, <2>1, <2>2, <2>4 DEF SameCalls, SameCall, Records
  <2>6. CallsLeft' /\ NoneAfterDestructor'
    BY <2>1, <2>4, <2>5, ThreadsKept
  <2>7. TypeOK' /\ NothingLost' /\ HoldsBatch'
    BY <2>1, <2>4, TypeFrom DEF LoggerInv, TypeOK, NothingLost, HoldsBatch, Steps
  <2>8. QED
    BY <2>6, <2>7 DEF LoggerInv
<1>5. QED
  BY <1>3, <1>4

-----------------------------------------------------------------------------
(* The destructor and spurious wake-ups.                                    *)

LEMMA DestructorLogKeeps == ASSUME LoggerInv, DestructorLog PROVE LoggerInv'
<1>1. Push(<<Sys>>, worker, thread) /\ life' = "stopping"
      /\ UNCHANGED <<flush, flushed, running, strategy, valid, local, using, written>>
  BY DEF DestructorLog
<1>2. thread \in [Threads -> Records] /\ worker \in Steps /\ TypeOK
  BY DEF LoggerInv, TypeOK, Records, Steps
<1>3. worker # "done"
  BY DEF DestructorLog, LoggerInv, NoneAfterDestructor, TypeOK
<1>4. /\ queue' = queue \o <<Sys>> /\ accepted' = accepted \o <<Sys>>
      /\ queue' \in Seq(Messages) /\ accepted' \in Seq(Messages)
      /\ worker' \in Steps
      /\ worker' \in {"pick", "write"} <=> worker \in {"pick", "write"}
      /\ worker' = "done" <=> worker = "done"
      /\ thread' \in [Threads -> Records]
      /\ \A t \in Threads : SameCall(thread'[t], thread[t])
  BY <1>1, <1>2, SysIsMessage, PushKeeps
<1>5. NothingLost'
  BY <1>1, <1>4, SysIsMessage, PushLosesNothing
<1>6. HoldsBatch'
  BY <1>1, <1>4 DEF LoggerInv, HoldsBatch
<1>7. CallsLeft' /\ NoneAfterDestructor'
  BY <1>1, <1>4 DEF DestructorLog, LoggerInv, CallsLeft, NoneAfterDestructor, SameCall
<1>8. TypeOK'
  BY <1>1, <1>3, <1>4, TypeFrom DEF LoggerInv, TypeOK
<1>9. QED
  BY <1>5, <1>6, <1>7, <1>8 DEF LoggerInv

LEMMA DestructorStopKeeps == ASSUME LoggerInv, DestructorStop PROVE LoggerInv'
<1>1. thread' \in [Threads -> Records] /\ SameCalls
  BY AllWoken DEF DestructorStop
<1>2. \A t \in Threads : thread'[t].ops = thread[t].ops /\ (thread'[t].pc = "call" <=> thread[t].pc = "call")
  BY <1>1 DEF SameCalls, SameCall
<1>3. CallsLeft' /\ NoneAfterDestructor'
  BY <1>2 DEF DestructorStop, LoggerInv, CallsLeft, NoneAfterDestructor
<1>4. worker \in Steps /\ worker # "done"
  BY DEF DestructorStop, LoggerInv, TypeOK, Steps
<1>5. /\ worker' \in Steps /\ worker' # "done"
      /\ worker' \in {"pick", "write"} <=> worker \in {"pick", "write"}
  BY <1>4, WokenKeeps DEF DestructorStop
<1>6. NothingLost' /\ HoldsBatch'
  BY <1>5 DEF DestructorStop, LoggerInv, NothingLost, HoldsBatch
<1>7. TypeOK'
  BY <1>1, <1>5, TypeFrom DEF DestructorStop, LoggerInv, TypeOK
<1>8. QED
  BY <1>3, <1>6, <1>7 DEF LoggerInv

LEMMA DestructorJoinKeeps == ASSUME LoggerInv, DestructorJoin PROVE LoggerInv'
BY DEF DestructorJoin, LoggerInv, TypeOK, NothingLost, HoldsBatch, CallsLeft, NoneAfterDestructor

LEMMA SpuriousKeeps == ASSUME LoggerInv, Spurious PROVE LoggerInv'
<1>1. UNCHANGED <<queue, flush, flushed, running, strategy, valid, local, using, life, accepted, written>>
  BY DEF Spurious
<1>2. worker \in Steps /\ thread \in [Threads -> Records]
  BY DEF LoggerInv, TypeOK, Steps, Records
<1>3. /\ worker' \in Steps /\ (worker' = "done" <=> worker = "done")
      /\ worker' \in {"pick", "write"} <=> worker \in {"pick", "write"}
  BY <1>2, WokenKeeps DEF Spurious
<1>4. thread' \in [Threads -> Records] /\ SameCalls
  <2>1. CASE UNCHANGED thread
    BY <2>1, NobodyWoken
  <2>2. ASSUME NEW t \in Readers, thread' = [thread EXCEPT ![t].pc = "wait"]
        PROVE  thread' \in [Threads -> Records] /\ SameCalls
    <3>1. t \in Threads /\ thread[t] \in Records /\ thread[t].pc = "asleep"
      BY <1>2 DEF Readers
    <3>2. [thread[t] EXCEPT !.pc = "wait"] \in Records
      BY <3>1 DEF Records
    <3>3. thread' \in [Threads -> Records]
      BY <1>2, <2>2, <3>1, <3>2
    <3>4. QED
      BY <1>2, <2>2, <3>1, <3>3 DEF SameCalls, SameCall, Records
  <2>3. QED
    BY <2>1, <2>2 DEF Spurious
<1>5. CallsLeft' /\ NoneAfterDestructor'
  BY <1>1, <1>4, ThreadsKept
<1>6. TypeOK'
  BY <1>1, <1>3, <1>4, TypeFrom DEF LoggerInv, TypeOK
<1>7. NothingLost' /\ HoldsBatch'
  BY <1>1, <1>3 DEF LoggerInv, NothingLost, HoldsBatch
<1>8. QED
  BY <1>5, <1>6, <1>7 DEF LoggerInv

-----------------------------------------------------------------------------
LEMMA InitLoggerInv == Init => LoggerInv
<1> SUFFICES ASSUME Init PROVE LoggerInv
  OBVIOUS
<1>1. PICK script \in Scripts : thread = [t \in Threads |-> [ops |-> script[t], pc |-> "call", due |-> 0]]
  BY DEF Init
<1>2. \A t \in Threads : script[t] \in Seq(Ops)
  BY LoggerAssumption
<1>3. thread \in [Threads -> Records]
  BY <1>1, <1>2 DEF Records
<1>4. <<Sys, Sys>> \in Seq(Messages) /\ <<>> \in Seq(Messages)
  BY SysIsMessage, EmptySeq
<1>5. TypeOK
  BY <1>3, <1>4 DEF Init, TypeOK, Records
<1>6. NothingLost
  <2>1. <<>> \o <<>> \o <<Sys, Sys>> = <<Sys, Sys>>
    BY <1>4, ConcatEmptySeq
  <2>2. QED
    BY <2>1 DEF Init, NothingLost
<1>7. HoldsBatch /\ CallsLeft /\ NoneAfterDestructor
  BY <1>1 DEF Init, HoldsBatch, CallsLeft, NoneAfterDestructor
<1>8. QED
  BY <1>5, <1>6, <1>7 DEF LoggerInv

LEMMA StepLoggerInv == LoggerInv /\ [Next]_vars => LoggerInv'
<1> SUFFICES ASSUME LoggerInv, [Next]_vars PROVE LoggerInv'
  OBVIOUS
<1>1. CASE UNCHANGED vars
  BY <1>1 DEF vars, LoggerInv, TypeOK, NothingLost, HoldsBatch, CallsLeft, NoneAfterDestructor
<1>2. CASE WorkQueue
  <2>1. CASE Timeout
    BY <2>1, ProceedKeeps DEF Timeout
  <2>2. QED
    BY <1>2, <2>1, AwaitKeeps, AwaitReaderKeeps, PickKeeps, WriteKeeps, ConfirmKeeps DEF WorkQueue
<1>3. CASE \E t \in Threads : Call(t)
  BY <1>3, LogKeeps, SetStrategyKeeps, ReadKeeps, ReadGoesOnKeeps DEF Call
<1>4. CASE Destructor
  BY <1>4, DestructorLogKeeps, DestructorStopKeeps, DestructorJoinKeeps DEF Destructor
<1>5. CASE Spurious
  BY <1>5, SpuriousKeeps
<1>6. QED
  BY <1>1, <1>2, <1>3, <1>4, <1>5 DEF Next

LEMMA InvariantHolds == Spec => []LoggerInv
BY InitLoggerInv, StepLoggerInv, PTL DEF Spec

(* Every call and every step of WorkQueue keeps the types.                  *)
THEOREM LoggerTypes == Spec => []TypeOK
<1>1. LoggerInv => TypeOK
  BY DEF LoggerInv
<1>2. QED
  BY InvariantHolds, <1>1, PTL

(* Between Log and the strategy no message is lost, written twice or        *)
(* overtaken, for any number of threads and any batch size, whether the     *)
(* file fails, the strategy changes or the destructor runs meanwhile.       *)
THEOREM EveryMessageIsKept == Spec => []NothingLost
<1>1. LoggerInv => NothingLost
  BY DEF LoggerInv
<1>2. QED
  BY InvariantHolds, <1>1, PTL

-----------------------------------------------------------------------------
(* FlushCovers, where one thread reads.                                     *)

Reads(ops) == \E i \in 1..Len(ops) : ops[i] = "read"

OneReader ==
  \A script \in Scripts : \A t, u \in Threads : Reads(script[t]) /\ Reads(script[u]) => t = u

ReadInv ==
  /\ \A t \in Threads : thread[t].pc # "call" => Reads(thread[t].ops)
  /\ \A t, u \in Threads : Reads(thread[t].ops) /\ Reads(thread[u].ops) => t = u
  /\ flush => \E t \in Threads : thread[t].pc # "call"
  /\ \A t \in Threads : thread[t].pc # "call" => thread[t].due <= Len(accepted)
  /\ flushed => \A t \in Threads : thread[t].pc # "call" => thread[t].due <= Len(written)

(* A step in which no reader begins or returns, and which confirms a flush  *)
(* only when everything is written.                                         *)
Finished(new, old) ==
  /\ new.pc = "call" /\ old.pc = "call"
  /\ old.ops # <<>> /\ Head(old.ops) # "read" /\ new.ops = Tail(old.ops)

QuietThreads == \A t \in Threads : SameCall(thread'[t], thread[t]) \/ Finished(thread'[t], thread[t])

QuietStep ==
  /\ QuietThreads
  /\ flush' = flush
  /\ flushed' = flushed \/ (Len(written) = Len(accepted) /\ written' = written)
  /\ Len(written) <= Len(written') /\ Len(accepted) <= Len(accepted')

LEMMA TailReads ==
  ASSUME NEW ops \in Seq(Ops), ops # <<>>, Reads(Tail(ops))
  PROVE  Reads(ops)
<1>1. PICK i \in 1..Len(Tail(ops)) : Tail(ops)[i] = "read"
  BY DEF Reads
<1>2. Len(Tail(ops)) = Len(ops) - 1 /\ Tail(ops)[i] = ops[i + 1] /\ Len(ops) \in Nat
  BY HeadTailProperties, LenProperties
<1>3. i + 1 \in 1..Len(ops)
  BY <1>1, <1>2
<1>4. QED
  BY <1>1, <1>2, <1>3 DEF Reads

LEMMA HeadReads ==
  ASSUME NEW ops \in Seq(Ops), ops # <<>>, Head(ops) = "read"
  PROVE  Reads(ops)
<1>1. Len(ops) \in Nat \ {0} /\ ops[1] = "read"
  BY EmptySeq
<1>2. QED
  BY <1>1 DEF Reads

LEMMA LengthsKnown ==
  ASSUME LoggerInv
  PROVE  /\ Len(written) \in Nat /\ Len(accepted) \in Nat
         /\ \A t \in Threads : thread[t] \in Records /\ thread[t].due \in Nat
BY LenProperties DEF LoggerInv, TypeOK, Records

LEMMA QuietKeeps ==
  ASSUME LoggerInv, LoggerInv', ReadInv, QuietStep
  PROVE  ReadInv'
<1>1. /\ Len(written) \in Nat /\ Len(accepted) \in Nat
      /\ Len(written') \in Nat /\ Len(accepted') \in Nat
      /\ \A t \in Threads : thread[t].due \in Nat /\ thread[t].ops \in Seq(Ops)
  BY LengthsKnown, LenProperties DEF LoggerInv, TypeOK, Records
<1>2. ASSUME NEW t \in Threads
      PROVE  /\ thread'[t].pc = "call" <=> thread[t].pc = "call"
             /\ thread'[t].pc # "call" => thread'[t].ops = thread[t].ops /\ thread'[t].due = thread[t].due
             /\ Reads(thread'[t].ops) => Reads(thread[t].ops)
  <2>1. CASE SameCall(thread'[t], thread[t])
    BY <2>1 DEF SameCall
  <2>2. CASE Finished(thread'[t], thread[t])
    BY <1>1, <2>2, TailReads DEF Finished
  <2>3. QED
    BY <2>1, <2>2 DEF QuietStep, QuietThreads
<1>3. \A t \in Threads : thread'[t].pc # "call" => Reads(thread'[t].ops)
  BY <1>2 DEF ReadInv
<1>4. \A t, u \in Threads : Reads(thread'[t].ops) /\ Reads(thread'[u].ops) => t = u
  BY <1>2 DEF ReadInv
<1>5. flush' => \E t \in Threads : thread'[t].pc # "call"
  BY <1>2 DEF ReadInv, QuietStep
<1>6. \A t \in Threads : thread'[t].pc # "call" => thread'[t].due <= Len(accepted')
  BY <1>1, <1>2 DEF ReadInv, QuietStep
<1>7. flushed' => \A t \in Threads : thread'[t].pc # "call" => thread'[t].due <= Len(written')
  <2>1. CASE flushed' = flushed
    BY <1>1, <1>2, <2>1 DEF ReadInv, QuietStep
  <2>2. CASE Len(written) = Len(accepted) /\ written' = written
    BY <1>1, <1>2, <2>2 DEF ReadInv
  <2>3. QED
    BY <2>1, <2>2 DEF QuietStep
<1>8. QED
  BY <1>3, <1>4, <1>5, <1>6, <1>7 DEF ReadInv

(* A pushed message leaves the calls of the readers alone.                  *)
LEMMA PushQuiet ==
  ASSUME LoggerInv, NEW msgs \in Seq(Messages), NEW pc \in Steps, Push(msgs, pc, thread)
  PROVE  QuietThreads /\ Len(accepted) <= Len(accepted')
<1>1. thread \in [Threads -> Records] /\ TypeOK
  BY DEF LoggerInv, TypeOK, Records
<1>2. accepted' = accepted \o msgs /\ \A t \in Threads : SameCall(thread'[t], thread[t])
  BY <1>1, PushKeeps
<1>3. accepted \in Seq(Messages) /\ Len(accepted) \in Nat /\ Len(msgs) \in Nat
  BY LenProperties DEF LoggerInv, TypeOK
<1>4. Len(accepted') = Len(accepted) + Len(msgs)
  BY <1>2, <1>3, ConcatProperties
<1>5. QED
  BY <1>2, <1>3, <1>4 DEF QuietThreads

LEMMA AllWritten ==
  ASSUME LoggerInv, queue = <<>>, local = <<>>
  PROVE  Len(written) = Len(accepted)
<1>1. accepted = written \o <<>> \o <<>> /\ written \in Seq(Messages)
  BY DEF LoggerInv, NothingLost, TypeOK
<1>2. written \o <<>> = written
  BY <1>1, ConcatEmptySeq
<1>3. QED
  BY <1>1, <1>2

LEMMA SameCallsQuiet == ASSUME SameCalls PROVE QuietThreads
BY DEF SameCalls, QuietThreads

LEMMA ProceedQuiet == ASSUME LoggerInv, worker \in {"wait", "asleep"}, Proceed PROVE QuietStep
<1>1. UNCHANGED thread \/ thread' = [t \in Threads |-> WokenThread(thread[t])]
  BY DEF Proceed
<1>2. QuietThreads
  BY <1>1, AllWoken, NobodyWoken, SameCallsQuiet
<1>3. local = <<>>
  BY DEF LoggerInv, HoldsBatch
<1>4. flushed' = flushed \/ queue = <<>>
  BY DEF Proceed
<1>5. flush' = flush /\ written' = written /\ accepted' = accepted
  BY DEF Proceed
<1>6. QED
  BY <1>2, <1>3, <1>4, <1>5, AllWritten, LengthsKnown DEF QuietStep

LEMMA FallBackQuiet ==
  ASSUME LoggerInv, FallBack, UNCHANGED <<flush, flushed, written>>
  PROVE  QuietStep
<1>1. CASE running
  <2>1. Push(<<Sys, Sys>>, "write", thread) /\ "write" \in Steps
    BY <1>1 DEF FallBack, Steps
  <2>2. QuietThreads /\ Len(accepted) <= Len(accepted')
    BY <2>1, SysIsMessage, PushQuiet
  <2>3. QED
    BY <2>2, LengthsKnown DEF QuietStep
<1>2. CASE ~running
  BY <1>2, NobodyWoken, SameCallsQuiet, LengthsKnown DEF FallBack, QuietStep
<1>3. QED
  BY <1>1, <1>2

LEMMA WorkQuiet == ASSUME LoggerInv, WorkQueue PROVE QuietStep
<1>1. CASE Await
  <2>1. CASE BatchDue
    BY <1>1, <2>1, ProceedQuiet DEF Await
  <2>2. CASE ~BatchDue
    BY <1>1, <2>2, NobodyWoken, SameCallsQuiet, LengthsKnown DEF Await, QuietStep
  <2>3. QED
    BY <2>1, <2>2
<1>2. CASE Timeout
  BY <1>2, ProceedQuiet DEF Timeout
<1>3. CASE AwaitReader
  BY <1>3, NobodyWoken, SameCallsQuiet, LengthsKnown DEF AwaitReader, QuietStep
<1>4. CASE PickStrategy
  <2>1. CASE FallBack
    BY <1>4, <2>1, FallBackQuiet DEF PickStrategy
  <2>2. CASE UNCHANGED <<accepted, thread>>
    BY <1>4, <2>2, NobodyWoken, SameCallsQuiet, LengthsKnown DEF PickStrategy, QuietStep
  <2>3. QED
    BY <1>4, <2>1, <2>2 DEF PickStrategy
<1>5. CASE Write
  <2>1. CASE FallBack /\ UNCHANGED written
    BY <1>5, <2>1, FallBackQuiet DEF Write
  <2>2. CASE written' = Append(written, Head(local)) /\ UNCHANGED <<accepted, thread>>
    <3>1. Head(local) \in Messages /\ written \in Seq(Messages)
      BY <1>5, HeadTailProperties DEF Write, LoggerInv, TypeOK
    <3>2. Len(written') = Len(written) + 1
      BY <2>2, <3>1, AppendProperties
    <3>3. QED
      BY <1>5, <2>2, <3>2, NobodyWoken, SameCallsQuiet, LengthsKnown DEF Write, QuietStep
  <2>3. QED
    BY <1>5, <2>1, <2>2 DEF Write
<1>6. CASE Confirm
  <2>1. UNCHANGED thread \/ thread' = [t \in Threads |-> WokenThread(thread[t])]
    BY <1>6 DEF Confirm
  <2>2. QuietThreads
    BY <2>1, AllWoken, NobodyWoken, SameCallsQuiet
  <2>3. local = <<>> /\ (flushed' = flushed \/ queue = <<>>)
    BY <1>6 DEF Confirm
  <2>4. flush' = flush /\ written' = written /\ accepted' = accepted
    BY <1>6 DEF Confirm
  <2>5. QED
    BY <2>2, <2>3, <2>4, AllWritten, LengthsKnown DEF QuietStep
<1>7. QED
  BY <1>1, <1>2, <1>3, <1>4, <1>5, <1>6 DEF WorkQueue

LEMMA LogQuiet ==
  ASSUME LoggerInv, NEW t \in Threads, NEW op \in {"log", "set_strategy"}, Calls(t, op),
         NEW msgs \in Seq(Messages), Push(msgs, worker, [thread EXCEPT ![t] = Returned(t)]),
         UNCHANGED <<flush, flushed, written>>
  PROVE  QuietStep
<1> DEFINE recs == [thread EXCEPT ![t] = Returned(t)]
<1>1. thread[t].pc = "call" /\ thread[t].ops # <<>> /\ Head(thread[t].ops) # "read"
  BY DEF Calls
<1>2. Returned(t) \in Records /\ Returned(t).pc = "call" /\ Returned(t).ops = Tail(thread[t].ops)
  BY <1>1, CallerKnown
<1>3. thread \in [Threads -> Records] /\ worker \in Steps /\ TypeOK
  BY DEF LoggerInv, TypeOK, Records, Steps
<1>4. /\ recs \in [Threads -> Records]
      /\ recs[t] = Returned(t) /\ \A u \in Threads \ {t} : recs[u] = thread[u]
  BY <1>2, <1>3
<1>5. Push(msgs, worker, recs)
  OBVIOUS
<1> HIDE DEF recs
<1>6. accepted' = accepted \o msgs /\ \A u \in Threads : SameCall(thread'[u], recs[u])
  BY <1>3, <1>4, <1>5, PushKeeps
<1>7. Finished(thread'[t], thread[t])
  BY <1>1, <1>2, <1>4, <1>6 DEF Finished, SameCall
<1>8. QuietThreads
  BY <1>4, <1>6, <1>7 DEF QuietThreads
<1>9. accepted \in Seq(Messages) /\ Len(msgs) \in Nat
  BY LenProperties DEF LoggerInv, TypeOK
<1>10. Len(accepted') = Len(accepted) + Len(msgs)
  BY <1>6, <1>9, ConcatProperties
<1>11. QED
  BY <1>8, <1>9, <1>10, LengthsKnown DEF QuietStep

LEMMA DestructorQuiet == ASSUME LoggerInv, Destructor PROVE QuietStep
<1>1. CASE DestructorLog
  <2>1. worker \in Steps /\ Push(<<Sys>>, worker, thread)
    BY <1>1 DEF DestructorLog, LoggerInv, TypeOK, Steps
  <2>2. QuietThreads /\ Len(accepted) <= Len(accepted')
    BY <2>1, SysIsMessage, PushQuiet
  <2>3. QED
    BY <1>1, <2>2, LengthsKnown DEF DestructorLog, QuietStep
<1>2. CASE DestructorStop
  BY <1>2, AllWoken, SameCallsQuiet, LengthsKnown DEF DestructorStop, QuietStep
<1>3. CASE DestructorJoin
  BY <1>3, NobodyWoken, SameCallsQuiet, LengthsKnown DEF DestructorJoin, QuietStep
<1>4. QED
  BY <1>1, <1>2, <1>3 DEF Destructor

(* A reader that sleeps or wakes up, confirmed or not.                      *)
LEMMA ReaderMovesQuiet ==
  ASSUME LoggerInv, NEW t \in Threads, thread[t].pc # "call", NEW pc \in {"asleep", "wait"},
         thread' = [thread EXCEPT ![t].pc = pc], UNCHANGED <<flush, flushed, accepted, written>>
  PROVE  QuietStep
<1>1. thread \in [Threads -> Records]
  BY DEF LoggerInv, TypeOK, Records
<1>2. thread[t] \in Records /\ thread'[t] = [thread[t] EXCEPT !.pc = pc]
  BY <1>1
<1>3. SameCall(thread'[t], thread[t])
  BY <1>2 DEF SameCall, Records
<1>4. \A u \in Threads \ {t} : thread'[u] = thread[u] /\ thread[u] \in Records
  BY <1>1
<1>5. QuietThreads
  BY <1>3, <1>4 DEF QuietThreads, SameCall
<1>6. QED
  BY <1>5, LengthsKnown DEF QuietStep

LEMMA OthersWoken ==
  ASSUME LoggerInv, NEW t \in Threads, NEW r \in Records,
         thread' = [u \in Threads |-> IF u = t THEN r ELSE WokenThread(thread[u])]
  PROVE  thread'[t] = r /\ \A u \in Threads \ {t} : SameCall(thread'[u], thread[u])
<1>1. \A u \in Threads : thread[u] \in Records
  BY DEF LoggerInv, TypeOK, Records
<1>2. QED
  BY <1>1, WokenThreadKeeps

(* Read finds no confirmation: only its own request could have brought one. *)
LEMMA ReadWaits ==
  ASSUME LoggerInv, ReadInv, NEW t \in Threads, Read(t)
  PROVE  /\ ~FlushSeen /\ ~flush
         /\ Reads(thread[t].ops)
         /\ \A u \in Threads : thread[u].pc = "call"
<1>1. /\ thread[t].pc = "call" /\ thread[t].ops # <<>> /\ Head(thread[t].ops) = "read"
      /\ thread[t].ops \in Seq(Ops)
  BY DEF Read, Calls, LoggerInv, TypeOK
<1>2. Reads(thread[t].ops) /\ running
  BY <1>1, HeadReads, CallerKnown
<1>3. \A u \in Threads : thread[u].pc = "call"
  BY <1>1, <1>2 DEF ReadInv
<1>4. ~flush /\ ~flushed
  BY <1>3 DEF ReadInv, LoggerInv, TypeOK
<1>5. QED
  BY <1>2, <1>3, <1>4 DEF FlushSeen

LEMMA ReadBegins ==
  ASSUME LoggerInv, ReadInv, NEW t \in Threads, Read(t)
  PROVE  ReadInv' /\ thread'[t].ops = thread[t].ops
         /\ \A u \in Threads \ {t} : thread'[u].ops = thread[u].ops
<1> DEFINE rec == [thread[t] EXCEPT !.pc = "asleep", !.due = Len(accepted)]
<1>1. /\ ~FlushSeen /\ ~flush /\ Reads(thread[t].ops)
      /\ \A u \in Threads : thread[u].pc = "call"
  BY ReadWaits
<1>2. /\ flush' = TRUE /\ flushed' = flushed /\ accepted' = accepted /\ written' = written
      /\ thread' = [u \in Threads |-> IF u = t THEN rec ELSE WokenThread(thread[u])]
  BY <1>1 DEF Read, AfterNotify
<1>3. thread[t] \in Records /\ Len(accepted) \in Nat
  BY LengthsKnown
<1>4. rec \in Records /\ rec.ops = thread[t].ops /\ rec.pc = "asleep" /\ rec.due = Len(accepted)
  BY <1>3 DEF Records
<1>5. ~flushed
  BY <1>1 DEF LoggerInv, TypeOK
<1> HIDE DEF rec
<1>6. thread'[t] = rec /\ \A u \in Threads \ {t} : SameCall(thread'[u], thread[u])
  BY <1>2, <1>4, OthersWoken
<1>7. \A u \in Threads : thread'[u].ops = thread[u].ops
  BY <1>4, <1>6 DEF SameCall
<1>8. \A u \in Threads : thread'[u].pc # "call" => u = t
  BY <1>1, <1>6 DEF SameCall
<1>9. ReadInv'
  BY <1>1, <1>2, <1>3, <1>4, <1>5, <1>6, <1>7, <1>8 DEF ReadInv
<1>10. QED
  BY <1>7, <1>9

LEMMA ReadEnds ==
  ASSUME LoggerInv, ReadInv, NEW t \in Threads, ReadGoesOn(t), FlushSeen
  PROVE  /\ ReadInv' /\ thread[t].due <= Len(written)
         /\ \A u \in Threads \ {t} : thread'[u].ops = thread[u].ops
<1>1. thread[t].pc = "wait" /\ thread[t].ops # <<>> /\ thread[t].ops \in Seq(Ops)
  BY DEF ReadGoesOn, LoggerInv, CallsLeft, TypeOK
<1>2. /\ running /\ Returned(t) \in Records /\ Returned(t).pc = "call"
      /\ Returned(t).ops = Tail(thread[t].ops)
  BY <1>1, CallerKnown
<1>3. flushed
  BY <1>2 DEF FlushSeen
<1>4. thread[t].due <= Len(written)
  BY <1>1, <1>3 DEF ReadInv
<1>5. /\ flush' = FALSE /\ flushed' = FALSE /\ accepted' = accepted /\ written' = written
      /\ thread' = [u \in Threads |-> IF u = t THEN Returned(t) ELSE WokenThread(thread[u])]
  BY DEF ReadGoesOn, AfterNotify
<1>6. thread'[t] = Returned(t) /\ \A u \in Threads \ {t} : SameCall(thread'[u], thread[u])
  BY <1>2, <1>5, OthersWoken
<1>7. \A u \in Threads \ {t} :
         thread'[u].ops = thread[u].ops /\ thread'[u].due = thread[u].due
           /\ (thread'[u].pc = "call" <=> thread[u].pc = "call")
  BY <1>6 DEF SameCall
<1>8. \A u \in Threads : Reads(thread'[u].ops) => Reads(thread[u].ops)
  BY <1>1, <1>2, <1>6, <1>7, TailReads
<1>9. \A u \in Threads : thread'[u].pc = "call"
  BY <1>1, <1>2, <1>6, <1>7 DEF ReadInv
<1>10. ReadInv'
  BY <1>5, <1>8, <1>9 DEF ReadInv
<1>11. QED
  BY <1>4, <1>7, <1>10

LEMMA CallQuiet ==
  ASSUME LoggerInv, NEW t \in Threads, Log(t) \/ SetStrategy(t) \/ (ReadGoesOn(t) /\ ~FlushSeen)
  PROVE  QuietStep
<1>1. CASE Log(t)
  <2>1. Len(thread[t].ops) \in Nat
    BY DEF LoggerInv, TypeOK
  <2>2. <<[from |-> t, n |-> Len(thread[t].ops)]>> \in Seq(Messages)
    BY <2>1 DEF Messages
  <2>3. QED
    BY <1>1, <2>2, LogQuiet DEF Log
<1>2. CASE SetStrategy(t)
  <2>1. \E msgs \in Seq(Messages) : Push(msgs, worker, [thread EXCEPT ![t] = Returned(t)])
    BY <1>2, SysIsMessage DEF SetStrategy
  <2>2. QED
    BY <1>2, <2>1, LogQuiet DEF SetStrategy
<1>3. CASE ReadGoesOn(t) /\ ~FlushSeen
  BY <1>3, ReaderMovesQuiet DEF ReadGoesOn
<1>4. QED
  BY <1>1, <1>2, <1>3

LEMMA StepKinds ==
  ASSUME LoggerInv, [Next]_vars
  PROVE  \/ QuietStep
         \/ \E t \in Threads : Read(t) \/ (ReadGoesOn(t) /\ FlushSeen)
<1>1. CASE UNCHANGED vars
  BY <1>1, NobodyWoken, SameCallsQuiet, LengthsKnown DEF vars, QuietStep
<1>2. CASE WorkQueue
  BY <1>2, WorkQuiet
<1>3. CASE \E t \in Threads : Call(t)
  BY <1>3, CallQuiet DEF Call
<1>4. CASE Destructor
  BY <1>4, DestructorQuiet
<1>5. CASE Spurious
  <2>1. CASE UNCHANGED thread
    BY <1>5, <2>1, NobodyWoken, SameCallsQuiet, LengthsKnown DEF Spurious, QuietStep
  <2>2. CASE \E t \in Readers : thread' = [thread EXCEPT ![t].pc = "wait"]
    BY <1>5, <2>2, ReaderMovesQuiet DEF Spurious, Readers
  <2>3. QED
    BY <1>5, <2>1, <2>2 DEF Spurious
<1>6. QED
  BY <1>1, <1>2, <1>3, <1>4, <1>5 DEF Next

LEMMA StepReadInv ==
  LoggerInv /\ LoggerInv' /\ ReadInv /\ [Next]_vars => ReadInv'
BY StepKinds, QuietKeeps, ReadBegins, ReadEnds

LEMMA InitReadInv ==
  ASSUME OneReader
  PROVE  Init => ReadInv
<1> SUFFICES ASSUME Init PROVE ReadInv
  OBVIOUS
<1>1. PICK script \in Scripts : thread = [t \in Threads |-> [ops |-> script[t], pc |-> "call", due |-> 0]]
  BY DEF Init
<1>2. \A t \in Threads : thread[t].pc = "call" /\ thread[t].ops = script[t]
  BY <1>1
<1>3. QED
  BY <1>2 DEF Init, ReadInv, OneReader

Covered(t) ==
  (thread[t].ops # <<>> /\ Head(thread[t].ops) = "read" /\ thread'[t].ops # thread[t].ops)
    => Len(written) >= IF thread[t].pc = "call" THEN Len(accepted) ELSE thread[t].due

LEMMA StepCovered ==
  ASSUME LoggerInv, ReadInv, [Next]_vars, NEW t \in Threads
  PROVE  Covered(t)
<1>1. CASE QuietStep
  BY <1>1 DEF QuietStep, QuietThreads, SameCall, Finished, Covered
<1>2. ASSUME NEW u \in Threads, Read(u) PROVE Covered(t)
  BY <1>2, ReadBegins DEF Covered
<1>3. ASSUME NEW u \in Threads, ReadGoesOn(u), FlushSeen PROVE Covered(t)
  <2>1. CASE u = t
    <3>1. thread[t].pc # "call" /\ thread[t].due <= Len(written)
      BY <1>3, <2>1, ReadEnds DEF ReadGoesOn
    <3>2. QED
      BY <3>1, LengthsKnown DEF Covered
  <2>2. CASE u # t
    BY <1>3, <2>2, ReadEnds DEF Covered
  <2>3. QED
    BY <2>1, <2>2
<1>4. QED
  BY <1>1, <1>2, <1>3, StepKinds

(* Where one thread reads, Read and Search return only when every message   *)
(* logged before they began is in the storage, however the other threads    *)
(* log and switch strategies meanwhile: the confirmation that ends          *)
(* WaitFlush is given when nothing is queued or half written.               *)
THEOREM ReadSeesEarlierMessages == OneReader => (Spec => FlushCovers)
<1> SUFFICES ASSUME OneReader PROVE Spec => FlushCovers
  OBVIOUS
<1>1. Init => ReadInv
  BY InitReadInv
<1>2. LoggerInv /\ ReadInv /\ [Next]_vars => [\A t \in Threads : Covered(t)]_vars
  BY StepCovered
<1>3. FlushCovers <=> [][\A t \in Threads : Covered(t)]_vars
  BY PTL DEF FlushCovers, Covered
<1>4. QED
  BY <1>1, <1>2, <1>3, InvariantHolds, StepReadInv, PTL DEF Spec
=============================================================================
