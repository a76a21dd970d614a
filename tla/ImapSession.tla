---------------------------- MODULE ImapSession -----------------------------
(***************************************************************************)
(* ImapSession: the connection of one IMAP client. The socket, the timer   *)
(* and the write queue belong to handlers that run one at a time on the    *)
(* session's strand (one io thread runs them all); blocking work runs as   *)
(* tasks of the server's ThreadPool: Dispatch of a command, and, once TLS  *)
(* is on, every Receive and Send, which have no timeout. A task posts its  *)
(* result back to the strand. Dispatch queries the database through a      *)
(* connection of the ConnectionPool.                                       *)
(*                                                                         *)
(* A handler is one step. WriteResponse, Write, ReadCommand, HandleCommand *)
(* and UpgradeToTLS are called inside handlers: they are operators from a  *)
(* pair [r, add] (session record, tasks to queue) to such a pair.          *)
(***************************************************************************)
EXTENDS ConnectionPool, Sequences, SequencesExt, FiniteSets

CONSTANTS
  Sessions,   \* Threads are the workers of the thread pool
  Scripts     \* session -> set of sequences of commands its client may send

VARIABLES
  ses,        \* session -> its record, client side included
  tasks,      \* FIFO queue of the thread pool
  job         \* worker -> the task it runs

vars == <<ses, tasks, job, in_use, conn, at>>

Banner == [id |-> 0, what |-> "banner"]
Bye == [id |-> 0, what |-> "bye"]
NoLine == [cmd |-> "none", enc |-> FALSE]
NoTask == [s |-> None, kind |-> "none", id |-> 0, cmd |-> "none", entered |-> TRUE, stage |-> "query"]

Task(s, kind, id, cmd) ==
  [s |-> s, kind |-> kind, id |-> id, cmd |-> cmd, entered |-> TRUE, stage |-> "query"]

Handler(h, ok, line) == [h |-> h, ok |-> ok, line |-> line, id |-> 0]

(* A line of the client is [cmd, enc]; cmd is "bad" for one HandleCommand   *)
(* refuses (unknown, or not allowed before LOGIN), "cmd" for one that goes  *)
(* to the dispatcher, "starttls", "logout", or "key" for the client's half  *)
(* of the key exchange.                                                     *)
Start(script) ==
  [open |-> TRUE, secure |-> FALSE, buf |-> <<>>, queue |-> <<>>, writing |-> FALSE,
   closing |-> FALSE, tls |-> FALSE, timer |-> "off", rpend |-> FALSE, wpend |-> FALSE,
   strand |-> <<Handler("banner", TRUE, NoLine)>>, taken |-> 0, made |-> 0,
   last |-> [enc |-> FALSE, secure |-> FALSE],
   wire |-> <<>>, peer |-> TRUE, keySent |-> FALSE, script |-> script, got |-> <<>>]

Init ==
  /\ ses \in {f \in [Sessions -> UNION {{Start(x) : x \in Scripts[s]} : s \in Sessions}] :
                \A s \in Sessions : f[s].script \in Scripts[s]}
  /\ tasks = <<>>
  /\ job = [w \in Threads |-> NoTask]
  /\ PoolInit

-----------------------------------------------------------------------------
(* The member functions.                                                    *)

Write(s, x) ==
  IF x.r.secure
  THEN [x EXCEPT !.r.writing = TRUE, !.add = Append(@, Task(s, "send", 0, "none"))]
  ELSE [x EXCEPT !.r.writing = TRUE, !.r.wpend = TRUE]

WriteResponse(s, x, msg) ==
  LET y == [x EXCEPT !.r.queue = Append(@, msg)]
  IN IF x.r.writing THEN y ELSE Write(s, y)

Answer(s, x, id, what) ==
  WriteResponse(s, [x EXCEPT !.r.made = @ + 1], [id |-> id, what |-> what])

(* Mutant: the next line always comes from m_buffer.                        *)
ReadCommandBuffered(s, x) == [x EXCEPT !.r.timer = "idle", !.r.rpend = TRUE]

(* ReadCommand arms the idle timer and starts one read: a task when the     *)
(* channel is secure, async_read_until otherwise.                           *)
ReadCommand(s, x) ==
  IF x.r.secure
  THEN [x EXCEPT !.r.timer = "idle", !.add = Append(@, Task(s, "receive", 0, "none"))]
  ELSE [x EXCEPT !.r.timer = "idle", !.r.rpend = TRUE]

HandleCommand(s, x, line) ==
  LET id == x.r.taken + 1
      y == [x EXCEPT !.r.taken = id, !.r.timer = "off",
                     !.r.last = [enc |-> line.enc, secure |-> x.r.secure]]
  IN
  IF line.cmd = "bad"
  THEN ReadCommand(s, Answer(s, y, id, "answer"))
  ELSE [y EXCEPT !.add = Append(@, Task(s, "dispatch", id, line.cmd))]

UpgradeToTLS(s, x) ==
  [x EXCEPT !.r.tls = FALSE, !.r.timer = "handshake",
            !.add = Append(@, Task(s, "handshake", 0, "none"))]

CloseSocket(x) == [x EXCEPT !.r.open = FALSE]

(* Mutant: the message that was written stays at the head of the queue.     *)
WrittenKeepsHead(s, x) ==
  IF Len(x.r.queue) > 1 THEN Write(s, x)
  ELSE [x EXCEPT !.r.writing = FALSE, !.r.queue = <<>>,
                 !.r.open = @ /\ ~x.r.closing]

(* The end of a write, plain or secure.                                     *)
Written(s, x) ==
  LET y == [x EXCEPT !.r.queue = Tail(@)]
      z == [y EXCEPT !.r.writing = FALSE]
  IN
  IF y.r.queue # <<>> THEN Write(s, y)
  ELSE IF z.r.closing THEN CloseSocket(z)
  ELSE IF z.r.tls THEN UpgradeToTLS(s, z)
  ELSE z

(* Mutant: the next command is read also after STARTTLS.                    *)
DispatchedReadsOn(s, x, id, cmd) ==
  ReadCommand(s, Answer(s, [x EXCEPT !.r.tls = cmd = "starttls"], id, "tls"))

(* The handler posted when Dispatch has returned.                           *)
Dispatched(s, x, id, cmd) ==
  IF cmd = "starttls" /\ x.r.secure THEN ReadCommand(s, Answer(s, x, id, "answer"))
  ELSE IF cmd = "starttls" THEN Answer(s, [x EXCEPT !.r.tls = TRUE], id, "tls")
  ELSE IF cmd = "logout" THEN Answer(s, x, id, "answer")
  ELSE ReadCommand(s, Answer(s, x, id, "answer"))


(* The idle timer's handler. It runs with success also when a command was   *)
(* read after the timer had expired but before the handler's turn came.     *)
IdleTimeout(s, x) ==
  IF x.r.open THEN WriteResponse(s, [x EXCEPT !.r.closing = TRUE], Bye) ELSE x

Handle(s, x, e) ==
  CASE e.h = "banner" -> ReadCommand(s, WriteResponse(s, x, Banner))
    [] e.h = "idle" -> IdleTimeout(s, x)
    [] e.h = "handshake" -> CloseSocket(x)
    [] e.h = "dispatched" -> Dispatched(s, x, e.id, e.line.cmd)
    [] e.h = "read" /\ e.ok -> HandleCommand(s, [x EXCEPT !.r.buf = Tail(@)], Head(x.r.buf))
    [] e.h = "received" /\ e.ok -> HandleCommand(s, x, e.line)
    [] e.h \in {"wrote", "sent"} /\ e.ok -> Written(s, x)
    [] e.h = "shaken" /\ e.ok -> ReadCommand(s, x)
    [] e.h = "shaken" /\ ~e.ok -> CloseSocket([x EXCEPT !.r.timer = "off"])
    [] OTHER -> CloseSocket(x)

(* The io thread runs the handler at the head of a session's strand.        *)
RunHandler(s) ==
  LET r == ses[s]
      x == Handle(s, [r |-> [r EXCEPT !.strand = Tail(@)], add |-> <<>>], Head(r.strand))
  IN
  /\ r.strand # <<>>
  /\ ses' = [ses EXCEPT ![s] = x.r]
  /\ tasks' = tasks \o x.add
  /\ UNCHANGED <<job, in_use, conn, at>>

-----------------------------------------------------------------------------
(* Completions. Each posts a handler to the strand.                         *)

Post(s, r, e) == ses' = [ses EXCEPT ![s] = [r EXCEPT !.strand = Append(@, e)]]
ServerUnchanged == UNCHANGED <<tasks, job, in_use, conn, at>>

(* async_read_until: completes with a line from m_buffer or from the        *)
(* socket, and may read further lines of the client into m_buffer.          *)
ReadCompletes(s) ==
  LET r == ses[s] IN
  /\ r.rpend
  /\ \/ \E k \in 0..Len(r.wire) :
          /\ r.open /\ r.buf \o SubSeq(r.wire, 1, k) # <<>>
          /\ Post(s, [r EXCEPT !.rpend = FALSE, !.buf = @ \o SubSeq(r.wire, 1, k),
                               !.wire = SubSeq(@, k + 1, Len(@))],
                  Handler("read", TRUE, NoLine))
     \/ /\ ~r.open \/ (~r.peer /\ r.wire = <<>> /\ r.buf = <<>>)
        /\ Post(s, [r EXCEPT !.rpend = FALSE], Handler("read", FALSE, NoLine))
  /\ ServerUnchanged

(* A written message reaches the client.                                    *)
Delivered(r) == [r EXCEPT !.got = Append(@, Head(r.queue))]

WriteCompletes(s) ==
  LET r == ses[s] IN
  /\ r.wpend
  /\ \/ /\ r.open
        /\ Post(s, Delivered([r EXCEPT !.wpend = FALSE]), Handler("wrote", TRUE, NoLine))
     \/ /\ ~r.open \/ ~r.peer
        /\ Post(s, [r EXCEPT !.wpend = FALSE], Handler("wrote", FALSE, NoLine))
  /\ ServerUnchanged

TimerExpires(s) ==
  /\ ses[s].timer # "off"
  /\ Post(s, [ses[s] EXCEPT !.timer = "off"], Handler(ses[s].timer, TRUE, NoLine))
  /\ ServerUnchanged

(* No pending operation holds the session any more: it is destroyed, and    *)
(* the socket with it.                                                      *)
TasksOf(s) ==
  {i \in DOMAIN tasks : tasks[i].s = s} \cup {w \in Threads : job[w].s = s}

Destroyed(s) ==
  LET r == ses[s] IN
  /\ r.open /\ ~r.rpend /\ ~r.wpend /\ r.timer = "off" /\ r.strand = <<>> /\ TasksOf(s) = {}
  /\ ses' = [ses EXCEPT ![s].open = FALSE]
  /\ ServerUnchanged

-----------------------------------------------------------------------------
(* The pool's workers.                                                      *)

PoolUnchanged == UNCHANGED <<in_use, conn, at>>

StartTask(w) ==
  /\ job[w] = NoTask /\ tasks # <<>>
  /\ job' = [job EXCEPT ![w] = [Head(tasks) EXCEPT !.entered = ses[Head(tasks).s].open]]
  /\ tasks' = Tail(tasks)
  /\ UNCHANGED ses /\ PoolUnchanged

Finish(w, r, e) ==
  /\ Post(job[w].s, r, e)
  /\ job' = [job EXCEPT ![w] = NoTask]
  /\ UNCHANGED tasks /\ PoolUnchanged

(* Receive blocks until the client sends or closes; closing the socket from *)
(* the strand does not wake it. A line that was not encrypted fails to      *)
(* decrypt.                                                                 *)
RunReceive(w) ==
  LET r == ses[job[w].s] IN
  /\ job[w].kind = "receive"
  /\ \/ /\ job[w].entered /\ r.wire # <<>>
        /\ Finish(w, [r EXCEPT !.wire = Tail(@)],
                  Handler("received", r.open /\ Head(r.wire).enc, Head(r.wire)))
     \/ /\ ~job[w].entered \/ (r.wire = <<>> /\ ~r.peer)
        /\ Finish(w, r, Handler("received", FALSE, NoLine))

RunSend(w) ==
  LET r == ses[job[w].s] IN
  /\ job[w].kind = "send"
  /\ \/ r.open /\ Finish(w, Delivered(r), Handler("sent", TRUE, NoLine))
     \/ (~r.open \/ ~r.peer) /\ Finish(w, r, Handler("sent", FALSE, NoLine))

(* ServerSecureChannel::StartTLS: receives the client's key, sends its own  *)
(* and makes the channel secure, all on the worker. Anything else the       *)
(* client sent before its key is taken for it and no common key results.    *)
RunHandshake(w) ==
  LET r == ses[job[w].s] IN
  /\ job[w].kind = "handshake"
  /\ \/ /\ job[w].entered /\ r.wire # <<>>
        /\ LET ok == r.open /\ Head(r.wire).cmd = "key" IN
           Finish(w, [r EXCEPT !.wire = Tail(@), !.secure = ok], Handler("shaken", ok, NoLine))
     \/ /\ ~job[w].entered \/ (r.wire = <<>> /\ ~r.peer)
        /\ Finish(w, r, Handler("shaken", FALSE, NoLine))

(* Dispatch: a query takes a connection of the pool and gives it back;      *)
(* LOGOUT and STARTTLS make none.                                           *)
DispatchQuery(w) ==
  /\ job[w].kind = "dispatch" /\ job[w].cmd = "cmd" /\ job[w].stage = "query"
  /\ \/ /\ Acquire(w)
        /\ UNCHANGED job
     \/ /\ Release(w)
        /\ job' = [job EXCEPT ![w].stage = "notify"]
  /\ UNCHANGED <<ses, tasks>>

DispatchNotify(w) ==
  /\ job[w].stage = "notify"
  /\ Notify(w)
  /\ job' = [job EXCEPT ![w].stage = "done"]
  /\ UNCHANGED <<ses, tasks>>

WakesForNothing(w) == SpuriousWakeup(w) /\ UNCHANGED <<ses, tasks, job>>

RunDispatch(w) ==
  /\ job[w].kind = "dispatch" /\ (job[w].stage = "done" \/ job[w].cmd # "cmd")
  /\ Finish(w, ses[job[w].s],
            [Handler("dispatched", TRUE, [cmd |-> job[w].cmd, enc |-> FALSE]) EXCEPT !.id = job[w].id])

-----------------------------------------------------------------------------
(* The client. It may send commands without waiting for the answers; it     *)
(* sends its key when STARTTLS was answered OK and encrypts from then on.   *)

ClientSends(s) ==
  LET r == ses[s] IN
  /\ r.peer /\ r.script # <<>> /\ (r.keySent => r.secure)
  /\ ses' = [ses EXCEPT ![s].wire = Append(@, [cmd |-> Head(r.script), enc |-> r.keySent]),
                        ![s].script = Tail(@)]
  /\ ServerUnchanged

ClientSendsKey(s) ==
  LET r == ses[s] IN
  /\ r.peer /\ ~r.keySent /\ r.got # <<>> /\ Last(r.got).what = "tls"
  /\ ses' = [ses EXCEPT ![s].wire = Append(@, [cmd |-> "key", enc |-> FALSE]),
                        ![s].keySent = TRUE]
  /\ ServerUnchanged

ClientCloses(s) ==
  /\ ses[s].peer
  /\ ses' = [ses EXCEPT ![s].peer = FALSE]
  /\ ServerUnchanged

-----------------------------------------------------------------------------
WorkerStep(w) ==
  \/ StartTask(w) \/ RunReceive(w) \/ RunSend(w) \/ RunHandshake(w)
  \/ DispatchQuery(w) \/ DispatchNotify(w) \/ RunDispatch(w)

IoStep(s) ==
  \/ RunHandler(s) \/ ReadCompletes(s) \/ WriteCompletes(s) \/ TimerExpires(s) \/ Destroyed(s)

ClientStep(s) == ClientSends(s) \/ ClientSendsKey(s) \/ ClientCloses(s)

(* Everything is over.                                                      *)
Finished ==
  /\ \A s \in Sessions : ~ses[s].open
  /\ UNCHANGED vars

Next ==
  \/ \E w \in Threads : WorkerStep(w) \/ WakesForNothing(w)
  \/ \E s \in Sessions : IoStep(s) \/ ClientStep(s)
  \/ Finished

(* The io thread and the workers are never suspended for ever, a timer that *)
(* is armed expires unless it is cancelled; a client need not do anything.  *)
Fairness ==
  /\ \A w \in Threads : WF_vars(WorkerStep(w))
  /\ \A s \in Sessions : /\ WF_vars(RunHandler(s)) /\ WF_vars(ReadCompletes(s))
                         /\ WF_vars(WriteCompletes(s)) /\ WF_vars(TimerExpires(s))
                         /\ WF_vars(Destroyed(s))

Spec == Init /\ [][Next]_vars /\ Fairness

-----------------------------------------------------------------------------
Count(s, kinds, handlers) ==
  Cardinality({i \in DOMAIN tasks : tasks[i].s = s /\ tasks[i].kind \in kinds})
  + Cardinality({w \in Threads : job[w].s = s /\ job[w].kind \in kinds})
  + Cardinality({i \in DOMAIN ses[s].strand : ses[s].strand[i].h \in handlers})

(* A session does one thing at a time: it reads a command, or dispatches    *)
(* one, or shakes hands (the dispatcher, the receive buffer and the keys    *)
(* have no lock and rely on it, whatever the timer and the writes do); and  *)
(* at most one write is in progress, which m_is_writing tells while the     *)
(* connection is healthy.                                                   *)
OneActivity ==
  \A s \in Sessions :
    LET pending(flag) == IF flag THEN 1 ELSE 0
        works == Count(s, {"receive", "dispatch", "handshake"},
                          {"banner", "read", "received", "dispatched", "shaken"}) + pending(ses[s].rpend)
        writes == Count(s, {"send"}, {"wrote", "sent"}) + pending(ses[s].wpend)
    IN
    /\ works <= 1 /\ writes <= 1
    /\ ses[s].open => (writes = 1 <=> ses[s].writing)

(* No command that came in the clear is executed once the channel is        *)
(* secure, also when the client had sent it ahead and it waits in m_buffer. *)
NoPlainCommandAfterTLS ==
  \A s \in Sessions : ses[s].last.secure => ses[s].last.enc

(* The session implements the service its client sees.                      *)
Answers(s) == SelectSeq(ses[s].got, LAMBDA m : m.id > 0)

Service == INSTANCE ImapService WITH
  taken <- [s \in Sessions |-> ses[s].taken],
  made <- [s \in Sessions |-> ses[s].made],
  replies <- [s \in Sessions |-> [i \in DOMAIN Answers(s) |-> Answers(s)[i].id]],
  up <- [s \in Sessions |-> ses[s].open]

(* Every command is taken when the one before is answered, answered once    *)
(* and in order, and nothing is delivered on a closed connection.           *)
ImplementsService == Service!ServiceSpec


(* A query waits for a database connection only for a time: the worker that *)
(* took a command gives it an answer, whoever held the connections.         *)
DispatchReturns == \A w \in Threads : at[w] = "wait" ~> at[w] = "in"
=============================================================================
