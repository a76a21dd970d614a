------------------------------ MODULE MuaBridge ------------------------------
(***************************************************************************)
(* MuaBridge, the object between the QML user interface and the worker.    *)
(* A user's action marks the interface busy and pushes a command, without  *)
(* waiting for the commands before it; the worker's results are queued to  *)
(* the interface's thread, which applies them one by one. The lists, texts *)
(* and error messages the interface shows are left out.                    *)
(***************************************************************************)
EXTENDS MailWorker

VARIABLE ui  \* m_isConnected, m_isBusy, m_isReconnecting

BridgeInit == ui = [connected |-> FALSE, busy |-> FALSE, reconnecting |-> FALSE]

setBusy(value) == [ui EXCEPT !.busy = value]

connectToServer(c) == c.op = "connect" /\ ui' = setBusy(TRUE) /\ Ask(c.op, c.id, c.arg)
disconnectFromServer(c) == c.op = "disconnect" /\ ui' = setBusy(TRUE) /\ Ask(c.op, c.id, c.arg)
sendMail(c) == c.op = "send" /\ ui' = setBusy(TRUE) /\ Ask(c.op, c.id, c.arg)
mailboxCommand(c) ==
  c.op \notin {"connect", "disconnect", "send"} /\ ui' = setBusy(TRUE) /\ Ask(c.op, c.id, c.arg)

Command(c) == connectToServer(c) \/ disconnectFromServer(c) \/ sendMail(c) \/ mailboxCommand(c)

-----------------------------------------------------------------------------
(* onResult, by the kind of the result.                                     *)

onConnectResult(r) ==
  [connected |-> r.ok, busy |-> FALSE, reconnecting |-> ui.reconnecting /\ ~r.ok]

onDisconnectResult(r) == [setBusy(FALSE) EXCEPT !.connected = @ /\ ~r.ok]

onOtherResult(r) == setBusy(FALSE)

(* Mutant: a report of a reconnection leaves m_isReconnecting set.          *)
onReconnectStateSticks(r) ==
  [connected |-> IF r.ok THEN FALSE ELSE ui.connected \/ r.what = "Reconnected",
   busy |-> r.ok, reconnecting |-> TRUE]

onReconnectState(r) ==
  [connected |-> IF r.ok THEN FALSE ELSE ui.connected \/ r.what \notin {"none", "canceled"},
   busy |-> r.ok,
   reconnecting |-> r.ok]

onResult ==
  LET r == Head(results) IN
  /\ results # <<>> /\ halt = "no"
  /\ results' = Tail(results)
  /\ ui' = CASE r.op = "reconnect" -> onReconnectState(r)
             [] r.op = "connect" -> onConnectResult(r)
             [] r.op = "disconnect" -> onDisconnectResult(r)
             [] OTHER -> onOtherResult(r)
  /\ UNCHANGED <<queueVars, issued, wk, conn, cur, conf, halt>> /\ UNCHANGED serverVars

(* The destructor. The interface's thread waits in stop() and applies no    *)
(* more results.                                                            *)
destroy == stop /\ UNCHANGED ui

-----------------------------------------------------------------------------
(* When every command has been answered and the answers are applied.        *)
Quiescent == halt = "no" /\ queue = <<>> /\ At("pop") /\ results = <<>>

(* Then the interface is not left busy or reconnecting (the last thing a    *)
(* command reports, however it ends, is its result), and it shows a         *)
(* connection only if there is one.                                         *)
QuiescentNotBusy ==
  Quiescent => ~ui.busy /\ ~ui.reconnecting /\ (ui.connected => conn # "none")
=============================================================================
