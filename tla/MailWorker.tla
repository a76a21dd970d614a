----------------------------- MODULE MailWorker -----------------------------
(***************************************************************************)
(* MailWorker, the thread of the mail client that runs the user's commands *)
(* against the SMTP and IMAP servers. It handles one command at a time.    *)
(* Every IMAP command goes through imapExchange, which on a transport      *)
(* failure logs in again on a new connection and sends the command once    *)
(* more; reconnectSession tries until it succeeds or stop was called.      *)
(*                                                                         *)
(* The servers are modelled by what the worker can tell: the mailboxes of  *)
(* its user, the selected mailbox of its connection, and what an IMAP      *)
(* command does (as in ImapCommands, as one step). Between two exchanges   *)
(* mail may arrive and another session may expunge; an exchange can fail   *)
(* before the server has read the command, after it has executed it, or    *)
(* with the command still waiting for a thread of the server, to be        *)
(* executed when the client has long reconnected.                          *)
(***************************************************************************)
EXTENDS CommandQueue, Integers, FiniteSets, SequencesExt, TLC

CONSTANTS
  StartBoxes,   \* folder name -> sequence of messages at the beginning
  NewMail,      \* message that may arrive in INBOX
  MaxCommands,  \* bound on the commands of one behaviour
  MaxFaults     \* bound on transport failures, failed connection attempts and timeouts

ASSUME BoundsAssumption ==
  /\ MaxCommands \in Nat \ {0} /\ MaxFaults \in Nat
  /\ "INBOX" \in DOMAIN StartBoxes

VARIABLES
  issued,    \* number of commands pushed
  wk,        \* the worker's control state, see Idle
  conn,      \* m_imapConnection: "none", "up", or "broken" (set, but the socket is dead)
  cur,       \* m_currentFolder
  conf,      \* the settings of the last connect are there
  halt,      \* stop(): "no", "flag" (m_stopRequested), "queue", "joined"
  results,   \* what m_onResult was called with and the front end has not taken
  boxes,     \* server: folder -> sequence of [m, flags]
  sel,       \* server: folder selected on the connection
  late,      \* server: commands of broken connections still to be executed
  mail,      \* server: fate of the mail of each command
  accepted,  \* the servers accept the user's name and password
  faults,
  ghost      \* what happened, for the properties

workerVars == <<issued, wk, conn, cur, conf, halt, results>>
serverVars == <<boxes, sel, late, mail, accepted, faults, ghost>>
vars == <<queueVars, workerVars, serverVars>>

Nowhere == "nowhere"
NoCommand == [op |-> "none", no |-> 0, id |-> 0, arg |-> "none"]
Idle == [pc |-> "pop", cmd |-> NoCommand, plan |-> <<>>, attempt |-> 0, ret |-> "none", saw |-> <<>>]

Ids(f) == [i \in DOMAIN boxes[f] |-> boxes[f][i].m]

WorkerInit ==
  /\ QueueInit
  /\ issued = 0 /\ wk = Idle /\ conn = "none" /\ cur = Nowhere /\ conf = FALSE /\ halt = "no" /\ results = <<>>
  /\ boxes = [f \in DOMAIN StartBoxes |-> [i \in DOMAIN StartBoxes[f] |-> [m |-> StartBoxes[f][i], flags |-> {}]]]
  /\ sel = Nowhere /\ late = {} /\ mail = [n \in 1..MaxCommands |-> "none"]
  /\ accepted \in BOOLEAN
  /\ faults = 0
  /\ ghost = [copies |-> [n \in 1..MaxCommands |-> 0], asked |-> {}, renumbered |-> FALSE, uncopied |-> FALSE]

-----------------------------------------------------------------------------
(* The IMAP server.                                                         *)

Request(verb, id, arg, onFail) == [verb |-> verb, id |-> id, arg |-> arg, onFail |-> onFail]

Listed(box) == IF box \in DOMAIN boxes THEN boxes[box] ELSE <<>>

NeedsSelection == {"FETCH", "STORE+", "STORE-", "COPY", "EXPUNGE"}
KnownFlags == {"\\Seen", "\\Flagged", "\\Deleted"}

Accepts(box, r) ==
  CASE r.verb \in NeedsSelection /\ box = Nowhere -> FALSE
    [] r.verb \in {"SELECT", "COPY"} -> r.arg \in DOMAIN boxes
    [] r.verb = "CREATE" -> r.arg \notin DOMAIN boxes
    [] r.verb = "DELETE" -> r.arg \in DOMAIN boxes \ {"INBOX"}
    [] r.verb \in {"STORE+", "STORE-"} -> r.arg \in KnownFlags
    [] OTHER -> TRUE

SetFlag(msg, r) ==
  [msg EXCEPT !.flags = IF r.verb = "STORE+" THEN @ \cup {r.arg} ELSE @ \ {r.arg}]

(* The mailboxes after the request; a number no message has is passed over. *)
Executed(box, r) ==
  LET list == Listed(box)
      there == r.id \in DOMAIN list
  IN
  IF ~Accepts(box, r) THEN boxes
  ELSE CASE r.verb \in {"STORE+", "STORE-"} /\ there -> [boxes EXCEPT ![box][r.id] = SetFlag(@, r)]
         [] r.verb = "COPY" /\ there -> [boxes EXCEPT ![r.arg] = Append(@, list[r.id])]
         [] r.verb = "EXPUNGE" /\ box \in DOMAIN boxes ->
              [boxes EXCEPT ![box] = SelectSeq(@, LAMBDA x : "\\Deleted" \notin x.flags)]
         [] r.verb = "CREATE" -> boxes @@ (r.arg :> <<>>)
         [] r.verb = "DELETE" -> [f \in DOMAIN boxes \ {r.arg} |-> boxes[f]]
         [] OTHER -> boxes

SelectedAfter(r) ==
  CASE r.verb = "SELECT" /\ Accepts(sel, r) -> r.arg
    [] r.verb = "DELETE" /\ Accepts(sel, r) /\ sel = r.arg -> "deleted"
    [] OTHER -> sel

(* History: the copies each command made; the messages whose removal the    *)
(* user asked for; whether a number has named another message than when the *)
(* command began.                                                           *)
Recorded(box, r, no, op, saw) ==
  LET list == Listed(box)
      there == r.id \in DOMAIN list
      acts == Accepts(box, r) /\ r.verb \in {"COPY", "STORE+"}
  IN
  [ghost EXCEPT
     !.copies[no] = IF acts /\ there /\ r.verb = "COPY" THEN @ + 1 ELSE @,
     !.asked = @ \cup (IF acts /\ there /\ r.arg = "\\Deleted" /\ op \in {"delete", "labeladd"}
                       THEN {list[r.id].m} ELSE {})
                 \cup (IF r.verb = "DELETE" /\ Accepts(box, r)
                       THEN {x.m : x \in ToSet(boxes[r.arg])} ELSE {}),
     !.renumbered = @ \/ (acts /\ (there \/ r.id \in DOMAIN saw)
                          /\ ~(there /\ r.id \in DOMAIN saw /\ saw[r.id] = list[r.id].m))]

-----------------------------------------------------------------------------
(* The worker. Post is m_onResult. A second report that a reconnection is   *)
(* under way tells the front end nothing and is merged with the first;      *)
(* after stop() nobody takes results.                                       *)

Reconnect(on, what) == [no |-> 0, op |-> "reconnect", ok |-> on, what |-> what]
Posted(res) ==
  IF halt # "no" \/ (results # <<>> /\ res = Reconnect(TRUE, "trying") /\ Last(results) = res)
  THEN results ELSE Append(results, res)
Post(res) == results' = Posted(res)
Result(c, ok) == [no |-> c.no, op |-> c.op, ok |-> ok, what |-> "none"]

Finish(ok) == Post(Result(wk.cmd, ok)) /\ wk' = Idle

(* The requests of a handler in their order. onFail says what follows a     *)
(* request that is not answered OK: the handler ends, goes on, or tries the *)
(* next alternative.                                                        *)
Stop(verb, id, arg) == Request(verb, id, arg, "stop")
SelectInbox == Stop("SELECT", 0, "INBOX")
Refuse == Stop("REFUSE", 0, "none")

fetchMessagePayloadBySeq(id) ==
  <<Request("FETCH", id, "RFC822", "else"), Request("FETCH", id, "BODY[]", "else"),
    Stop("FETCH", id, "BODY.PEEK[]")>>

handleFetchFolders(c) == <<Stop("LIST", 0, "*")>>
handleFetchMails(c) == <<Stop("SELECT", 0, c.arg), Stop("FETCH", 0, "ENVELOPE")>>
handleFetchMail(c) == <<Request("FETCH", c.id, "FLAGS", "goon")>> \o fetchMessagePayloadBySeq(c.id)
handleDeleteMail(c) == <<SelectInbox, Stop("STORE+", c.id, "\\Deleted"), Stop("EXPUNGE", 0, "none")>>
handleMarkMailRead(c) == <<SelectInbox, Stop("STORE+", c.id, "\\Seen")>>

(* Mutant: the answer to COPY is not looked at.                             *)
handleMoveMailUnchecked(c) ==
  <<SelectInbox, Request("COPY", c.id, c.arg, "goon"), Stop("STORE+", c.id, "\\Deleted"), Stop("EXPUNGE", 0, "none")>>

handleMoveMail(c) ==
  IF c.arg = "none" THEN <<SelectInbox, Refuse>>
  ELSE <<SelectInbox, Stop("COPY", c.id, c.arg), Stop("STORE+", c.id, "\\Deleted"), Stop("EXPUNGE", 0, "none")>>

handleDownloadAttachment(c) ==
  IF c.arg = "0" THEN <<Refuse>> ELSE <<SelectInbox>> \o fetchMessagePayloadBySeq(c.id)

handleCreateFolder(c) == <<Stop("CREATE", 0, c.arg)>>
handleDeleteFolder(c) == <<Stop("DELETE", 0, c.arg)>>

NormalizeFlag(label) ==
  CASE label = "seen" -> "\\Seen"
    [] label \in {"flagged", "important"} -> "\\Flagged"
    [] label = "deleted" -> "\\Deleted"
    [] OTHER -> label

handleAddLabel(c) == <<SelectInbox, Stop("STORE+", c.id, NormalizeFlag(c.arg))>>
handleRemoveLabel(c) == <<SelectInbox, Stop("STORE-", c.id, NormalizeFlag(c.arg))>>

(* Without the star nothing is done: INBOX has just been selected, so the   *)
(* current folder is never Starred.                                         *)
handleMarkMailStarred(c) ==
  IF c.arg = "off" THEN <<SelectInbox>>
  ELSE <<SelectInbox, Request("CREATE", 0, "Starred", "goon"), Stop("COPY", c.id, "Starred"),
         Stop("STORE+", c.id, "\\Deleted"), Stop("EXPUNGE", 0, "none")>>

handleMarkMailImportant(c) ==
  <<SelectInbox, Stop(IF c.arg = "on" THEN "STORE+" ELSE "STORE-", c.id, "\\Flagged")>>

Plan(c) ==
  CASE c.op = "folders" -> handleFetchFolders(c)
    [] c.op = "fetch" -> handleFetchMails(c)
    [] c.op = "fetchmail" -> handleFetchMail(c)
    [] c.op = "getatt" -> handleDownloadAttachment(c)
    [] c.op = "delete" -> handleDeleteMail(c)
    [] c.op = "read" -> handleMarkMailRead(c)
    [] c.op = "move" -> handleMoveMail(c)
    [] c.op = "mkdir" -> handleCreateFolder(c)
    [] c.op = "rmdir" -> handleDeleteFolder(c)
    [] c.op = "labeladd" -> handleAddLabel(c)
    [] c.op = "labelrm" -> handleRemoveLabel(c)
    [] c.op = "star" -> handleMarkMailStarred(c)
    [] c.op = "important" -> handleMarkMailImportant(c)
    [] OTHER -> <<Stop("LOGOUT", 0, "none")>>

-----------------------------------------------------------------------------
(* run: the next command, or the end of the thread.                         *)

At(pc) == wk.pc = pc
Goto(pc) == wk' = [wk EXCEPT !.pc = pc]

Begin(c) ==
  [Idle EXCEPT !.cmd = c, !.plan = Plan(c), !.saw = Ids("INBOX"),
     !.pc = CASE c.op = "connect" -> "reconnect"
              [] c.op = "send" -> "smtp"
              [] c.op = "disconnect" /\ conn = "none" -> "clear"
              [] c.op \notin {"connect", "send", "disconnect"} /\ conn = "none" -> "reconnect"
              [] OTHER -> "exchange",
     !.ret = IF c.op = "connect" THEN "connect" ELSE "ensure"]

(* Mutant: sending without settings is reported, and goes on.               *)
runSendsUnconfigured ==
  LET c == Head(queue) IN
  /\ At("pop") /\ popTakes
  /\ conf' = IF c.op = "connect" THEN c.arg # "empty" ELSE conf
  /\ wk' = Begin(c)
  /\ results' = IF c.op = "send" /\ ~conf THEN Posted(Result(c, FALSE)) ELSE results
  /\ UNCHANGED <<conn, cur, halt, issued>> /\ UNCHANGED serverVars

run ==
  LET c == Head(queue)
      unconfigured == c.op = "send" /\ ~conf
  IN
  /\ At("pop") /\ popTakes
  /\ conf' = IF c.op = "connect" THEN c.arg # "empty" ELSE conf
  /\ wk' = IF unconfigured THEN Idle ELSE Begin(c)
  /\ results' = IF unconfigured THEN Posted(Result(c, FALSE)) ELSE results
  /\ UNCHANGED <<conn, cur, halt, issued>> /\ UNCHANGED serverVars

runWaits == At("pop") /\ popWaits /\ UNCHANGED workerVars /\ UNCHANGED serverVars

runEnds ==
  /\ At("pop") /\ popEnds /\ Goto("done")
  /\ UNCHANGED <<conn, cur, conf, halt, issued, results>> /\ UNCHANGED serverVars

-----------------------------------------------------------------------------
(* The end of imapExchange: the requests that remain. The alternatives are  *)
(* always a handler's last requests.                                        *)

Rest(ok) ==
  CASE ok /\ Head(wk.plan).onFail = "else" -> <<>>
    [] ~ok /\ Head(wk.plan).onFail = "stop" -> <<Refuse>>
    [] OTHER -> Tail(wk.plan)

ExchangeReturns(ok) == wk' = [wk EXCEPT !.pc = "exchange", !.plan = Rest(ok), !.attempt = 0]

(* Nothing is left to ask, or the handler gives up. A download can fail     *)
(* still: no such attachment, or the file cannot be written.                *)
NoMore == At("exchange") /\ Head(Append(wk.plan, Refuse)) = Refuse

HandlerReturns ==
  /\ NoMore /\ wk.cmd.op # "disconnect"
  /\ \E ok \in BOOLEAN :
       /\ ok => wk.plan = <<>>
       /\ wk.plan = <<>> => ok \/ wk.cmd.op = "getatt"
       /\ Finish(ok)
  /\ UNCHANGED <<queueVars, conn, cur, conf, halt, issued>> /\ UNCHANGED serverVars

Asking(r) == r.verb # "SELECT" \/ r.arg # cur

(* The mailbox is selected already.                                         *)
ensureMailboxSelected ==
  /\ At("exchange") /\ ~NoMore /\ ~Asking(Head(wk.plan))
  /\ wk' = [wk EXCEPT !.plan = Tail(@)]
  /\ UNCHANGED <<queueVars, conn, cur, conf, halt, issued, results>> /\ UNCHANGED serverVars

Sending == At("exchange") /\ ~NoMore /\ Asking(Head(wk.plan))

ExchangeNeedsConnection ==
  /\ Sending /\ conn = "none"
  /\ wk' = [wk EXCEPT !.pc = "reconnect", !.ret = "again"]
  /\ UNCHANGED <<queueVars, conn, cur, conf, halt, issued, results>> /\ UNCHANGED serverVars

(* The folder the worker takes for selected afterwards.                     *)
FolderAfter(r, ok) ==
  CASE r.verb = "SELECT" /\ ok -> r.arg
    [] r.verb = "DELETE" /\ ok /\ cur = r.arg -> Nowhere
    [] OTHER -> cur

(* Sent, executed and answered. A FETCH of a message that is not there is   *)
(* answered OK and yields no payload.                                       *)
ExchangeAnswered ==
  LET r == Head(wk.plan)
      ok == Accepts(sel, r)
      empty == r.verb = "FETCH" /\ r.id > 0 /\ r.id \notin DOMAIN Listed(sel)
  IN
  /\ Sending /\ conn = "up"
  /\ boxes' = Executed(sel, r) /\ sel' = SelectedAfter(r)
  /\ ghost' = Recorded(sel, r, wk.cmd.no, wk.cmd.op, wk.saw)
  /\ cur' = FolderAfter(r, ok)
  /\ ExchangeReturns(ok /\ ~empty)
  /\ UNCHANGED <<queueVars, conn, conf, halt, issued, results, late, mail, accepted, faults>>

(* COPY is answered OK although the copy could not be stored.               *)
ExchangeNotCopied ==
  /\ Sending /\ conn = "up" /\ faults < MaxFaults
  /\ Head(wk.plan).verb = "COPY" /\ Accepts(sel, Head(wk.plan))
  /\ faults' = faults + 1
  /\ ghost' = [ghost EXCEPT !.uncopied = TRUE]
  /\ ExchangeReturns(TRUE)
  /\ UNCHANGED <<queueVars, conn, cur, conf, halt, issued, results, boxes, sel, late, mail, accepted>>

(* A transport failure: the first time the request is sent again on a new   *)
(* connection. The server has not read it, has executed it, or will.        *)
ExchangeFails ==
  LET r == Head(wk.plan) IN
  /\ Sending
  /\ \/ conn = "broken" /\ UNCHANGED serverVars
     \/ /\ conn = "up" /\ faults < MaxFaults
        /\ faults' = faults + 1
        /\ \/ UNCHANGED <<boxes, ghost, late>>
           \/ /\ boxes' = Executed(sel, r)
              /\ ghost' = Recorded(sel, r, wk.cmd.no, wk.cmd.op, wk.saw)
              /\ UNCHANGED late
           \/ /\ late' = late \cup {[r |-> r, box |-> sel, no |-> wk.cmd.no, op |-> wk.cmd.op, saw |-> wk.saw]}
              /\ UNCHANGED <<boxes, ghost>>
        /\ UNCHANGED <<sel, mail, accepted>>
  /\ conn' = "broken"
  /\ IF wk.attempt = 0
     THEN wk' = [wk EXCEPT !.pc = "reconnect", !.ret = "retry"]
     ELSE ExchangeReturns(FALSE)
  /\ UNCHANGED <<queueVars, cur, conf, halt, issued, results>>

-----------------------------------------------------------------------------
(* reconnectSession.                                                        *)

(* Without settings it returns at once; when stop was called it reports     *)
(* that and returns.                                                        *)
reconnectGivesUp ==
  /\ At("reconnect")
  /\ \/ ~conf /\ UNCHANGED results
     \/ conf /\ halt # "no" /\ Post(Reconnect(FALSE, "canceled"))
  /\ wk' = [wk EXCEPT !.pc = "failed"]
  /\ UNCHANGED <<queueVars, conn, cur, conf, halt, issued>> /\ UNCHANGED serverVars

(* Mutant: m_stopRequested is not tested again.                             *)
reconnectStartsRegardless ==
  /\ At("reconnect") /\ conf
  /\ Post(Reconnect(TRUE, "trying"))
  /\ conn' = "none" /\ sel' = Nowhere
  /\ Goto("connecting")
  /\ UNCHANGED <<queueVars, cur, conf, halt, issued, boxes, late, mail, accepted, faults, ghost>>

reconnectStarts ==
  /\ At("reconnect") /\ conf /\ halt = "no"
  /\ Post(Reconnect(TRUE, "trying"))
  /\ conn' = "none" /\ sel' = Nowhere
  /\ Goto("connecting")
  /\ UNCHANGED <<queueVars, cur, conf, halt, issued, boxes, late, mail, accepted, faults, ghost>>

(* Mutant: the name and password are not those of the last connect.         *)
authenticateSmtpStale(works) == FALSE

(* Greeting, EHLO, STARTTLS, handshake, EHLO and AUTH; banner, STARTTLS,    *)
(* handshake and LOGIN. "works" says that every step gets through.          *)
authenticateSmtp(works) == works /\ accepted
loginImap(works) == works /\ accepted

(* Mutant: the folder that was selected on the old connection is kept.      *)
LoggedInKeepsFolder == conn' = "up" /\ UNCHANGED <<cur, sel>>

(* Mutant: the folder is selected again on the new connection.              *)
LoggedInReselects == conn' = "up" /\ sel' = cur /\ UNCHANGED cur

(* The new connection has no mailbox selected, and the worker knows.        *)
LoggedIn == conn' = "up" /\ cur' = Nowhere /\ UNCHANGED sel

(* One attempt. A failure is reported and followed by the delay and the     *)
(* loop's test of m_stopRequested.                                          *)
reconnectTries ==
  /\ At("connecting")
  /\ \E smtp, imap \in BOOLEAN :
       IF authenticateSmtp(smtp) /\ loginImap(imap)
       THEN /\ LoggedIn
            /\ Post(Reconnect(FALSE, "Reconnected")) /\ Goto("connected") /\ UNCHANGED faults
       ELSE /\ IF smtp /\ imap THEN UNCHANGED faults ELSE faults < MaxFaults /\ faults' = faults + 1
            /\ Post(Reconnect(TRUE, "trying")) /\ Goto("reconnect") /\ UNCHANGED <<conn, cur, sel>>
  /\ UNCHANGED <<queueVars, conf, halt, issued, boxes, late, mail, accepted, ghost>>

(* Its callers: handleConnect and the others that report the failure, and   *)
(* imapExchange.                                                            *)
reconnectReturns ==
  LET ok == At("connected") IN
  /\ wk.pc \in {"connected", "failed"}
  /\ \/ (wk.ret = "connect" \/ (wk.ret \in {"ensure", "smtp"} /\ ~ok)) /\ Finish(ok)
     \/ /\ wk.ret # "connect" /\ ok
        /\ wk' = [wk EXCEPT !.pc = IF wk.ret = "smtp" THEN "smtp again" ELSE "exchange",
                            !.attempt = IF wk.ret = "retry" THEN 1 ELSE @]
        /\ UNCHANGED results
     \/ wk.ret \in {"retry", "again"} /\ ~ok /\ ExchangeReturns(FALSE) /\ UNCHANGED results
  /\ UNCHANGED <<queueVars, conn, cur, conf, halt, issued>> /\ UNCHANGED serverVars

-----------------------------------------------------------------------------
(* handleDisconnect, after LOGOUT or when there was no connection. It does  *)
(* not ask whether imapExchange has left one to close.                      *)

LoggedOut == NoMore /\ wk.cmd.op = "disconnect"

DisconnectClears ==
  /\ At("clear") \/ (LoggedOut /\ conn # "none")
  /\ Post(Reconnect(FALSE, "none"))
  /\ conn' = "none" /\ sel' = Nowhere /\ cur' = Nowhere /\ conf' = FALSE
  /\ Goto("bye")
  /\ UNCHANGED <<queueVars, halt, issued, boxes, late, mail, accepted, faults, ghost>>

DisconnectCrashes ==
  /\ LoggedOut /\ conn = "none" /\ Goto("crashed")
  /\ UNCHANGED <<queueVars, conn, cur, conf, halt, issued, results>> /\ UNCHANGED serverVars

DisconnectEnds ==
  /\ At("bye")
  /\ Finish(TRUE)
  /\ UNCHANGED <<queueVars, conn, cur, conf, halt, issued>> /\ UNCHANGED serverVars

-----------------------------------------------------------------------------
(* handleSendMail, on an SMTP connection of its own.                        *)

SmtpUnchanged == UNCHANGED <<queueVars, conn, cur, conf, halt, issued, boxes, sel, late, accepted, ghost>>

SmtpConnects ==
  /\ wk.pc \in {"smtp", "smtp again"}
  /\ \/ Goto("dialogue") /\ UNCHANGED <<results, faults>>
     \/ /\ faults < MaxFaults /\ faults' = faults + 1
        /\ IF At("smtp") THEN wk' = [wk EXCEPT !.pc = "reconnect", !.ret = "smtp"] /\ UNCHANGED results
           ELSE Finish(FALSE)
  /\ UNCHANGED mail /\ SmtpUnchanged

(* Greeting to DATA: every reply has its expected code, or the command has  *)
(* failed. The address list may be empty.                                   *)
SmtpDialogue ==
  /\ At("dialogue")
  /\ \/ /\ accepted /\ wk.cmd.arg # "nobody"
        /\ mail' = [mail EXCEPT ![wk.cmd.no] = "data"]
        /\ Goto("body") /\ UNCHANGED results
     \/ Finish(FALSE) /\ UNCHANGED mail
  /\ UNCHANGED faults /\ SmtpUnchanged

(* Attachments, the MIME message and its lines up to the final dot, which   *)
(* is what makes the server decide.                                         *)
SmtpBody ==
  /\ At("body")
  /\ \/ /\ \E fate \in {"accepted", "rejected"} : mail' = [mail EXCEPT ![wk.cmd.no] = fate]
        /\ Goto("reply") /\ UNCHANGED results
     \/ mail' = [mail EXCEPT ![wk.cmd.no] = "none"] /\ Finish(FALSE)
  /\ UNCHANGED faults /\ SmtpUnchanged

(* Mutant: a lost reply is taken for success.                               *)
SmtpReplyOptimistic ==
  /\ At("reply") /\ Finish(TRUE)
  /\ UNCHANGED <<faults, mail>> /\ SmtpUnchanged

SmtpReply ==
  /\ At("reply")
  /\ \/ mail[wk.cmd.no] = "accepted" /\ Finish(TRUE)
     \/ Finish(FALSE)
  /\ UNCHANGED <<faults, mail>> /\ SmtpUnchanged

-----------------------------------------------------------------------------
(* The server on its own.                                                   *)

(* The connection breaks while no command is handled; when one is, this is  *)
(* a failed exchange.                                                       *)
ConnectionLost ==
  /\ At("pop") /\ conn = "up" /\ faults < MaxFaults
  /\ conn' = "broken" /\ faults' = faults + 1
  /\ UNCHANGED <<queueVars, wk, cur, conf, halt, issued, results, boxes, sel, late, mail, accepted, ghost>>

LateExecution ==
  \E x \in late :
    /\ late' = late \ {x}
    /\ boxes' = Executed(x.box, x.r)
    /\ ghost' = Recorded(x.box, x.r, x.no, x.op, x.saw)
    /\ UNCHANGED <<queueVars, sel, mail, accepted, faults>> /\ UNCHANGED workerVars

MailArrives ==
  /\ \A f \in DOMAIN boxes : \A i \in DOMAIN boxes[f] : boxes[f][i].m # NewMail
  /\ NewMail \notin ghost.asked
  /\ boxes' = [boxes EXCEPT !["INBOX"] = Append(@, [m |-> NewMail, flags |-> {}])]
  /\ UNCHANGED <<queueVars, sel, late, mail, accepted, faults, ghost>> /\ UNCHANGED workerVars

(* Another session removes the first message of INBOX.                      *)
OtherExpunge ==
  /\ boxes["INBOX"] # <<>> /\ faults < MaxFaults
  /\ boxes' = [boxes EXCEPT !["INBOX"] = Tail(@)]
  /\ ghost' = [ghost EXCEPT !.asked = @ \cup {Head(boxes["INBOX"]).m}]
  /\ faults' = faults + 1
  /\ UNCHANGED <<queueVars, sel, late, mail, accepted>> /\ UNCHANGED workerVars

-----------------------------------------------------------------------------
(* The front end's thread: a command, and stop().                           *)

Ask(op, id, arg) ==
  /\ halt = "no" /\ issued < MaxCommands
  /\ issued' = issued + 1
  /\ push([op |-> op, no |-> issued + 1, id |-> id, arg |-> arg])
  /\ UNCHANGED <<wk, conn, cur, conf, halt, results>> /\ UNCHANGED serverVars

stop ==
  /\ \/ halt = "no" /\ ~notifying /\ halt' = "flag" /\ UNCHANGED queueVars
     \/ halt = "flag" /\ halt' = "queue" /\ stopQueue
     \/ halt = "queue" /\ ~notifying /\ At("done") /\ halt' = "joined" /\ UNCHANGED queueVars
  /\ UNCHANGED <<issued, wk, conn, cur, conf, results>> /\ UNCHANGED serverVars

Notify == notify /\ UNCHANGED workerVars /\ UNCHANGED serverVars

imapExchange ==
  ExchangeNeedsConnection \/ ExchangeAnswered \/ ExchangeNotCopied \/ ExchangeFails
reconnectSession == reconnectGivesUp \/ reconnectStarts \/ reconnectTries \/ reconnectReturns
handleSendMail == SmtpConnects \/ SmtpDialogue \/ SmtpBody \/ SmtpReply
handleDisconnect == DisconnectClears \/ DisconnectCrashes \/ DisconnectEnds

WorkerStep ==
  \/ run \/ runWaits \/ runEnds
  \/ ensureMailboxSelected \/ HandlerReturns \/ imapExchange \/ reconnectSession
  \/ handleSendMail \/ handleDisconnect

-----------------------------------------------------------------------------
(* Properties.                                                              *)

Kept == [f \in DOMAIN boxes |-> ToSet(Ids(f))]

(* m_currentFolder, which saves a SELECT, is what the server has selected   *)
(* on the present connection, through reconnections, DELETE and failures.   *)
CurrentFolderAgrees == conn = "up" /\ cur # Nowhere => sel = cur

(* A command copies a message at most once, although COPY may be sent a     *)
(* second time after it was executed: the new connection has no mailbox     *)
(* selected, so the server refuses it.                                      *)
AtMostOneCopy == \A n \in DOMAIN ghost.copies : ghost.copies[n] <= 1

(* No message disappears unless its removal was asked for, whatever fails   *)
(* between the COPY, STORE and EXPUNGE of a move: as long as no number      *)
(* came to name another message and no COPY was answered without copying.   *)
MoveLosesNothing ==
  ghost.renumbered \/ ghost.uncopied
  \/ \A f \in DOMAIN StartBoxes :
       ToSet(StartBoxes[f]) \subseteq UNION {Kept[g] : g \in DOMAIN boxes} \cup ghost.asked

(* A command reported as done has been done: a sent mail was accepted by    *)
(* the server, a deleted or moved message is gone from INBOX, a moved one   *)
(* has been copied, a read one is marked; under the proviso above.          *)
Done(c) ==
  LET i == c.id
      left == {x \in ToSet(boxes'["INBOX"]) : x.m = wk.saw[i]}
  IN
  /\ c.op = "send" => mail[c.no] = "accepted"
  /\ (c.op \in {"delete", "move", "read"} /\ i \in DOMAIN wk.saw) =>
       /\ c.op \in {"delete", "move"} => left = {}
       /\ c.op = "move" => ghost'.copies[c.no] = 1
       /\ c.op = "read" => \A x \in left : "\\Seen" \in x.flags

Succeeds ==
  /\ Len(results') > Len(results)
  /\ Last(results').ok /\ Last(results').no = wk.cmd.no

SuccessMeansDone ==
  [][Succeeds /\ ~ghost'.renumbered /\ ~ghost'.uncopied => Done(wk.cmd)]_vars

Busy == queue # <<>> \/ wk.pc \notin {"pop", "done", "crashed"}

(* When the servers accept the user and failures end, the worker gets       *)
(* through every command it was given. (When they do not, reconnectSession  *)
(* tries for ever and the command is never answered.)                       *)
CommandsAnswered == accepted /\ Busy ~> ~Busy

(* stop() returns whatever the worker is doing: the reconnection loop sees  *)
(* m_stopRequested, the sleeping worker is woken; unless the program has    *)
(* crashed in handleDisconnect.                                             *)
StopReturns == halt # "no" ~> halt = "joined" \/ At("crashed")
=============================================================================
