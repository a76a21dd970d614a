----------------------------- MODULE MailDelivery -----------------------------
(***************************************************************************)
(* SmtpSession::SaveMessage run by concurrent SMTP sessions, down to the   *)
(* statements it executes: for each recipient it finds the account,        *)
(* registers it when it is missing, finds INBOX, writes the mail file,     *)
(* delivers the message row and adds the recipient row. Any of these may   *)
(* fail (then the recipient is skipped) and the server may crash between   *)
(* any two of them; what is committed or on disk stays.                    *)
(*                                                                         *)
(* registerUser holds the write lock over its inserts, but every insert    *)
(* commits by itself, so other sessions read a half made account.          *)
(***************************************************************************)
EXTENDS Naturals, FiniteSets, Sequences

CONSTANTS
  Sessions,     \* SMTP sessions, each with a mail to submit
  Users,        \* user names recipients are mapped to
  Envelopes,    \* a mail's recipients (a sequence of Users) for each session
  FolderCount,  \* folders registerUser creates (INBOX is the first)
  MaxFaults,    \* bound: statements and file writes that fail
  MaxCrashes,   \* bound: crashes of the server
  MaxSends,     \* bound: times a client submits its mail
  NoOne

ASSUME DeliveryAssumption ==
  /\ Envelopes \in [Sessions -> Seq(Users)]
  /\ FolderCount \in Nat \ {0}
  /\ MaxSends \in Nat /\ MaxCrashes \in Nat /\ MaxFaults \in Nat
  /\ NoOne \notin Sessions

VARIABLES
  account,   \* user -> 0: no row; 1 + k: row and its first k folders
  writer,    \* session that holds DataBaseManager::writeLock(), or NoOne
  files,     \* mail files created on disk
  rows,      \* delivered message rows: the mailbox owner and the file
  addressed, \* message rows that have a recipients row
  job,       \* per session: the call of SaveMessage
  mail,      \* per session: the client's mail, the outcome of its last submission,
             \* and whether a submission ever ended without a reply
  crashes,   \* crashes so far
  faults,    \* failures so far
  ready      \* per session: accounts complete when this submission began (history)

vars == <<account, writer, files, rows, addressed, job, mail, crashes, faults, ready>>
store == <<account, writer, files, rows, addressed>>
history == <<crashes, ready>>

Complete == 1 + FolderCount
HasRow(u) == account[u] > 0
HasInbox(u) == account[u] > 1

Pcs == {"idle", "find", "check", "insert", "folders", "refind", "inbox",
        "file", "deliver", "address"}
FileNames == [mail : Sessions, send : Nat, i : Nat]
Outcomes == {"none", "sending", "250", "452"}

NoJob == [pc |-> "idle", i |-> 0, any |-> FALSE]

Init ==
  /\ account \in [Users -> {0, Complete}]
  /\ writer = NoOne
  /\ files = {}
  /\ rows = {}
  /\ addressed = {}
  /\ job = [s \in Sessions |-> NoJob]
  /\ mail = [s \in Sessions |-> [env |-> Envelopes[s], sends |-> 0, outcome |-> "none", lost |-> FALSE]]
  /\ crashes = 0 /\ faults = 0
  /\ ready = [s \in Sessions |-> {}]

-----------------------------------------------------------------------------
(* A statement or a file write fails.                                       *)
Fault == faults < MaxFaults /\ faults' = faults + 1

Goto(s, pc) == job' = [job EXCEPT ![s].pc = pc]

Recipient(s) == mail[s].env[job[s].i]

(* Whether any_saved holds when the last recipient is done decides the reply. *)
Reply(s, saved) ==
  /\ job' = [job EXCEPT ![s] = NoJob]
  /\ mail' = [mail EXCEPT ![s].outcome = IF saved THEN "250" ELSE "452"]

(* Mutant: the loop ends with the first recipient that is served.           *)
NextRecipientUnlessSaved(s, saved) ==
  IF job[s].i < Len(mail[s].env) /\ ~saved
  THEN /\ job' = [job EXCEPT ![s] = [NoJob EXCEPT !.pc = "find", !.i = job[s].i + 1, !.any = saved]]
       /\ UNCHANGED mail
  ELSE Reply(s, saved)

(* Go on with the next recipient of the loop.                               *)
NextRecipient(s, saved) ==
  IF job[s].i < Len(mail[s].env)
  THEN /\ job' = [job EXCEPT ![s] = [NoJob EXCEPT !.pc = "find", !.i = job[s].i + 1, !.any = saved]]
       /\ UNCHANGED mail
  ELSE Reply(s, saved)

(* Mutant: a recipient that fails ends the whole call with false.           *)
SkipEndsCall(s) == Reply(s, FALSE)

(* continue: the recipient is skipped.                                      *)
Skip(s) == NextRecipient(s, job[s].any)

-----------------------------------------------------------------------------
(* The "." line of a mail with recipients; the client may submit again      *)
(* after 452, and also after a lost connection, where it cannot know.       *)
Submit(s) ==
  /\ job[s].pc = "idle"
  /\ mail[s].outcome # "250" /\ mail[s].sends < MaxSends
  /\ Len(mail[s].env) > 0
  /\ job' = [job EXCEPT ![s] = [NoJob EXCEPT !.pc = "find", !.i = 1]]
  /\ mail' = [mail EXCEPT ![s].sends = @ + 1, ![s].outcome = "sending"]
  /\ ready' = [ready EXCEPT ![s] = {u \in Users : account[u] = Complete}]
  /\ UNCHANGED <<store, crashes, faults>>

(* A query that fails returns nothing, as if there were no such user.       *)
FindUser(s) ==
  /\ job[s].pc = "find"
  /\ \/ Goto(s, IF HasRow(Recipient(s)) THEN "inbox" ELSE "check") /\ UNCHANGED faults
     \/ HasRow(Recipient(s)) /\ Fault /\ Goto(s, "check")
  /\ UNCHANGED <<store, mail, history>>

(* registerUser: a user that has appeared meanwhile is an error.            *)
RegisterCheck(s) ==
  /\ job[s].pc = "check"
  /\ \/ HasRow(Recipient(s)) /\ Skip(s) /\ UNCHANGED faults
     \/ ~HasRow(Recipient(s)) /\ Goto(s, "insert") /\ UNCHANGED <<mail, faults>>
     \/ HasRow(Recipient(s)) /\ Fault /\ Goto(s, "insert") /\ UNCHANGED mail
  /\ UNCHANGED <<store, history>>

(* Mutant: the lock is taken but the error return does not release it.      *)
RegisterInsertKeepsLock(s) ==
  /\ job[s].pc = "insert"
  /\ writer = NoOne
  /\ IF HasRow(Recipient(s))
     THEN /\ Skip(s)
          /\ writer' = s
          /\ UNCHANGED account
     ELSE /\ account' = [account EXCEPT ![Recipient(s)] = 1]
          /\ writer' = s
          /\ Goto(s, "folders")
          /\ UNCHANGED mail
  /\ UNCHANGED <<files, rows, addressed, faults, history>>

(* UserDAL::insert under the lock: UNIQUE refuses a second row of the name. *)
RegisterInsert(s) ==
  /\ job[s].pc = "insert"
  /\ writer = NoOne
  /\ IF HasRow(Recipient(s))
     THEN /\ Skip(s)
          /\ UNCHANGED <<account, writer>>
     ELSE /\ account' = [account EXCEPT ![Recipient(s)] = 1]
          /\ writer' = s
          /\ Goto(s, "folders")
          /\ UNCHANGED mail
  /\ UNCHANGED <<files, rows, addressed, faults, history>>

(* One folder insert; the lock is released when the last one is in.         *)
RegisterFolder(s) ==
  /\ job[s].pc = "folders"
  /\ account' = [account EXCEPT ![Recipient(s)] = @ + 1]
  /\ IF account'[Recipient(s)] = Complete
     THEN writer' = NoOne /\ Goto(s, "refind")
     ELSE UNCHANGED <<writer, job>>
  /\ UNCHANGED <<files, rows, addressed, mail, faults, history>>

FindRegistered(s) ==
  /\ job[s].pc = "refind"
  /\ Goto(s, "inbox")
  /\ UNCHANGED <<store, mail, faults, history>>

FindInbox(s) ==
  /\ job[s].pc = "inbox"
  /\ IF HasInbox(Recipient(s)) THEN Goto(s, "file") /\ UNCHANGED mail ELSE Skip(s)
  /\ UNCHANGED <<store, faults, history>>

(* GenerateMailFilename: a name of its own for every file written.          *)
FileName(s) == [mail |-> s, send |-> mail[s].sends, i |-> job[s].i]
Row(s) == [user |-> Recipient(s), file |-> FileName(s)]

WriteMailToFile(s) ==
  /\ job[s].pc = "file"
  /\ files' = files \cup {FileName(s)}
  /\ Goto(s, "deliver")
  /\ UNCHANGED <<account, writer, rows, addressed, mail, faults, history>>

(* deliver commits the row with its UID in one transaction under the lock.  *)
Deliver(s) ==
  /\ job[s].pc = "deliver"
  /\ writer = NoOne
  /\ rows' = rows \cup {Row(s)}
  /\ Goto(s, "address")
  /\ UNCHANGED <<account, writer, files, addressed, mail, faults, history>>

(* addRecipient: its result is ignored, the message counts as saved.        *)
AddRecipient(s) ==
  /\ job[s].pc = "address"
  /\ writer = NoOne
  /\ \/ addressed' = addressed \cup {Row(s)} /\ UNCHANGED faults
     \/ Fault /\ UNCHANGED addressed
  /\ NextRecipient(s, TRUE)
  /\ UNCHANGED <<account, writer, files, rows, history>>

(* A statement, the password hash, or the mail file fails: the call gives   *)
(* the recipient up. A lock it holds is released, folders stay as they are, *)
(* and so does a file that was created and not written completely.          *)
StatementFails(s) ==
  /\ Fault
  /\ job[s].pc \in {"insert", "folders", "refind", "inbox", "file", "deliver"}
  /\ Skip(s)
  /\ writer' = IF writer = s THEN NoOne ELSE writer
  /\ \/ UNCHANGED files
     \/ job[s].pc = "file" /\ files' = files \cup {FileName(s)}
  /\ UNCHANGED <<account, rows, addressed, history>>

(* The process dies: calls and the lock are gone, the clients see their     *)
(* connection drop before a reply.                                          *)
Crash ==
  /\ crashes < MaxCrashes
  /\ crashes' = crashes + 1
  /\ \E s \in Sessions : job[s].pc # "idle"
  /\ job' = [s \in Sessions |-> NoJob]
  /\ mail' = [s \in Sessions |-> IF job[s].pc = "idle" THEN mail[s]
                                 ELSE [mail[s] EXCEPT !.outcome = "none", !.lost = TRUE]]
  /\ writer' = NoOne
  /\ UNCHANGED <<account, files, rows, addressed, faults, ready>>

Work(s) ==
  \/ FindUser(s)
  \/ RegisterCheck(s)
  \/ RegisterInsert(s)
  \/ RegisterFolder(s)
  \/ FindRegistered(s)
  \/ FindInbox(s)
  \/ WriteMailToFile(s)
  \/ Deliver(s)
  \/ AddRecipient(s)
  \/ StatementFails(s)

Next == (\E s \in Sessions : Submit(s) \/ Work(s)) \/ Crash

(* A worker thread that can go on does, the lock included: between two      *)
(* submissions a session takes the lock a bounded number of times.          *)
Spec == Init /\ [][Next]_vars /\ \A s \in Sessions : WF_vars(Work(s))

-----------------------------------------------------------------------------
CopiesOf(s) == {row \in rows : row.file.mail = s}
CopiesFor(s, u) == {row \in CopiesOf(s) : row.user = u}
Mentions(s, u) == {i \in DOMAIN mail[s].env : mail[s].env[i] = u}

(* Types; an account has at most the folders registerUser creates, and only *)
(* delivered rows have recipient rows.                                      *)
TypeOK ==
  /\ account \in [Users -> 0..Complete]
  /\ writer \in Sessions \cup {NoOne}
  /\ files \subseteq FileNames
  /\ rows \subseteq [user : Users, file : FileNames]
  /\ addressed \subseteq rows
  /\ job \in [Sessions -> [pc : Pcs, i : Nat, any : BOOLEAN]]
  /\ mail \in [Sessions -> [env : Seq(Users), sends : 0..MaxSends, outcome : Outcomes, lost : BOOLEAN]]
  /\ crashes \in 0..MaxCrashes /\ faults \in 0..MaxFaults
  /\ ready \in [Sessions -> SUBSET Users]

(* Whatever fails or crashes, a delivered row's raw_file_path names a file  *)
(* that exists: the file comes first and is never removed.                  *)
RowHasFile == \A row \in rows : row.file \in files

(* 452 promises that nothing of the mail was stored: a mail all of whose    *)
(* submissions were answered 452 has no row and is safe to send again.      *)
RefusedMeansAbsent ==
  \A s \in Sessions : (mail[s].outcome = "452" /\ ~mail[s].lost) => CopiesOf(s) = {}

(* Resending after 452 never duplicates: a recipient gets at most one row   *)
(* per time the envelope names them, as long as no reply was lost.          *)
NoDuplicates ==
  \A s \in Sessions, u \in Users :
    ~mail[s].lost => Cardinality(CopiesFor(s, u)) <= Cardinality(Mentions(s, u))

(* 250 is answered only for a mail that is in some mailbox.                 *)
AcceptedIsStored == \A s \in Sessions : mail[s].outcome = "250" => CopiesOf(s) # {}

(* Without failures a mail that was accepted is in the mailbox of every     *)
(* recipient whose account was complete when the mail was submitted,        *)
(* whatever registrations run beside it.                                    *)
ReadyRecipientsServed ==
  \A s \in Sessions : (mail[s].outcome = "250" /\ faults = 0) =>
     \A u \in ready[s] : Cardinality(CopiesFor(s, u)) >= Cardinality(Mentions(s, u))

(* Every submission ends: in a reply, or with the server.                   *)
EverySubmissionEnds ==
  \A s \in Sessions : (mail[s].outcome = "sending") ~> (mail[s].outcome # "sending")
=============================================================================
