---------------------------- MODULE ImapCommands ----------------------------
(***************************************************************************)
(* ImapCommandDispatcher: the IMAP state machine of a session and the      *)
(* handlers it runs on a pool worker. Several sessions are open at once;   *)
(* each runs one command at a time, and a handler is cut at every call it  *)
(* makes to MessageRepository, so the calls of two sessions, and mail that *)
(* arrives meanwhile, interleave. What happens inside one repository call  *)
(* is the subject of MailStore; here a call is one step, except copy,      *)
(* whose UID is read in one step and used in another, and expunge.         *)
(***************************************************************************)
EXTENDS Integers, Sequences, FiniteSets, SequencesExt, FiniteSetsExt, TLC

CONSTANTS
  Sessions,       \* open connections
  Users,          \* registered users
  NoUser,         \* m_authenticatedUserID is empty
  StartFolders,   \* names of the folders a user is registered with
  Names,          \* mailbox names used as arguments; a name is a sequence of parts
  SequenceSets,   \* sequence-set arguments: sequences of <<first, last>>
  UidSets,        \* the same for the UID commands; no range goes up to "*"
  ItemLists,      \* data-item arguments of FETCH
  Stores,         \* arguments of STORE: [sign, flags, silent]
  PageLimit,      \* default limit of findByFolder
  MaxFolders, MaxMsgs, MaxUid

ASSUME PageLimitAssumption == PageLimit \in Nat \ {0}

VARIABLES
  folders,   \* folder id -> [user, name, parent, nextUid, sub]
  msgs,      \* message id -> [folder, uid, flags, of]; of is the message it is a copy of, or 0
  lastFid, lastMid,
  st,        \* session -> [state, user, box]: m_state, m_authenticatedUserID, m_currentMailbox
  call,      \* session -> the command being handled
  view       \* session -> [next, had]: UIDNEXT of the last SELECT and what the folder held

vars == <<folders, msgs, lastFid, lastMid, st, call, view>>

Flags == {"\\Seen", "\\Deleted", "\\Recent"}
INBOX == <<"INBOX">>
Star == 0                     \* "*" in a sequence set

Fresh == [state |-> "NonAuthenticated", user |-> NoUser, box |-> 0]
NoView == [next |-> 1, had |-> {}]

Idle ==
  [pc |-> "idle", cmd |-> "none", fid |-> 0, mid |-> 0, list |-> <<>>, todo |-> <<>>,
   arg |-> <<>>, out |-> <<>>]

TablesInit ==
  LET ids == 1..(Cardinality(Users) * Len(StartFolders))
      users == SetToSeq(Users)
  IN
  /\ folders = [f \in ids |->
                  [user |-> users[((f - 1) \div Len(StartFolders)) + 1],
                   name |-> StartFolders[((f - 1) % Len(StartFolders)) + 1],
                   parent |-> 0, nextUid |-> 1, sub |-> TRUE]]
  /\ lastFid = Cardinality(ids)
  /\ msgs = << >>
  /\ lastMid = 0

Init ==
  /\ TablesInit
  /\ st = [s \in Sessions |-> Fresh]
  /\ call = [s \in Sessions |-> Idle]
  /\ view = [s \in Sessions |-> NoView]

-----------------------------------------------------------------------------
(* The repository calls the handlers make.                                  *)

(* A set of natural numbers as a sequence.                                  *)
Ascending(S) ==
  IF S = {} THEN <<>> ELSE SelectSeq([i \in 1..(Max(S) + 1) |-> i - 1], LAMBDA n : n \in S)

MessagesIn(f) == {m \in DOMAIN msgs : msgs[m].folder = f}

(* MessageDAL::findByFolder: ordered by UID, at most PageLimit rows.        *)
findByFolder(f) ==
  LET uids == Ascending({msgs[m].uid : m \in MessagesIn(f)})
      rows == [i \in DOMAIN uids |->
                 [uid |-> uids[i], mid |-> CHOOSE m \in MessagesIn(f) : msgs[m].uid = uids[i]]]
  IN SubSeq(rows, 1, Min({Len(rows), PageLimit}))

(* Mutant: the UID is looked up without the folder.                         *)
findByUIDAnywhere(f, uid) == {m \in DOMAIN msgs : msgs[m].uid = uid}

findByUID(f, uid) == {m \in MessagesIn(f) : msgs[m].uid = uid}

findFolderByName(u, name) == {f \in DOMAIN folders : folders[f].user = u /\ folders[f].name = name}

Without(gone) == msgs' = [m \in DOMAIN msgs \ gone |-> msgs[m]]

(* ON DELETE CASCADE: the folders below f, however deep.                    *)
Below(f) ==
  {g \in DOMAIN folders :
     \A S \in SUBSET DOMAIN folders :
       (f \in S /\ \A h \in DOMAIN folders : folders[h].parent \in S => h \in S) => g \in S}

(* Insert with the given UID; refused when the UID is taken or the folder   *)
(* is gone (unique index, foreign key).                                     *)
CanInsert(f, uid) ==
  /\ f \in DOMAIN folders
  /\ \A m \in MessagesIn(f) : msgs[m].uid # uid

Insert(f, uid, flags, of) ==
  /\ msgs' = msgs @@ ((lastMid + 1) :> [folder |-> f, uid |-> uid, flags |-> flags, of |-> of])
  /\ lastMid' = lastMid + 1
  /\ folders' = [folders EXCEPT ![f].nextUid = @ + 1]

Room(f) == lastMid < MaxMsgs /\ (f \in DOMAIN folders => folders[f].nextUid <= MaxUid)

(* setFlags with one sign for all flags of the list.                        *)
NewFlags(flags, a) ==
  CASE a.sign = "+" -> flags \cup a.flags
    [] a.sign = "-" -> flags \ a.flags
    [] OTHER -> a.flags

TablesUnchanged == UNCHANGED <<folders, msgs, lastFid, lastMid>>

-----------------------------------------------------------------------------
(* ParseSequenceSet: a range is swapped into order, "*" is the highest      *)
(* number; the result is sorted and without duplicates.                     *)


ParseSequenceSet(set, maxValue) ==
  LET value(x) == IF x = Star THEN maxValue ELSE x
      range(p) == Min({value(p[1]), value(p[2])})..Max({value(p[1]), value(p[2])})
      numbers == UNION {range(set[i]) : i \in DOMAIN set}
  IN Ascending(numbers)

(* The numbers kept by "seq_num > 0 && seq_num <= size".                    *)
InRange(ids, list) == SelectSeq(ids, LAMBDA n : n \in 1..Len(list))

(* A UID set is parsed with INT64_MAX for "*", which is no message's UID;   *)
(* the loop over a range n:* would run until memory is exhausted.           *)
UidsOf(set) == ParseSequenceSet(set, MaxUid + 1)

-----------------------------------------------------------------------------
(* Control: Busy starts or continues a command. Ok, No and Bad finish it    *)
(* with a tagged answer only, Reply with untagged data, kept until the      *)
(* session has taken it.                                                    *)

Issue(s) == call[s].pc = "idle"
Authenticated(s) == st[s].state # "NonAuthenticated"
Selected(s) == st[s].state = "Selected"

Busy(s, rec) == call' = [call EXCEPT ![s] = rec]
Begin(s, rec) == Busy(s, rec @@ Idle)

Ok(s) == Busy(s, Idle)
No(s) == Busy(s, Idle)
Bad(s) == Busy(s, Idle)

Reply(s, cmd, list, out) == Begin(s, [pc |-> "reply", cmd |-> cmd, list |-> list, out |-> out])

SessionUnchanged == UNCHANGED <<st, view>>
Reads == TablesUnchanged /\ SessionUnchanged

-----------------------------------------------------------------------------
(* Commands valid in any state.                                             *)

(* Mutant: LOGIN changes the user and leaves a selected mailbox selected.   *)
LoginKeepsState(s, u) ==
  /\ Issue(s)
  /\ st' = [st EXCEPT ![s].user = u,
                      ![s].state = IF Selected(s) THEN "Selected" ELSE "Authenticated"]
  /\ Ok(s)
  /\ UNCHANGED view /\ TablesUnchanged

(* A successful LOGIN, also by a session that is logged in already: the     *)
(* state goes back to Authenticated and m_currentMailbox keeps its value.   *)
Login(s, u) ==
  /\ Issue(s)
  /\ st' = [st EXCEPT ![s].user = u, ![s].state = "Authenticated"]
  /\ Ok(s)
  /\ UNCHANGED view /\ TablesUnchanged

(* Wrong password, unknown user.                                            *)
LoginFails(s) == Issue(s) /\ No(s) /\ Reads

(* HandleCommand of the session answers an unknown command, and a command   *)
(* that needs a login before one, without calling the dispatcher; every     *)
(* handler answers a wrong number of arguments, and the message commands a  *)
(* missing selection, before it touches anything.                           *)
RefuseCommand(s) == Issue(s) /\ Bad(s) /\ Reads

(* NOOP, CAPABILITY, CHECK, STARTTLS: an answer and nothing else.           *)
Noop(s) == Issue(s) /\ Ok(s) /\ Reads
Capability(s) == Issue(s) /\ Ok(s) /\ Reads
Check(s) == Issue(s) /\ Selected(s) /\ Ok(s) /\ Reads
StartTLS(s) == Issue(s) /\ Ok(s) /\ Reads

(* After LOGOUT the dispatcher dies with the session; the next connection   *)
(* starts with a new one.                                                   *)
Logout(s) ==
  /\ Issue(s)
  /\ Ok(s)
  /\ st' = [st EXCEPT ![s] = Fresh]
  /\ view' = [view EXCEPT ![s] = NoView]
  /\ TablesUnchanged

Sent(s) == call[s].pc = "reply" /\ Busy(s, Idle) /\ Reads

-----------------------------------------------------------------------------
(* SELECT: the folder row, the list of messages, and the clearing of        *)
(* \Recent are three calls; EXISTS, RECENT and UIDNEXT come from the first  *)
(* two. Only the third makes the mailbox the selected one.                  *)

Select(s, name) ==
  LET found == findFolderByName(st[s].user, name)
  IN
  /\ Issue(s) /\ Authenticated(s)
  /\ \/ found = {} /\ Bad(s)
     \/ \E f \in found :
          Begin(s, [pc |-> "selectList", cmd |-> "SELECT", fid |-> f,
                    arg |-> [next |-> folders[f].nextUid, had |-> {}]])
  /\ Reads

SelectList(s) ==
  /\ call[s].pc = "selectList"
  /\ Busy(s, [call[s] EXCEPT !.pc = "selectClear", !.arg.had = MessagesIn(call[s].fid)])
  /\ Reads


SelectClear(s) ==
  LET f == call[s].fid IN
  /\ call[s].pc = "selectClear"
  /\ msgs' = [m \in DOMAIN msgs |->
                IF msgs[m].folder = f THEN [msgs[m] EXCEPT !.flags = @ \ {"\\Recent"}] ELSE msgs[m]]
  /\ st' = [st EXCEPT ![s].state = "Selected", ![s].box = f]
  /\ view' = [view EXCEPT ![s] = call[s].arg]
  /\ Ok(s)
  /\ UNCHANGED <<folders, lastFid, lastMid>>

(* CLOSE: expunge reads the ids of the deleted messages, then removes them; *)
(* the session leaves the selected state only when that succeeded.          *)
Close(s) ==
  /\ Issue(s) /\ Selected(s)
  /\ Begin(s, [pc |-> "close", cmd |-> "CLOSE",
               todo |-> Ascending({m \in MessagesIn(st[s].box) : "\\Deleted" \in msgs[m].flags})])
  /\ Reads

CloseExpunge(s) ==
  /\ call[s].pc = "close"
  /\ \/ /\ Without(Range(call[s].todo))
        /\ st' = [st EXCEPT ![s].state = "Authenticated", ![s].box = 0]
        /\ Ok(s)
     \/ /\ No(s)
        /\ UNCHANGED <<msgs, st>>
  /\ UNCHANGED <<folders, lastFid, lastMid, view>>

(* LIST, LSUB and STATUS only read.                                         *)
List(s) == Issue(s) /\ Authenticated(s) /\ Ok(s) /\ Reads
Lsub(s) == Issue(s) /\ Authenticated(s) /\ Ok(s) /\ Reads

Status(s, name, validItems) ==
  /\ Issue(s) /\ Authenticated(s)
  /\ IF findFolderByName(st[s].user, name) # {} /\ validItems
     THEN Ok(s)
     ELSE Bad(s)
  /\ Reads

-----------------------------------------------------------------------------
(* FETCH reads the list once and answers from it.                           *)

(* The macros ALL, FAST and FULL.                                           *)
ExpandItem(item) ==
  LET fast == {"FLAGS", "INTERNALDATE", "RFC822.SIZE"} IN
  CASE item = "ALL" -> fast \cup {"ENVELOPE"}
    [] item = "FAST" -> fast
    [] item = "FULL" -> fast \cup {"ENVELOPE", "BODY"}
    [] OTHER -> {item}

ItemNames == {"FLAGS", "INTERNALDATE", "RFC822.SIZE", "ENVELOPE", "BODY", "HEADER.FIELDS", "UID"}

(* Items that throw when the message's file or date cannot be read.         *)
MayThrow == {"INTERNALDATE", "ENVELOPE", "HEADER.FIELDS"}

(* An unknown item throws as soon as one message is answered.               *)
Throws(items, unreadable) ==
  \E item \in UNION {ExpandItem(i) : i \in items} :
     item \notin ItemNames \/ (unreadable /\ item \in MayThrow)

(* The number of an answer is taken from the parsed set by the index of the *)
(* message among those in range, as the code does.                          *)
Fetch(s, set, items, unreadable) ==
  LET list == findByFolder(st[s].box)
      asked == ParseSequenceSet(set, Len(list))
      ids == InRange(asked, list)
      out == [i \in DOMAIN ids |-> [n |-> asked[i], mid |-> list[ids[i]].mid]]
  IN
  /\ Issue(s) /\ Selected(s)
  /\ IF ids # <<>> /\ Throws(items, unreadable)
     THEN Bad(s)
     ELSE Reply(s, "FETCH", list, out)
  /\ Reads

(* UID FETCH reads the list for the sequence numbers, then looks every UID  *)
(* up by a call of its own.                                                 *)
UidFetch(s, set, items) ==
  /\ Issue(s) /\ Selected(s)
  /\ Begin(s, [pc |-> "uidFetch", cmd |-> "UID FETCH", list |-> findByFolder(st[s].box),
               todo |-> UidsOf(set), arg |-> [uids |-> Range(UidsOf(set)), items |-> items]])
  /\ Reads

(* seq_num: 0 when the UID is not in the list.                              *)
NumberOf(list, uid) ==
  LET at == {i \in DOMAIN list : list[i].uid = uid} IN IF at = {} THEN 0 ELSE Min(at)

(* Mutant: the loop stops at the first UID that names no message.           *)
UidFetchStepBreaks(s, unreadable) ==
  LET c == call[s]
      found == findByUID(st[s].box, Head(c.todo))
  IN
  /\ c.pc = "uidFetch" /\ c.todo # <<>>
  /\ \/ /\ found = {}
        /\ Busy(s, [c EXCEPT !.todo = <<>>])
     \/ \E m \in found :
          Busy(s, [c EXCEPT !.todo = Tail(@),
                            !.out = Append(@, [n |-> NumberOf(c.list, Head(c.todo)), mid |-> m,
                                               uid |-> Head(c.todo)])])
  /\ Reads

UidFetchStep(s, unreadable) ==
  LET c == call[s]
      found == findByUID(st[s].box, Head(c.todo))
  IN
  /\ c.pc = "uidFetch" /\ c.todo # <<>>
  /\ \/ /\ found = {}
        /\ Busy(s, [c EXCEPT !.todo = Tail(@)])
     \/ \E m \in found :
          IF Throws(c.arg.items, unreadable)
          THEN Bad(s)
          ELSE Busy(s, [c EXCEPT !.todo = Tail(@),
                                 !.out = Append(@, [n |-> NumberOf(c.list, Head(c.todo)), mid |-> m,
                                                    uid |-> Head(c.todo)])])
  /\ Reads

(* Every loop over messages ends with the tagged OK.                        *)
LoopEnds(s) ==
  /\ call[s].pc \in {"uidFetch", "store", "uidStore", "copy", "uidCopy", "expunge"}
  /\ call[s].todo = <<>>
  /\ Busy(s, [call[s] EXCEPT !.pc = "reply"])
  /\ Reads

-----------------------------------------------------------------------------
(* STORE and UID STORE: for each message setFlags, then findByID for the    *)
(* untagged answer unless .SILENT was given. A message that is gone at      *)
(* either call is passed over. An entry of todo is <<number, message>>,     *)
(* with message 0 while UID STORE has still to look the UID up.             *)

ValidStore(a) == a.flags \subseteq Flags

Store(s, set, a) ==
  LET list == findByFolder(st[s].box)
      ids == InRange(ParseSequenceSet(set, Len(list)), list)
  IN
  /\ Issue(s) /\ Selected(s)
  /\ IF ValidStore(a)
     THEN Begin(s, [pc |-> "store", cmd |-> "STORE", list |-> list, arg |-> a,
                    todo |-> [i \in DOMAIN ids |-> [n |-> ids[i], mid |-> list[ids[i]].mid]]])
     ELSE Bad(s)
  /\ Reads

(* The number UID STORE answers with is the index of the UID in the set.    *)
UidStore(s, set, a) ==
  LET uids == UidsOf(set) IN
  /\ Issue(s) /\ Selected(s)
  /\ IF ValidStore(a)
     THEN Begin(s, [pc |-> "uidStore", cmd |-> "UID STORE", arg |-> a,
                    todo |-> [i \in DOMAIN uids |-> [n |-> i, uid |-> uids[i]]]])
     ELSE Bad(s)
  /\ Reads

UidStoreFind(s) ==
  LET c == call[s]
      found == findByUID(st[s].box, Head(c.todo).uid)
  IN
  /\ c.pc = "uidStore" /\ c.todo # <<>>
  /\ \/ /\ found = {}
        /\ Busy(s, [c EXCEPT !.todo = Tail(@)])
     \/ \E m \in found : Busy(s, [c EXCEPT !.pc = "uidStoreSet", !.mid = m])
  /\ Reads

(* setFlags: refused when the message is gone.                              *)
StoreSet(s) ==
  LET c == call[s]
      m == IF c.pc = "store" THEN Head(c.todo).mid ELSE c.mid
      again == IF c.pc = "store" THEN "store" ELSE "uidStore"
  IN
  /\ c.pc \in {"store", "uidStoreSet"} /\ c.todo # <<>>
  /\ IF m \in DOMAIN msgs
     THEN /\ msgs' = [msgs EXCEPT ![m].flags = NewFlags(@, c.arg)]
          /\ IF c.arg.silent
             THEN Busy(s, [c EXCEPT !.pc = again, !.todo = Tail(@)])
             ELSE Busy(s, [c EXCEPT !.pc = "storeRead", !.mid = m])
     ELSE /\ UNCHANGED msgs
          /\ Busy(s, [c EXCEPT !.pc = again, !.todo = Tail(@)])
  /\ UNCHANGED <<folders, lastFid, lastMid>> /\ SessionUnchanged

StoreRead(s) ==
  LET c == call[s]
      again == IF c.cmd = "STORE" THEN "store" ELSE "uidStore"
      answer == IF c.mid \in DOMAIN msgs THEN <<[n |-> Head(c.todo).n, mid |-> c.mid]>> ELSE <<>>
  IN
  /\ c.pc = "storeRead"
  /\ Busy(s, [c EXCEPT !.pc = again, !.todo = Tail(@), !.out = @ \o answer])
  /\ Reads

-----------------------------------------------------------------------------
(* COPY and UID COPY. The result of copy is not looked at.                  *)

Copy(s, set, name) ==
  LET found == findFolderByName(st[s].user, name) IN
  /\ Issue(s) /\ Selected(s)
  /\ \/ found = {} /\ Bad(s)
     \/ \E f \in found : Begin(s, [pc |-> "copyList", cmd |-> "COPY", fid |-> f, arg |-> set])
  /\ Reads

UidCopy(s, set, name) ==
  LET found == findFolderByName(st[s].user, name) IN
  /\ Issue(s) /\ Selected(s)
  /\ \/ found = {} /\ Bad(s)
     \/ \E f \in found : Begin(s, [pc |-> "uidCopy", cmd |-> "UID COPY", fid |-> f, todo |-> UidsOf(set)])
  /\ Reads

CopyList(s) ==
  LET c == call[s]
      list == findByFolder(st[s].box)
      ids == InRange(ParseSequenceSet(c.arg, Len(list)), list)
  IN
  /\ c.pc = "copyList"
  /\ Busy(s, [c EXCEPT !.pc = "copy", !.list = list, !.todo = [i \in DOMAIN ids |-> list[ids[i]].mid]])
  /\ Reads

UidCopyFind(s) ==
  LET c == call[s]
      found == findByUID(st[s].box, Head(c.todo))
  IN
  /\ c.pc = "uidCopy" /\ c.todo # <<>>
  /\ \/ /\ found = {}
        /\ Busy(s, [c EXCEPT !.todo = Tail(@)])
     \/ \E m \in found : Busy(s, [c EXCEPT !.pc = "uidCopyRead", !.mid = m])
  /\ Reads

(* copy reads the message and the target's next_uid before the lock ...     *)
CopyRead(s) ==
  LET c == call[s]
      m == IF c.pc = "copy" THEN Head(c.todo) ELSE c.mid
      again == IF c.cmd = "COPY" THEN "copy" ELSE "uidCopy"
  IN
  /\ c.pc \in {"copy", "uidCopyRead"} /\ c.todo # <<>>
  /\ IF m \in DOMAIN msgs /\ c.fid \in DOMAIN folders
     THEN Busy(s, [c EXCEPT !.pc = "copyWrite", !.mid = m,
                            !.arg = [uid |-> folders[c.fid].nextUid, flags |-> msgs[m].flags]])
     ELSE Busy(s, [c EXCEPT !.pc = again, !.todo = Tail(@)])
  /\ Reads

(* ... and inserts with that UID. An insert that is refused or fails changes *)
(* nothing and is not reported.                                             *)
CopyWrite(s) ==
  LET c == call[s]
      again == IF c.cmd = "COPY" THEN "copy" ELSE "uidCopy"
  IN
  /\ c.pc = "copyWrite"
  /\ \/ /\ Room(c.fid) /\ CanInsert(c.fid, c.arg.uid)
        /\ Insert(c.fid, c.arg.uid, c.arg.flags, c.mid)
     \/ UNCHANGED <<msgs, folders, lastMid>>
  /\ Busy(s, [c EXCEPT !.pc = again, !.todo = Tail(@), !.arg = <<>>])
  /\ UNCHANGED lastFid /\ SessionUnchanged

-----------------------------------------------------------------------------
(* EXPUNGE: the list is read once, its deleted messages are removed one by  *)
(* one from the highest number down, and a number is announced for each     *)
(* that hardDelete removed.                                                 *)

(* Mutant: the messages are removed from the lowest number up.              *)
ExpungeAscending(s) ==
  LET list == findByFolder(st[s].box)
      nums == Ascending({i \in DOMAIN list : "\\Deleted" \in msgs[list[i].mid].flags})
  IN
  /\ Issue(s) /\ Selected(s)
  /\ Begin(s, [pc |-> "expunge", cmd |-> "EXPUNGE", list |-> list,
               todo |-> [i \in DOMAIN nums |-> [n |-> nums[i], mid |-> list[nums[i]].mid]]])
  /\ Reads

Expunge(s) ==
  LET list == findByFolder(st[s].box)
      nums == Reverse(Ascending({i \in DOMAIN list : "\\Deleted" \in msgs[list[i].mid].flags}))
  IN
  /\ Issue(s) /\ Selected(s)
  /\ Begin(s, [pc |-> "expunge", cmd |-> "EXPUNGE", list |-> list,
               todo |-> [i \in DOMAIN nums |-> [n |-> nums[i], mid |-> list[nums[i]].mid]]])
  /\ Reads

ExpungeStep(s) ==
  LET c == call[s]
      m == Head(c.todo).mid
  IN
  /\ c.pc = "expunge" /\ c.todo # <<>>
  /\ Without({m})
  /\ Busy(s, [c EXCEPT !.todo = Tail(@),
                       !.out = IF m \in DOMAIN msgs THEN Append(@, Head(c.todo)) ELSE @])
  /\ UNCHANGED <<folders, lastFid, lastMid>> /\ SessionUnchanged

-----------------------------------------------------------------------------
(* Mailbox commands: findFolderByName, then a call on the id it returned.   *)

(* CREATE of a nested name. Every part but the last must be the name of a   *)
(* folder, and each of them of the same one; the folder is stored under the *)
(* whole path. Returns the ids the parent may have; 0 stands for none.      *)
ParentOf(u, name) ==
  LET part(i) == findFolderByName(u, <<name[i]>>)
      above == 1..(Len(name) - 1)
  IN
  IF Len(name) = 1 THEN {0}
  ELSE {f \in part(1) : \A i \in above : f \in part(i)}

Create(s, name) ==
  LET parents == ParentOf(st[s].user, name) IN
  /\ Issue(s) /\ Authenticated(s)
  /\ \/ parents = {} /\ Bad(s)
     \/ \E f \in parents :
          Begin(s, [pc |-> "create", cmd |-> "CREATE", fid |-> f, arg |-> name])
  /\ Reads

(* createFolder refuses a name in use, the foreign key a parent that is     *)
(* gone; the insert itself may fail.                                        *)
CreateInsert(s) ==
  LET c == call[s]
      u == st[s].user
  IN
  /\ c.pc = "create"
  /\ \/ /\ lastFid < MaxFolders
        /\ findFolderByName(u, c.arg) = {}
        /\ c.fid = 0 \/ c.fid \in DOMAIN folders
        /\ folders' = folders @@ ((lastFid + 1) :> [user |-> u, name |-> c.arg, parent |-> c.fid,
                                                    nextUid |-> 1, sub |-> TRUE])
        /\ lastFid' = lastFid + 1
        /\ Ok(s)
     \/ UNCHANGED <<folders, lastFid>> /\ No(s)
  /\ UNCHANGED <<msgs, lastMid>> /\ SessionUnchanged

Delete(s, name) ==
  LET found == findFolderByName(st[s].user, name) IN
  /\ Issue(s) /\ Authenticated(s)
  /\ \/ found = {} /\ Bad(s)
     \/ found # {} /\ name = INBOX /\ No(s)
     \/ \E f \in found : /\ name # INBOX
                         /\ Begin(s, [pc |-> "delete", cmd |-> "DELETE", fid |-> f])
  /\ Reads

(* Mutant: the messages of a deleted folder stay.                           *)
DeleteFolderKeepsMessages(s) ==
  /\ call[s].pc = "delete"
  /\ folders' = [f \in DOMAIN folders \ Below(call[s].fid) |-> folders[f]]
  /\ Ok(s)
  /\ UNCHANGED <<msgs, lastFid, lastMid>> /\ SessionUnchanged

(* deleteFolder: the sub-folders and the messages go with the folder. A     *)
(* session that has the folder selected keeps its id.                       *)
DeleteFolder(s) ==
  LET gone == Below(call[s].fid) IN
  /\ call[s].pc = "delete"
  /\ folders' = [f \in DOMAIN folders \ gone |-> folders[f]]
  /\ Without({m \in DOMAIN msgs : msgs[m].folder \in gone})
  /\ IF call[s].fid \in DOMAIN folders THEN Ok(s) ELSE Bad(s)
  /\ UNCHANGED <<lastFid, lastMid>> /\ SessionUnchanged

Rename(s, name, newName) ==
  LET found == findFolderByName(st[s].user, name) IN
  /\ Issue(s) /\ Authenticated(s)
  /\ \/ found = {} /\ No(s)
     \/ \E f \in found : Begin(s, [pc |-> "rename", cmd |-> "RENAME", fid |-> f, arg |-> newName])
  /\ Reads

RenameFolder(s) ==
  LET c == call[s]
      taken == \E g \in findFolderByName(st[s].user, c.arg) : g # c.fid
  IN
  /\ c.pc = "rename"
  /\ IF c.fid \in DOMAIN folders /\ ~taken
     THEN folders' = [folders EXCEPT ![c.fid].name = c.arg] /\ Ok(s)
     ELSE UNCHANGED folders /\ Bad(s)
  /\ UNCHANGED <<msgs, lastFid, lastMid>> /\ SessionUnchanged

(* SUBSCRIBE and UNSUBSCRIBE.                                               *)
Subscribe(s, name, on) ==
  LET found == findFolderByName(st[s].user, name) IN
  /\ Issue(s) /\ Authenticated(s)
  /\ \/ found = {} /\ Bad(s)
     \/ \E f \in found : Begin(s, [pc |-> "subscribe", cmd |-> "SUBSCRIBE", fid |-> f, arg |-> on])
  /\ Reads

SetSubscribed(s) ==
  LET f == call[s].fid IN
  /\ call[s].pc = "subscribe"
  /\ IF f \in DOMAIN folders
     THEN folders' = [folders EXCEPT ![f].sub = call[s].arg] /\ Ok(s)
     ELSE UNCHANGED folders /\ No(s)
  /\ UNCHANGED <<msgs, lastFid, lastMid>> /\ SessionUnchanged

-----------------------------------------------------------------------------
(* The SMTP server delivers to a user's INBOX.                              *)
Deliver(u) ==
  \E f \in findFolderByName(u, INBOX) :
    /\ Room(f) /\ CanInsert(f, folders[f].nextUid)
    /\ Insert(f, folders[f].nextUid, {"\\Recent"}, 0)
    /\ UNCHANGED <<lastFid, st, call, view>>

AnyState(s) ==
  \/ \E u \in Users : Login(s, u)
  \/ LoginFails(s) \/ RefuseCommand(s) \/ Noop(s) \/ Capability(s) \/ Check(s)
  \/ StartTLS(s) \/ Logout(s) \/ Sent(s)

MailboxCommand(s) ==
  \/ List(s) \/ Lsub(s)
  \/ \E name \in Names :
       \/ Select(s, name)
       \/ \E valid \in BOOLEAN : Status(s, name, valid)
       \/ Create(s, name)
       \/ Delete(s, name)
       \/ \E newName \in Names : Rename(s, name, newName)
       \/ \E on \in BOOLEAN : Subscribe(s, name, on)
  \/ SelectList(s) \/ SelectClear(s) \/ CreateInsert(s) \/ DeleteFolder(s) \/ RenameFolder(s)
  \/ SetSubscribed(s)

MessageCommand(s) ==
  \/ \E set \in SequenceSets :
       \/ \E items \in ItemLists, unreadable \in BOOLEAN : Fetch(s, set, items, unreadable)
       \/ \E a \in Stores : Store(s, set, a)
       \/ \E name \in Names : Copy(s, set, name)
  \/ \E set \in UidSets :
       \/ \E items \in ItemLists : UidFetch(s, set, items)
       \/ \E a \in Stores : UidStore(s, set, a)
       \/ \E name \in Names : UidCopy(s, set, name)
  \/ \E unreadable \in BOOLEAN : UidFetchStep(s, unreadable)
  \/ LoopEnds(s) \/ UidStoreFind(s) \/ StoreSet(s) \/ StoreRead(s)
  \/ CopyList(s) \/ UidCopyFind(s) \/ CopyRead(s) \/ CopyWrite(s)
  \/ Expunge(s) \/ ExpungeStep(s) \/ Close(s) \/ CloseExpunge(s)

Next ==
  \/ \E s \in Sessions : AnyState(s) \/ MailboxCommand(s) \/ MessageCommand(s)
  \/ \E u \in Users : Deliver(u)

Spec == Init /\ [][Next]_vars

-----------------------------------------------------------------------------
TypeOK ==
  /\ \A f \in DOMAIN folders : /\ f \in 1..lastFid
                               /\ folders[f].user \in Users /\ folders[f].nextUid \in Nat \ {0}
                               /\ folders[f].parent \in 0..lastFid /\ folders[f].sub \in BOOLEAN
  /\ \A m \in DOMAIN msgs : /\ m \in 1..lastMid
                            /\ msgs[m].folder \in DOMAIN folders
                            /\ msgs[m].uid \in Nat \ {0} /\ msgs[m].flags \subseteq Flags
  /\ \A s \in Sessions : /\ st[s].state \in {"NonAuthenticated", "Authenticated", "Selected"}
                         /\ st[s].user \in Users \cup {NoUser}
                         /\ st[s].box \in 0..lastFid

(* Whatever order LOGIN, SELECT, CLOSE and the folder commands of all       *)
(* sessions come in, the mailbox a session has selected, and the folder the *)
(* command it is running works on, belong to the user it is logged in as    *)
(* (m_currentMailbox outlives a second LOGIN, only m_state protects it).    *)
OwnMailbox ==
  \A s \in Sessions :
    /\ Selected(s) => st[s].box # 0
    /\ \A f \in {call[s].fid} \cup (IF Selected(s) THEN {st[s].box} ELSE {}) :
         f \in DOMAIN folders => folders[f].user = st[s].user


(* A client that deletes the announced numbers one after the other from the *)
(* list EXPUNGE started with is left with exactly the messages EXPUNGE did  *)
(* not remove, also when another session removed some of them first.        *)
ExpungeReplays ==
  LET replay(list, out) == FoldLeft(LAMBDA l, o : RemoveAt(l, o.n), list, out)
      removed(out) == {out[i].mid : i \in DOMAIN out}
  IN
  \A s \in Sessions :
    (call[s].pc = "reply" /\ call[s].cmd = "EXPUNGE") =>
      replay(call[s].list, call[s].out)
        = SelectSeq(call[s].list, LAMBDA r : r.mid \notin removed(call[s].out))


(* An OK of UID FETCH answers every message with one of the UIDs that is    *)
(* in the mailbox from the beginning of the command to its end.             *)
UidFetchComplete ==
  \A s \in Sessions :
    (call[s].pc = "reply" /\ call[s].cmd = "UID FETCH") =>
      \A i \in DOMAIN call[s].list :
        LET r == call[s].list[i] IN
        (r.uid \in call[s].arg.uids /\ r.mid \in DOMAIN msgs)
          => \E j \in DOMAIN call[s].out : call[s].out[j].mid = r.mid

(* A message is changed or removed only by a command of a session whose     *)
(* user owns the folder it is in.                                           *)
OnlyOwnMessages ==
  [][\A m \in DOMAIN msgs :
       (m \notin DOMAIN msgs' \/ msgs'[m] # msgs[m]) =>
         \E s \in Sessions : /\ call'[s] # call[s]
                             /\ folders[msgs[m].folder].user = st[s].user]_vars
=============================================================================
