------------------------------ MODULE MailStore ------------------------------
(***************************************************************************)
(* The mail store of one user: the folders and messages tables and the     *)
(* operations of MessageRepository on them, called by concurrent sessions. *)
(*                                                                         *)
(* Every repository operation reads through the pool of read-only          *)
(* connections (each query sees the last committed state) and writes       *)
(* through the single write connection under DataBaseManager::writeLock(). *)
(* A write is one statement or one transaction, so it is one step here; a  *)
(* query made BEFORE the lock is taken is a step of its own, and whatever  *)
(* it returned is kept in loc[c] and may be stale when the write happens.  *)
(*                                                                         *)
(* A call that fails at its first query or its only write changes nothing  *)
(* and is a stuttering step; CallFails is every later error return.        *)
(***************************************************************************)
EXTENDS Naturals, FiniteSets, Sequences

CONSTANTS
  Clients,        \* sessions that call the repository concurrently
  Ops,            \* the repository operations the sessions use
  SystemFolders,  \* names of the folders registerUser created, in order
  NewNames,       \* names given to CREATE and RENAME
  FlagLists,      \* argument lists of setFlags
  FlagSets,       \* flag arguments of append and updateFlags
  OtherFlags,     \* flags the sessions change with markFlagged and the like
  Addresses,      \* recipient addresses
  MaxFolders,     \* bound: folder ids handed out
  MaxMsgs,        \* bound: message ids handed out
  MaxUid          \* bound: value of a folder's next_uid

VARIABLES
  folders,   \* folder id -> row of the folders table
  msgs,      \* message id -> row of the messages table, with its recipients
  nextFid,   \* AUTOINCREMENT of folders: ids are never reused
  nextMid,   \* AUTOINCREMENT of messages
  given,     \* history: every <<folder, uid, message>> ever committed
  loc        \* per session: the call in progress and what it has read

vars == <<folders, msgs, nextFid, nextMid, given, loc>>

ASSUME StoreAssumption ==
  /\ SystemFolders \in Seq(STRING)
  /\ \E i \in DOMAIN SystemFolders : SystemFolders[i] = "INBOX"
  /\ OtherFlags \subseteq {"flagged", "answered", "draft"}
  /\ FlagSets \subseteq SUBSET {"seen", "deleted", "draft", "answered", "flagged", "recent"}

Flags == {"seen", "deleted", "draft", "answered", "flagged", "recent"}
Names == {SystemFolders[i] : i \in DOMAIN SystemFolders} \cup NewNames

Folder == [name : Names, parent : Nat, nextUid : Nat, sub : BOOLEAN]
Message == [folder : Nat, uid : Nat, flags : SUBSET Flags, to : SUBSET Addresses]

NoFolder == [name |-> "INBOX", parent |-> 0, nextUid |-> 0, sub |-> FALSE]
NoMessage == [folder |-> 0, uid |-> 0, flags |-> {}, to |-> {}]

(* The call a session is in: pc names its next step.                        *)
Pcs == {"idle", "assign", "updateFlags", "move", "expunge", "closeExpunge",
        "hardDelete", "copyFolder", "copyRecipients", "copy", "createFolder",
        "renameCheck", "rename", "deleteFolder", "addRecipient",
        "removeRecipient", "incrementUid", "clearRecent", "subscribe"}

Call == [pc : Pcs, mid : Nat, fid : Nat, msg : Message, folder : Folder,
         ids : SUBSET Nat, named : SUBSET Flags]

Idle ==
  [pc |-> "idle", mid |-> 0, fid |-> 0, msg |-> NoMessage,
   folder |-> NoFolder, ids |-> {}, named |-> {}]

Init ==
  /\ folders = [f \in DOMAIN SystemFolders |->
                  [name |-> SystemFolders[f], parent |-> 0, nextUid |-> 1, sub |-> TRUE]]
  /\ msgs = [m \in {} |-> NoMessage]
  /\ nextFid = Len(SystemFolders) + 1
  /\ nextMid = 1
  /\ given = {}
  /\ loc = [c \in Clients |-> Idle]

-----------------------------------------------------------------------------
(* The tables. SQLite refuses a row that breaks the unique index on         *)
(* (folder_id, uid) or a foreign key; the transaction is then rolled back.  *)

UidFree(f, uid, m) ==
  \A n \in DOMAIN msgs \ {m} : ~(msgs[n].folder = f /\ msgs[n].uid = uid)

FolderExists(f) == f \in DOMAIN folders

(* Mutant: the UPDATE of next_uid is dropped.                               *)
NextUidKept(f) == folders

NextUidIncremented(f) ==
  [g \in DOMAIN folders |->
     IF g = f THEN [folders[g] EXCEPT !.nextUid = @ + 1] ELSE folders[g]]

Allocated == 1..(nextMid - 1)
AllocatedFolders == 1..(nextFid - 1)

(* MessageDAL::insert followed by FolderDAL::incrementNextUID, committed.   *)
InsertMessage(row) ==
  /\ FolderExists(row.folder)
  /\ UidFree(row.folder, row.uid, nextMid)
  /\ nextMid <= MaxMsgs
  /\ folders[row.folder].nextUid < MaxUid
  /\ msgs' = [m \in DOMAIN msgs \cup {nextMid} |-> IF m = nextMid THEN row ELSE msgs[m]]
  /\ nextMid' = nextMid + 1
  /\ folders' = NextUidIncremented(row.folder)
  /\ given' = given \cup {<<row.folder, row.uid, nextMid>>}
  /\ UNCHANGED nextFid

(* ON DELETE CASCADE from a folder to its sub-folders.                      *)
Subtree(f) ==
  {g \in DOMAIN folders :
     \A S \in SUBSET DOMAIN folders :
        (f \in S /\ \A h \in DOMAIN folders : folders[h].parent \in S => h \in S) => g \in S}

WithoutMessages(gone) == [m \in DOMAIN msgs \ gone |-> msgs[m]]

FoldersNamed(name) == {f \in DOMAIN folders : folders[f].name = name}

Calls(c, op) == op \in Ops /\ loc[c].pc = "idle"
Goto(c, rec) == loc' = [loc EXCEPT ![c] = rec]
Return(c) == loc' = [loc EXCEPT ![c] = Idle]
TablesUnchanged == UNCHANGED <<folders, msgs, nextFid, nextMid, given>>

-----------------------------------------------------------------------------
(* Delivery: deliver, saveToFolder and append all end in assignUID, which   *)
(* reads next_uid inside the transaction.                                   *)

(* Mutant: the UID is the highest one in use plus one, not next_uid.        *)
AssignUIDFromUsed(f, flags) ==
  LET used == {msgs[m].uid : m \in {n \in DOMAIN msgs : msgs[n].folder = f}}
  IN
  /\ FolderExists(f)
  /\ \E uid \in 1..MaxUid :
       /\ \A u \in used : u < uid
       /\ uid = 1 \/ uid - 1 \in used
       /\ InsertMessage([folder |-> f, uid |-> uid, flags |-> flags, to |-> {}])

AssignUID(f, flags) ==
  /\ FolderExists(f)
  /\ InsertMessage([folder |-> f, uid |-> folders[f].nextUid, flags |-> flags, to |-> {}])

(* deliver with an explicit folder. *)
Deliver(c, f) ==
  /\ Calls(c, "deliver")
  /\ AssignUID(f, {"recent"})
  /\ UNCHANGED loc

(* deliver without a folder looks INBOX up before the lock is taken; the    *)
(* name may match several folders, findByName returns one of them.          *)
DeliverFindInbox(c) ==
  /\ Calls(c, "deliver")
  /\ \E f \in FoldersNamed("INBOX") : Goto(c, [Idle EXCEPT !.pc = "assign", !.fid = f])
  /\ TablesUnchanged

DeliverToInbox(c) ==
  /\ loc[c].pc = "assign"
  /\ AssignUID(loc[c].fid, {"recent"})
  /\ Return(c)

(* saveToFolder stores a seen message, append keeps the flags it is given.  *)
SaveToFolder(c, f) ==
  /\ Calls(c, "saveToFolder")
  /\ AssignUID(f, {"seen"})
  /\ UNCHANGED loc

AppendMessage(c, f, flags) ==
  /\ Calls(c, "append")
  /\ AssignUID(f, flags)
  /\ UNCHANGED loc

(* Every error return after a first query: a row that is gone, a refused    *)
(* row, a busy or failed statement. Transaction's destructor rolls back.    *)
CallFails(c) ==
  /\ loc[c].pc # "idle"
  /\ Return(c)
  /\ TablesUnchanged

-----------------------------------------------------------------------------
(* Flags. markSeen and markDeleted update one column; the others write all  *)
(* six columns from the row they read before taking the lock.               *)

WithFlag(flags, flag, on) == IF on THEN flags \cup {flag} ELSE flags \ {flag}

SetColumn(m, flag, on) ==
  /\ m \in DOMAIN msgs
  /\ msgs' = [msgs EXCEPT ![m].flags = WithFlag(@, flag, on)]
  /\ UNCHANGED <<folders, nextFid, nextMid, given>>

MarkSeen(c, m, on) ==
  /\ Calls(c, "markSeen")
  /\ SetColumn(m, "seen", on)
  /\ UNCHANGED loc

MarkDeleted(c, m, on) ==
  /\ Calls(c, "markDeleted")
  /\ SetColumn(m, "deleted", on)
  /\ UNCHANGED loc

(* markFlagged, markAnswered and markDraft: read the row, change one flag.  *)
MarkOther(c, m, flag, on) ==
  /\ Calls(c, "markOther")
  /\ m \in DOMAIN msgs
  /\ Goto(c, [Idle EXCEPT !.pc = "updateFlags", !.mid = m, !.named = {flag},
                !.msg = [msgs[m] EXCEPT !.flags = WithFlag(@, flag, on)]])
  /\ TablesUnchanged

(* The flags setFlags computes from the row it read and its argument list:  *)
(* without a single + or - prefix the list replaces the flags, otherwise    *)
(* each entry sets or clears its flag and the last entry for a flag wins.   *)
SetFlagsResult(flags, list) ==
  LET prefixed == \E i \in DOMAIN list : list[i].sign # "none"
      base == IF prefixed THEN flags ELSE {}
      last(x) == {i \in DOMAIN list : /\ list[i].flag = x
                                      /\ \A j \in DOMAIN list : list[j].flag = x => j <= i}
  IN {x \in Flags : IF last(x) = {} THEN x \in base
                    ELSE \E i \in last(x) : list[i].sign # "-"}

(* The flags a list is about: all of them when it replaces.                 *)
NamedFlags(list) ==
  IF \E i \in DOMAIN list : list[i].sign # "none"
  THEN {list[i].flag : i \in DOMAIN list} ELSE Flags

SetFlags(c, m, list) ==
  /\ Calls(c, "setFlags")
  /\ m \in DOMAIN msgs
  /\ \A i \in DOMAIN list : list[i].flag \in Flags
  /\ Goto(c, [Idle EXCEPT !.pc = "updateFlags", !.mid = m, !.named = NamedFlags(list),
                !.msg = [msgs[m] EXCEPT !.flags = SetFlagsResult(@, list)]])
  /\ TablesUnchanged

(* MessageDAL::updateFlags: an UPDATE of a row that is gone still succeeds. *)
WriteFlags(m, flags) ==
  /\ msgs' = [n \in DOMAIN msgs |-> IF n = m THEN [msgs[n] EXCEPT !.flags = flags] ELSE msgs[n]]
  /\ UNCHANGED <<folders, nextFid, nextMid, given>>

(* Mutant: MessageDAL::update, which writes the whole row that was read.    *)
UpdateRowWrite(c) ==
  /\ loc[c].pc = "updateFlags"
  /\ msgs' = [n \in DOMAIN msgs |-> IF n = loc[c].mid THEN loc[c].msg ELSE msgs[n]]
  /\ UNCHANGED <<folders, nextFid, nextMid, given>>
  /\ Return(c)

UpdateFlagsWrite(c) ==
  /\ loc[c].pc = "updateFlags"
  /\ WriteFlags(loc[c].mid, loc[c].msg.flags)
  /\ Return(c)

UpdateFlags(c, m, flags) ==
  /\ Calls(c, "updateFlags")
  /\ WriteFlags(m, flags)
  /\ UNCHANGED loc

(* clearRecentByFolder checks that the folder exists, then clears.          *)
ClearRecentCheck(c, f) ==
  /\ Calls(c, "clearRecent")
  /\ FolderExists(f)
  /\ Goto(c, [Idle EXCEPT !.pc = "clearRecent", !.fid = f])
  /\ TablesUnchanged

ClearRecentWrite(c) ==
  /\ loc[c].pc = "clearRecent"
  /\ msgs' = [m \in DOMAIN msgs |-> IF msgs[m].folder = loc[c].fid
                                    THEN [msgs[m] EXCEPT !.flags = @ \ {"recent"}]
                                    ELSE msgs[m]]
  /\ UNCHANGED <<folders, nextFid, nextMid, given>>
  /\ Return(c)

-----------------------------------------------------------------------------
(* Moving, copying and removing messages.                                   *)

(* moveToFolder reads next_uid before the lock and uses it inside.          *)
MoveToFolder(c, m, f) ==
  /\ Calls(c, "move")
  /\ FolderExists(f)
  /\ Goto(c, [Idle EXCEPT !.pc = "move", !.mid = m, !.fid = f, !.folder = folders[f]])
  /\ TablesUnchanged

(* The UPDATE of a row that is gone succeeds, and next_uid still moves on.  *)
MoveWrite(c) ==
  LET m == loc[c].mid
      f == loc[c].fid
      uid == loc[c].folder.nextUid
  IN
  /\ loc[c].pc = "move"
  /\ FolderExists(f) => folders[f].nextUid < MaxUid
  /\ IF m \in DOMAIN msgs
     THEN /\ FolderExists(f)
          /\ UidFree(f, uid, m)
          /\ msgs' = [msgs EXCEPT ![m].folder = f, ![m].uid = uid]
          /\ given' = given \cup {<<f, uid, m>>}
     ELSE UNCHANGED <<msgs, given>>
  /\ folders' = NextUidIncremented(f)
  /\ UNCHANGED <<nextFid, nextMid>>
  /\ Return(c)

(* expunge collects the deleted messages of the folder before the lock and  *)
(* removes exactly those ids; closeFolder then clears \Recent.              *)
DeletedIn(f) == {m \in DOMAIN msgs : msgs[m].folder = f /\ "deleted" \in msgs[m].flags}

Expunge(c, f) ==
  /\ Calls(c, "expunge")
  /\ Goto(c, [Idle EXCEPT !.pc = "expunge", !.fid = f, !.ids = DeletedIn(f)])
  /\ TablesUnchanged

CloseFolder(c, f) ==
  /\ Calls(c, "closeFolder")
  /\ Goto(c, [Idle EXCEPT !.pc = "closeExpunge", !.fid = f, !.ids = DeletedIn(f)])
  /\ TablesUnchanged

ExpungeWrite(c) ==
  /\ loc[c].pc \in {"expunge", "closeExpunge"}
  /\ msgs' = WithoutMessages(loc[c].ids)
  /\ UNCHANGED <<folders, nextFid, nextMid, given>>
  /\ \/ loc[c].pc = "expunge" /\ Return(c)
     \/ loc[c].pc = "closeExpunge" /\ Goto(c, [Idle EXCEPT !.pc = "clearRecent", !.fid = loc[c].fid])

HardDelete(c, m) ==
  /\ Calls(c, "hardDelete")
  /\ m \in DOMAIN msgs
  /\ Goto(c, [Idle EXCEPT !.pc = "hardDelete", !.mid = m])
  /\ TablesUnchanged

HardDeleteWrite(c) ==
  /\ loc[c].pc = "hardDelete"
  /\ msgs' = WithoutMessages({loc[c].mid})
  /\ UNCHANGED <<folders, nextFid, nextMid, given>>
  /\ Return(c)

(* copy makes three queries (message, target folder, recipients) and then   *)
(* inserts message and recipients in one transaction.                       *)
Copy(c, m, f) ==
  /\ Calls(c, "copy")
  /\ m \in DOMAIN msgs
  /\ Goto(c, [Idle EXCEPT !.pc = "copyFolder", !.mid = m, !.fid = f,
                !.msg = [msgs[m] EXCEPT !.to = {}]])
  /\ TablesUnchanged

CopyReadFolder(c) ==
  /\ loc[c].pc = "copyFolder"
  /\ FolderExists(loc[c].fid)
  /\ Goto(c, [loc[c] EXCEPT !.pc = "copyRecipients", !.folder = folders[loc[c].fid]])
  /\ TablesUnchanged

CopyReadRecipients(c) ==
  LET m == loc[c].mid
  IN
  /\ loc[c].pc = "copyRecipients"
  /\ Goto(c, [loc[c] EXCEPT !.pc = "copy",
                !.msg.to = IF m \in DOMAIN msgs THEN msgs[m].to ELSE {}])
  /\ TablesUnchanged

CopyWrite(c) ==
  /\ loc[c].pc = "copy"
  /\ InsertMessage([loc[c].msg EXCEPT !.folder = loc[c].fid, !.uid = loc[c].folder.nextUid])
  /\ Return(c)

AddRecipient(c, m, a) ==
  /\ Calls(c, "addRecipient")
  /\ m \in DOMAIN msgs
  /\ Goto(c, [Idle EXCEPT !.pc = "addRecipient", !.mid = m, !.msg.to = {a}])
  /\ TablesUnchanged

AddRecipientWrite(c) ==
  /\ loc[c].pc = "addRecipient"
  /\ loc[c].mid \in DOMAIN msgs
  /\ msgs' = [msgs EXCEPT ![loc[c].mid].to = @ \cup loc[c].msg.to]
  /\ UNCHANGED <<folders, nextFid, nextMid, given>>
  /\ Return(c)

RemoveRecipient(c, m, a) ==
  /\ Calls(c, "removeRecipient")
  /\ m \in DOMAIN msgs
  /\ a \in msgs[m].to
  /\ Goto(c, [Idle EXCEPT !.pc = "removeRecipient", !.mid = m, !.msg.to = {a}])
  /\ TablesUnchanged

RemoveRecipientWrite(c) ==
  /\ loc[c].pc = "removeRecipient"
  /\ msgs' = [m \in DOMAIN msgs |-> IF m = loc[c].mid
                                    THEN [msgs[m] EXCEPT !.to = @ \ loc[c].msg.to]
                                    ELSE msgs[m]]
  /\ UNCHANGED <<folders, nextFid, nextMid, given>>
  /\ Return(c)

-----------------------------------------------------------------------------
(* Folders.                                                                 *)

CreateFolder(c, name, parent) ==
  /\ Calls(c, "createFolder")
  /\ FoldersNamed(name) = {}
  /\ Goto(c, [Idle EXCEPT !.pc = "createFolder",
                !.folder = [name |-> name, parent |-> parent, nextUid |-> 1, sub |-> FALSE]])
  /\ TablesUnchanged

CreateFolderWrite(c) ==
  /\ loc[c].pc = "createFolder"
  /\ nextFid <= MaxFolders
  /\ loc[c].folder.parent # 0 => FolderExists(loc[c].folder.parent)
  /\ folders' = [f \in DOMAIN folders \cup {nextFid} |->
                   IF f = nextFid THEN loc[c].folder ELSE folders[f]]
  /\ nextFid' = nextFid + 1
  /\ UNCHANGED <<msgs, nextMid, given>>
  /\ Return(c)

(* renameFolder reads the row, checks the name, and writes the WHOLE row    *)
(* back: next_uid and is_subscribed too, as they were when it was read.     *)
RenameFolder(c, f, name) ==
  /\ Calls(c, "renameFolder")
  /\ FolderExists(f)
  /\ Goto(c, [Idle EXCEPT !.pc = "renameCheck", !.fid = f,
                !.folder = [folders[f] EXCEPT !.name = name]])
  /\ TablesUnchanged

RenameCheck(c) ==
  LET named == FoldersNamed(loc[c].folder.name)
  IN
  /\ loc[c].pc = "renameCheck"
  /\ named = {} \/ loc[c].fid \in named
  /\ Goto(c, [loc[c] EXCEPT !.pc = "rename"])
  /\ TablesUnchanged

(* Mutant: INSERT OR REPLACE instead of UPDATE.                             *)
RenameUpsert(c) ==
  /\ loc[c].pc = "rename"
  /\ folders' = [f \in DOMAIN folders \cup {loc[c].fid} |->
                   IF f = loc[c].fid THEN loc[c].folder ELSE folders[f]]
  /\ UNCHANGED <<msgs, nextFid, nextMid, given>>
  /\ Return(c)

RenameWrite(c) ==
  /\ loc[c].pc = "rename"
  /\ folders' = [f \in DOMAIN folders |-> IF f = loc[c].fid THEN loc[c].folder ELSE folders[f]]
  /\ UNCHANGED <<msgs, nextFid, nextMid, given>>
  /\ Return(c)

DeleteFolder(c, f) ==
  /\ Calls(c, "deleteFolder")
  /\ FolderExists(f)
  /\ Goto(c, [Idle EXCEPT !.pc = "deleteFolder", !.fid = f])
  /\ TablesUnchanged

(* Mutant: foreign keys are not enforced, the messages stay.                *)
DeleteFolderNoCascade(c) ==
  /\ loc[c].pc = "deleteFolder"
  /\ folders' = [f \in DOMAIN folders \ {loc[c].fid} |-> folders[f]]
  /\ UNCHANGED <<msgs, nextFid, nextMid, given>>
  /\ Return(c)

(* ON DELETE CASCADE takes the sub-folders and all their messages along.    *)
DeleteFolderWrite(c) ==
  LET gone == Subtree(loc[c].fid)
  IN
  /\ loc[c].pc = "deleteFolder"
  /\ folders' = [f \in DOMAIN folders \ gone |-> folders[f]]
  /\ msgs' = WithoutMessages({m \in DOMAIN msgs : msgs[m].folder \in gone})
  /\ UNCHANGED <<nextFid, nextMid, given>>
  /\ Return(c)

IncrementNextUID(c, f) ==
  /\ Calls(c, "incrementNextUID")
  /\ FolderExists(f)
  /\ Goto(c, [Idle EXCEPT !.pc = "incrementUid", !.fid = f])
  /\ TablesUnchanged

IncrementNextUIDWrite(c) ==
  /\ loc[c].pc = "incrementUid"
  /\ FolderExists(loc[c].fid) => folders[loc[c].fid].nextUid < MaxUid
  /\ folders' = NextUidIncremented(loc[c].fid)
  /\ UNCHANGED <<msgs, nextFid, nextMid, given>>
  /\ Return(c)

SetSubscribed(c, f, on) ==
  /\ Calls(c, "setSubscribed")
  /\ FolderExists(f)
  /\ Goto(c, [Idle EXCEPT !.pc = "subscribe", !.fid = f, !.folder.sub = on])
  /\ TablesUnchanged

SetSubscribedWrite(c) ==
  /\ loc[c].pc = "subscribe"
  /\ folders' = [f \in DOMAIN folders |-> IF f = loc[c].fid
                                          THEN [folders[f] EXCEPT !.sub = loc[c].folder.sub]
                                          ELSE folders[f]]
  /\ UNCHANGED <<msgs, nextFid, nextMid, given>>
  /\ Return(c)

-----------------------------------------------------------------------------
(* One step of session c, on ids the tables have handed out so far: a       *)
(* caller may hold the id of a row that is gone.                            *)

FolderCall(c, f) ==
  \/ Deliver(c, f)
  \/ SaveToFolder(c, f)
  \/ \E flags \in FlagSets : AppendMessage(c, f, flags)
  \/ ClearRecentCheck(c, f)
  \/ Expunge(c, f)
  \/ CloseFolder(c, f)
  \/ \E name \in NewNames : RenameFolder(c, f, name)
  \/ DeleteFolder(c, f)
  \/ IncrementNextUID(c, f)
  \/ \E on \in BOOLEAN : SetSubscribed(c, f, on)

MessageCall(c, m) ==
  \/ \E on \in BOOLEAN : MarkSeen(c, m, on)
  \/ \E on \in BOOLEAN : MarkDeleted(c, m, on)
  \/ \E flag \in OtherFlags, on \in BOOLEAN : MarkOther(c, m, flag, on)
  \/ \E list \in FlagLists : SetFlags(c, m, list)
  \/ \E flags \in FlagSets : UpdateFlags(c, m, flags)
  \/ HardDelete(c, m)
  \/ \E f \in AllocatedFolders : MoveToFolder(c, m, f)
  \/ \E f \in AllocatedFolders : Copy(c, m, f)
  \/ \E a \in Addresses : AddRecipient(c, m, a)
  \/ \E a \in Addresses : RemoveRecipient(c, m, a)

Continue(c) ==
  \/ DeliverToInbox(c)
  \/ UpdateFlagsWrite(c)
  \/ ClearRecentWrite(c)
  \/ MoveWrite(c)
  \/ ExpungeWrite(c)
  \/ HardDeleteWrite(c)
  \/ CopyReadFolder(c)
  \/ CopyReadRecipients(c)
  \/ CopyWrite(c)
  \/ AddRecipientWrite(c)
  \/ RemoveRecipientWrite(c)
  \/ CreateFolderWrite(c)
  \/ RenameCheck(c)
  \/ RenameWrite(c)
  \/ DeleteFolderWrite(c)
  \/ IncrementNextUIDWrite(c)
  \/ SetSubscribedWrite(c)
  \/ CallFails(c)

Step(c) ==
  \/ DeliverFindInbox(c)
  \/ \E name \in NewNames, parent \in AllocatedFolders \cup {0} : CreateFolder(c, name, parent)
  \/ \E f \in AllocatedFolders : FolderCall(c, f)
  \/ \E m \in Allocated : MessageCall(c, m)
  \/ Continue(c)

Next == \E c \in Clients : Step(c)

Spec == Init /\ [][Next]_vars

-----------------------------------------------------------------------------
(* The shape of the tables and of the calls in progress: row ids come from  *)
(* the AUTOINCREMENT counters, and a session's call is one of Pcs.          *)
TypeOK ==
  /\ nextFid \in Nat \ {0}
  /\ nextMid \in Nat \ {0}
  /\ DOMAIN folders \subseteq AllocatedFolders
  /\ \A f \in DOMAIN folders : folders[f] \in Folder
  /\ DOMAIN msgs \subseteq Allocated
  /\ \A m \in DOMAIN msgs : msgs[m] \in Message
  /\ given \subseteq Nat \X Nat \X Nat
  /\ loc \in [Clients -> Call]

(* Whatever the sessions interleave, every message lies in a folder that    *)
(* exists, every sub-folder has its parent, and no two messages of a folder *)
(* share a UID: inserts and moves racing deleteFolder's cascade and racing  *)
(* each other's UID never leave the tables torn.                            *)
Integrity ==
  /\ \A m \in DOMAIN msgs : msgs[m].folder \in DOMAIN folders
  /\ \A f \in DOMAIN folders : folders[f].parent # 0 => folders[f].parent \in DOMAIN folders
  /\ \A m, n \in DOMAIN msgs :
        (msgs[m].folder = msgs[n].folder /\ msgs[m].uid = msgs[n].uid) => m = n

(* next_uid is above every UID in use, so it can be given to a new message. *)
UidBelowNext ==
  \A m \in DOMAIN msgs : msgs[m].folder \in DOMAIN folders =>
     msgs[m].uid < folders[msgs[m].folder].nextUid

(* A UID of a folder names one message for ever: a client that cached it    *)
(* never gets another message under the same UID.                           *)
UidNeverReused ==
  \A g, h \in given : (g[1] = h[1] /\ g[2] = h[2]) => g[3] = h[3]

(* A delivery to an existing folder is never refused by the unique index:   *)
(* the UID assignUID is about to use is free.                               *)
DeliveryNeverRefused ==
  \A f \in DOMAIN folders : UidFree(f, folders[f].nextUid, 0)

(* A stale write never brings a removed row back: a row appears only under  *)
(* a fresh id.                                                              *)
NoResurrection ==
  [][ /\ \A m \in DOMAIN msgs' \ DOMAIN msgs : m = nextMid
      /\ \A f \in DOMAIN folders' \ DOMAIN folders : f = nextFid ]_vars

(* A message keeps its folder and UID unless moveToFolder moves it: writing *)
(* back flags that were read before a concurrent move does not undo it.     *)
OnlyMoveMoves ==
  [][ \A m \in DOMAIN msgs \cap DOMAIN msgs' :
        (msgs'[m].folder # msgs[m].folder \/ msgs'[m].uid # msgs[m].uid) =>
           \E c \in Clients : loc[c].pc = "move" /\ loc[c].mid = m ]_vars

(* A flag call changes only the flags it was asked to change. The code does *)
(* not promise it: updateFlags writes back all flags of a row read before   *)
(* the lock, so a call that sets \Seen undoes a \Flagged set meanwhile. No  *)
(* run checks it; given to TLC as a property it yields that trace.          *)
FlagWriteIsLocal ==
  [][ \A c \in Clients : (loc[c].pc = "updateFlags" /\ loc'[c].pc = "idle") =>
        \A m \in DOMAIN msgs \cap DOMAIN msgs' :
           (msgs[m].flags \ msgs'[m].flags) \cup (msgs'[m].flags \ msgs[m].flags)
             \subseteq loc[c].named ]_vars
=============================================================================
