--------------------------- MODULE MailStoreProofs ---------------------------
(* Proofs about MailStore for any number of sessions, folders and messages. *)
EXTENDS MailStore, TLAPS

LEMMA IdleIsCall == Idle \in Call
<1>1. NoFolder \in Folder
  BY StoreAssumption DEF NoFolder, Folder, Names
<1>2. NoMessage \in Message
  BY DEF NoMessage, Message
<1> QED BY <1>1, <1>2 DEF Idle, Call, Pcs

LEMMA GotoType ==
  ASSUME loc \in [Clients -> Call], NEW c \in Clients, NEW rec \in Call, Goto(c, rec)
  PROVE  loc' \in [Clients -> Call]
BY DEF Goto

LEMMA ReturnType ==
  ASSUME loc \in [Clients -> Call], NEW c \in Clients, Return(c)
  PROVE  loc' \in [Clients -> Call]
BY IdleIsCall DEF Return

LEMMA InitType == Init => TypeOK
<1> SUFFICES ASSUME Init PROVE TypeOK
  OBVIOUS
<1>1. /\ nextFid \in Nat \ {0} /\ nextMid \in Nat \ {0}
      /\ DOMAIN folders \subseteq AllocatedFolders
  BY StoreAssumption DEF Init, AllocatedFolders
<1>2. \A f \in DOMAIN folders : folders[f] \in Folder
  BY StoreAssumption DEF Init, Folder, Names
<1>3. DOMAIN msgs \subseteq Allocated /\ \A m \in DOMAIN msgs : msgs[m] \in Message
  BY DEF Init
<1>4. given \subseteq Nat \X Nat \X Nat /\ loc \in [Clients -> Call]
  BY IdleIsCall DEF Init
<1> QED BY <1>1, <1>2, <1>3, <1>4 DEF TypeOK

-----------------------------------------------------------------------------
(* The tables' part of TypeOK, and how each kind of write preserves it.     *)

TablesOK ==
  /\ nextFid \in Nat \ {0}
  /\ nextMid \in Nat \ {0}
  /\ DOMAIN folders \subseteq AllocatedFolders
  /\ \A f \in DOMAIN folders : folders[f] \in Folder
  /\ DOMAIN msgs \subseteq Allocated
  /\ \A m \in DOMAIN msgs : msgs[m] \in Message
  /\ given \subseteq Nat \X Nat \X Nat

LEMMA TypeSplit == TypeOK <=> TablesOK /\ loc \in [Clients -> Call]
BY DEF TypeOK, TablesOK

LEMMA TypeJoin == TablesOK' /\ loc' \in [Clients -> Call] => TypeOK'
BY DEF TypeOK, TablesOK

LEMMA Increment ==
  ASSUME TablesOK, NEW f
  PROVE  /\ DOMAIN NextUidIncremented(f) = DOMAIN folders
         /\ \A g \in DOMAIN folders :
              /\ NextUidIncremented(f)[g] \in Folder
              /\ NextUidIncremented(f)[g].name = folders[g].name
              /\ NextUidIncremented(f)[g].parent = folders[g].parent
              /\ NextUidIncremented(f)[g].nextUid = IF g = f THEN folders[g].nextUid + 1 ELSE folders[g].nextUid
<1> SUFFICES ASSUME NEW g \in DOMAIN folders
             PROVE  LET r == NextUidIncremented(f)[g]
                    IN /\ r \in Folder
                       /\ r.name = folders[g].name /\ r.parent = folders[g].parent
                       /\ r.nextUid = IF g = f THEN folders[g].nextUid + 1 ELSE folders[g].nextUid
  BY DEF NextUidIncremented
<1>1. folders[g] \in Folder
  BY DEF TablesOK
<1> QED BY <1>1 DEF NextUidIncremented, Folder

LEMMA InsertType ==
  ASSUME TablesOK, NEW row \in Message, InsertMessage(row)
  PROVE  TablesOK'
<1>1. /\ DOMAIN folders' = DOMAIN folders
      /\ \A f \in DOMAIN folders' : folders'[f] \in Folder
  BY Increment DEF InsertMessage
<1>2. /\ nextFid' = nextFid /\ nextMid' \in Nat \ {0}
      /\ nextMid' = nextMid + 1
  BY DEF InsertMessage, TablesOK
<1>3. /\ DOMAIN msgs' \subseteq Allocated'
      /\ \A m \in DOMAIN msgs' : msgs'[m] \in Message
  BY <1>2 DEF InsertMessage, TablesOK, Allocated
<1>4. given' \subseteq Nat \X Nat \X Nat
  BY DEF InsertMessage, TablesOK, Message
<1> QED BY <1>1, <1>2, <1>3, <1>4 DEF TablesOK, AllocatedFolders

-----------------------------------------------------------------------------
(* What a call in progress knows. The snapshot renameFolder will write back *)
(* still has the folder's parent, and a snapshot of next_uid is never above *)
(* the folder's next_uid.                                                   *)

CallOK(r) ==
  /\ r.fid < nextFid
  /\ (r.pc \in {"renameCheck", "rename"} /\ r.fid \in DOMAIN folders) =>
        r.folder.parent = folders[r.fid].parent
  /\ r.pc \in {"renameCheck", "rename"} => "renameFolder" \in Ops
  /\ r.pc = "move" => "move" \in Ops
  /\ r.pc \in {"copyFolder", "copyRecipients", "copy"} => "copy" \in Ops

UidSeen(r) ==
  (r.pc \in {"move", "copyRecipients", "copy"} /\ r.fid \in DOMAIN folders) =>
     r.folder.nextUid <= folders[r.fid].nextUid

(* Writes that leave every remaining message in its folder under its UID.   *)
KeepsUids ==
  /\ UNCHANGED <<folders, nextFid, nextMid, given>>
  /\ DOMAIN msgs' \subseteq DOMAIN msgs
  /\ \A m \in DOMAIN msgs' : /\ msgs'[m] \in Message
                             /\ msgs'[m].folder = msgs[m].folder
                             /\ msgs'[m].uid = msgs[m].uid

(* Writes to folders that leave ids and parents alone and lower no next_uid. *)
KeepsTree ==
  /\ UNCHANGED <<msgs, nextFid, nextMid, given>>
  /\ DOMAIN folders' = DOMAIN folders
  /\ \A f \in DOMAIN folders : /\ folders'[f] \in Folder
                               /\ folders'[f].parent = folders[f].parent
                               /\ folders'[f].nextUid >= folders[f].nextUid

(* What the caller keeps after a write: nothing that was read from folders. *)
AfterWrite(c) ==
  \/ UNCHANGED loc
  \/ Return(c)
  \/ Goto(c, [Idle EXCEPT !.pc = "clearRecent", !.fid = loc[c].fid])

Reads(c) ==
  /\ TablesUnchanged
  /\ \E rec \in Call : Goto(c, rec) /\ CallOK(rec) /\ (UidSeen(loc[c]) => UidSeen(rec))

LEMMA IdleIsOK == ASSUME TypeOK PROVE CallOK(Idle) /\ UidSeen(Idle)
BY DEF CallOK, UidSeen, Idle, TypeOK

LEMMA FolderCallKinds ==
  ASSUME TypeOK, NEW c \in Clients, CallOK(loc[c]), NEW f \in AllocatedFolders, FolderCall(c, f)
  PROVE  \/ Reads(c)
         \/ AfterWrite(c) /\ \E g \in Nat, flags \in SUBSET Flags : AssignUID(g, flags)
<1> USE IdleIsCall
<1>0. /\ f \in Nat /\ f < nextFid /\ Idle \in Call
      /\ \A g \in DOMAIN folders : folders[g] \in Folder
      /\ DOMAIN msgs \subseteq Nat
  BY DEF TypeOK, AllocatedFolders, Allocated
<1>1. CASE Deliver(c, f)
  BY <1>0, <1>1 DEF Deliver, AfterWrite, Flags
<1>2. CASE SaveToFolder(c, f)
  BY <1>0, <1>2 DEF SaveToFolder, AfterWrite, Flags
<1>3. CASE \E flags \in FlagSets : AppendMessage(c, f, flags)
  BY <1>0, <1>3, StoreAssumption DEF AppendMessage, AfterWrite, Flags
<1>4. CASE ClearRecentCheck(c, f)
  <2> DEFINE rec == [Idle EXCEPT !.pc = "clearRecent", !.fid = f]
  <2>1. rec \in Call /\ CallOK(rec) /\ UidSeen(rec)
    BY <1>0 DEF Call, Pcs, CallOK, UidSeen
  <2> QED BY <1>4, <2>1 DEF ClearRecentCheck, Reads
<1>5. CASE Expunge(c, f)
  <2> DEFINE rec == [Idle EXCEPT !.pc = "expunge", !.fid = f, !.ids = DeletedIn(f)]
  <2>1. DeletedIn(f) \subseteq Nat
    BY <1>0 DEF DeletedIn
  <2>2. rec \in Call /\ CallOK(rec) /\ UidSeen(rec)
    BY <1>0, <2>1 DEF Call, Pcs, CallOK, UidSeen
  <2> QED BY <1>5, <2>2 DEF Expunge, Reads
<1>6. CASE CloseFolder(c, f)
  <2> DEFINE rec == [Idle EXCEPT !.pc = "closeExpunge", !.fid = f, !.ids = DeletedIn(f)]
  <2>1. DeletedIn(f) \subseteq Nat
    BY <1>0 DEF DeletedIn
  <2>2. rec \in Call /\ CallOK(rec) /\ UidSeen(rec)
    BY <1>0, <2>1 DEF Call, Pcs, CallOK, UidSeen
  <2> QED BY <1>6, <2>2 DEF CloseFolder, Reads
<1>7. CASE \E name \in NewNames : RenameFolder(c, f, name)
  <2> PICK name \in NewNames : RenameFolder(c, f, name)
    BY <1>7
  <2> DEFINE row == [folders[f] EXCEPT !.name = name]
             rec == [Idle EXCEPT !.pc = "renameCheck", !.fid = f, !.folder = row]
  <2>1. row \in Folder /\ row.parent = folders[f].parent
    BY <1>0 DEF RenameFolder, FolderExists, Folder, Names
  <2>2. rec \in Call /\ rec.pc = "renameCheck" /\ rec.fid = f /\ rec.folder.parent = folders[f].parent
    <3> HIDE DEF row
    <3> QED BY <1>0, <2>1 DEF Call, Pcs
  <2>3. CallOK(rec) /\ UidSeen(rec)
    <3> HIDE DEF rec
    <3> QED BY <1>0, <2>2 DEF CallOK, UidSeen, RenameFolder, Calls
  <2> QED BY <2>2, <2>3 DEF RenameFolder, Reads
<1>8. CASE DeleteFolder(c, f)
  <2> DEFINE rec == [Idle EXCEPT !.pc = "deleteFolder", !.fid = f]
  <2>1. rec \in Call /\ CallOK(rec) /\ UidSeen(rec)
    BY <1>0 DEF Call, Pcs, CallOK, UidSeen
  <2> QED BY <1>8, <2>1 DEF DeleteFolder, Reads
<1>9. CASE IncrementNextUID(c, f)
  <2> DEFINE rec == [Idle EXCEPT !.pc = "incrementUid", !.fid = f]
  <2>1. rec \in Call /\ CallOK(rec) /\ UidSeen(rec)
    BY <1>0 DEF Call, Pcs, CallOK, UidSeen
  <2> QED BY <1>9, <2>1 DEF IncrementNextUID, Reads
<1>10. CASE \E on \in BOOLEAN : SetSubscribed(c, f, on)
  <2> PICK on \in BOOLEAN : SetSubscribed(c, f, on)
    BY <1>10
  <2> DEFINE rec == [Idle EXCEPT !.pc = "subscribe", !.fid = f, !.folder.sub = on]
  <2>1. rec \in Call /\ CallOK(rec) /\ UidSeen(rec)
    BY <1>0 DEF Call, Pcs, Folder, CallOK, UidSeen
  <2> QED BY <2>1 DEF SetSubscribed, Reads
<1> QED BY <1>1, <1>2, <1>3, <1>4, <1>5, <1>6, <1>7, <1>8, <1>9, <1>10 DEF FolderCall

LEMMA MessageCallKinds ==
  ASSUME TypeOK, NEW c \in Clients, CallOK(loc[c]), NEW m \in Allocated, MessageCall(c, m)
  PROVE  Reads(c) \/ (AfterWrite(c) /\ KeepsUids)
<1> USE IdleIsCall
<1>0. /\ m \in Nat /\ Idle \in Call
      /\ m \in DOMAIN msgs => msgs[m] \in Message
      /\ \A n \in DOMAIN msgs : msgs[n] \in Message
      /\ \A f \in AllocatedFolders : f \in Nat /\ f < nextFid
      /\ \A f \in DOMAIN folders : folders[f] \in Folder
  BY DEF TypeOK, Allocated, AllocatedFolders
<1>1. CASE \E on \in BOOLEAN : MarkSeen(c, m, on) \/ MarkDeleted(c, m, on)
  <2> PICK on \in BOOLEAN : MarkSeen(c, m, on) \/ MarkDeleted(c, m, on)
    BY <1>1
  <2> PICK flag \in Flags : SetColumn(m, flag, on) /\ UNCHANGED loc
    BY DEF MarkSeen, MarkDeleted, Flags
  <2>1. WithFlag(msgs[m].flags, flag, on) \subseteq Flags
    BY <1>0 DEF SetColumn, WithFlag, Message
  <2> QED BY <1>0, <2>1 DEF SetColumn, AfterWrite, KeepsUids, Message
<1>2. CASE \E flag \in OtherFlags, on \in BOOLEAN : MarkOther(c, m, flag, on)
  <2> PICK flag \in OtherFlags, on \in BOOLEAN : MarkOther(c, m, flag, on)
    BY <1>2
  <2> DEFINE row == [msgs[m] EXCEPT !.flags = WithFlag(@, flag, on)]
             rec == [Idle EXCEPT !.pc = "updateFlags", !.mid = m, !.named = {flag}, !.msg = row]
  <2>1. flag \in Flags /\ row \in Message
    BY <1>0, StoreAssumption DEF MarkOther, WithFlag, Message, Flags
  <2>2. rec \in Call /\ rec.pc = "updateFlags" /\ rec.fid = Idle.fid
    <3> HIDE DEF row
    <3> QED BY <1>0, <2>1 DEF Call, Pcs
  <2>3. CallOK(rec) /\ UidSeen(rec)
    <3> HIDE DEF rec
    <3> QED BY <2>2, IdleIsOK DEF CallOK, UidSeen
  <2> QED BY <2>2, <2>3 DEF MarkOther, Reads
<1>3. CASE \E list \in FlagLists : SetFlags(c, m, list)
  <2> PICK list \in FlagLists : SetFlags(c, m, list)
    BY <1>3
  <2> DEFINE row == [msgs[m] EXCEPT !.flags = SetFlagsResult(@, list)]
             rec == [Idle EXCEPT !.pc = "updateFlags", !.mid = m, !.named = NamedFlags(list), !.msg = row]
  <2>1. NamedFlags(list) \subseteq Flags /\ SetFlagsResult(msgs[m].flags, list) \subseteq Flags
    BY DEF SetFlags, NamedFlags, SetFlagsResult
  <2>2. row \in Message
    BY <1>0, <2>1 DEF SetFlags, Message
  <2>3. rec \in Call /\ rec.pc = "updateFlags" /\ rec.fid = Idle.fid
    <3> HIDE DEF row
    <3> QED BY <1>0, <2>1, <2>2 DEF Call, Pcs
  <2>4. CallOK(rec) /\ UidSeen(rec)
    <3> HIDE DEF rec
    <3> QED BY <2>3, IdleIsOK DEF CallOK, UidSeen
  <2> QED BY <2>3, <2>4 DEF SetFlags, Reads
<1>4. CASE \E flags \in FlagSets : UpdateFlags(c, m, flags)
  <2> PICK flags \in FlagSets : UpdateFlags(c, m, flags)
    BY <1>4
  <2>1. flags \subseteq Flags
    BY StoreAssumption DEF Flags
  <2> QED BY <1>0, <2>1 DEF UpdateFlags, WriteFlags, AfterWrite, KeepsUids, Message
<1>5. CASE HardDelete(c, m)
  <2> DEFINE rec == [Idle EXCEPT !.pc = "hardDelete", !.mid = m]
  <2>1. rec \in Call /\ CallOK(rec) /\ UidSeen(rec)
    BY <1>0, IdleIsOK DEF Call, Pcs, CallOK, UidSeen
  <2> QED BY <1>5, <2>1 DEF HardDelete, Reads
<1>6. CASE \E f \in AllocatedFolders : MoveToFolder(c, m, f)
  <2> PICK f \in AllocatedFolders : MoveToFolder(c, m, f)
    BY <1>6
  <2> DEFINE rec == [Idle EXCEPT !.pc = "move", !.mid = m, !.fid = f, !.folder = folders[f]]
  <2>1. folders[f] \in Folder /\ "move" \in Ops
    BY <1>0 DEF MoveToFolder, FolderExists, Calls
  <2>2. rec \in Call /\ CallOK(rec)
    BY <1>0, <2>1 DEF Call, Pcs, CallOK
  <2>3. UidSeen(rec)
    BY <1>0, <2>1 DEF UidSeen, Call, Folder
  <2> QED BY <2>2, <2>3 DEF MoveToFolder, Reads
<1>7. CASE \E f \in AllocatedFolders : Copy(c, m, f)
  <2> PICK f \in AllocatedFolders : Copy(c, m, f)
    BY <1>7
  <2> DEFINE row == [msgs[m] EXCEPT !.to = {}]
             rec == [Idle EXCEPT !.pc = "copyFolder", !.mid = m, !.fid = f, !.msg = row]
  <2>1. f \in Nat /\ row \in Message /\ "copy" \in Ops
    BY <1>0 DEF Copy, Message, Calls
  <2>2. rec \in Call /\ rec.pc = "copyFolder" /\ rec.fid = f
    <3> HIDE DEF row
    <3> QED BY <1>0, <2>1 DEF Call, Pcs
  <2>3. CallOK(rec) /\ UidSeen(rec)
    <3> HIDE DEF rec
    <3> QED BY <1>0, <2>1, <2>2 DEF CallOK, UidSeen
  <2> QED BY <2>2, <2>3 DEF Copy, Reads
<1>8. CASE \E a \in Addresses : AddRecipient(c, m, a)
  <2> PICK a \in Addresses : AddRecipient(c, m, a)
    BY <1>8
  <2> DEFINE rec == [Idle EXCEPT !.pc = "addRecipient", !.mid = m, !.msg.to = {a}]
  <2>1. rec \in Call /\ CallOK(rec) /\ UidSeen(rec)
    BY <1>0, IdleIsOK DEF Call, Pcs, Message, CallOK, UidSeen
  <2> QED BY <2>1 DEF AddRecipient, Reads
<1>9. CASE \E a \in Addresses : RemoveRecipient(c, m, a)
  <2> PICK a \in Addresses : RemoveRecipient(c, m, a)
    BY <1>9
  <2> DEFINE rec == [Idle EXCEPT !.pc = "removeRecipient", !.mid = m, !.msg.to = {a}]
  <2>1. rec \in Call /\ CallOK(rec) /\ UidSeen(rec)
    BY <1>0, IdleIsOK DEF Call, Pcs, Message, CallOK, UidSeen
  <2> QED BY <2>1 DEF RemoveRecipient, Reads
<1> QED BY <1>1, <1>2, <1>3, <1>4, <1>5, <1>6, <1>7, <1>8, <1>9 DEF MessageCall

LEMMA ContinueKinds ==
  ASSUME TypeOK, NEW c \in Clients, CallOK(loc[c]), Continue(c)
  PROVE  \/ Reads(c)
         \/ AfterWrite(c) /\ KeepsUids
         \/ AfterWrite(c) /\ \E f \in Nat, flags \in SUBSET Flags : AssignUID(f, flags)
         \/ Return(c) /\ KeepsTree
         \/ CopyWrite(c) \/ MoveWrite(c)
         \/ CreateFolderWrite(c) \/ RenameWrite(c) \/ DeleteFolderWrite(c)
<1> USE IdleIsCall
<1>0. /\ loc[c] \in Call /\ Idle \in Call /\ TablesOK
      /\ loc[c].mid \in Nat /\ loc[c].fid \in Nat /\ loc[c].msg \in Message /\ loc[c].folder \in Folder
      /\ \A n \in DOMAIN msgs : msgs[n] \in Message
      /\ \A f \in DOMAIN folders : folders[f] \in Folder
  BY TypeSplit DEF Call, TypeOK
<1>1. CASE DeliverToInbox(c)
  BY <1>0, <1>1 DEF DeliverToInbox, AfterWrite, Flags
<1>2. CASE UpdateFlagsWrite(c)
  BY <1>0, <1>2 DEF UpdateFlagsWrite, WriteFlags, AfterWrite, KeepsUids, Message
<1>3. CASE ClearRecentWrite(c)
  BY <1>0, <1>3 DEF ClearRecentWrite, AfterWrite, KeepsUids, Message
<1>4. CASE ExpungeWrite(c)
  BY <1>0, <1>4 DEF ExpungeWrite, WithoutMessages, AfterWrite, KeepsUids
<1>5. CASE HardDeleteWrite(c)
  BY <1>0, <1>5 DEF HardDeleteWrite, WithoutMessages, AfterWrite, KeepsUids
<1>6. CASE CopyReadFolder(c)
  <2> DEFINE rec == [loc[c] EXCEPT !.pc = "copyRecipients", !.folder = folders[loc[c].fid]]
  <2>1. folders[loc[c].fid] \in Folder
    BY <1>0, <1>6 DEF CopyReadFolder, FolderExists
  <2>2. /\ rec \in Call /\ rec.pc = "copyRecipients" /\ rec.fid = loc[c].fid
        /\ rec.folder = folders[loc[c].fid]
    BY <1>0, <2>1 DEF Call, Pcs
  <2>3. CallOK(rec) /\ UidSeen(rec)
    <3> HIDE DEF rec
    <3> QED BY <1>6, <2>1, <2>2 DEF CallOK, UidSeen, CopyReadFolder, Folder
  <2> QED BY <1>6, <2>2, <2>3 DEF CopyReadFolder, Reads
<1>7. CASE CopyReadRecipients(c)
  <2> DEFINE to == IF loc[c].mid \in DOMAIN msgs THEN msgs[loc[c].mid].to ELSE {}
             rec == [loc[c] EXCEPT !.pc = "copy", !.msg.to = to]
  <2>1. to \subseteq Addresses
    BY <1>0 DEF Message
  <2>2. rec \in Call /\ rec.pc = "copy" /\ rec.fid = loc[c].fid /\ rec.folder = loc[c].folder
    <3> HIDE DEF to
    <3> QED BY <1>0, <2>1 DEF Call, Pcs, Message
  <2>3. CallOK(rec) /\ (UidSeen(loc[c]) => UidSeen(rec))
    <3> HIDE DEF rec
    <3> QED BY <1>7, <2>2 DEF CallOK, UidSeen, CopyReadRecipients
  <2> QED BY <1>7, <2>2, <2>3 DEF CopyReadRecipients, Reads
<1>8. CASE AddRecipientWrite(c)
  BY <1>0, <1>8 DEF AddRecipientWrite, AfterWrite, KeepsUids, Message
<1>9. CASE RemoveRecipientWrite(c)
  BY <1>0, <1>9 DEF RemoveRecipientWrite, AfterWrite, KeepsUids, Message
<1>10. CASE RenameCheck(c)
  <2> DEFINE rec == [loc[c] EXCEPT !.pc = "rename"]
  <2>1. rec \in Call /\ rec.pc = "rename" /\ rec.fid = loc[c].fid /\ rec.folder = loc[c].folder
    BY <1>0 DEF Call, Pcs
  <2>2. CallOK(rec) /\ UidSeen(rec)
    <3> HIDE DEF rec
    <3> QED BY <1>10, <2>1 DEF CallOK, UidSeen, RenameCheck
  <2> QED BY <1>10, <2>1, <2>2 DEF RenameCheck, Reads
<1>11. CASE IncrementNextUIDWrite(c)
  <2>1. \A f \in DOMAIN folders : folders[f].nextUid \in Nat
    BY <1>0 DEF Folder
  <2> QED BY <1>0, <1>11, <2>1, Increment DEF IncrementNextUIDWrite, KeepsTree
<1>12. CASE SetSubscribedWrite(c)
  <2>1. \A f \in DOMAIN folders : folders[f].nextUid \in Nat /\ loc[c].folder.sub \in BOOLEAN
    BY <1>0 DEF Folder
  <2>2. /\ DOMAIN folders' = DOMAIN folders
        /\ \A f \in DOMAIN folders : /\ folders'[f] \in Folder
                                     /\ folders'[f].parent = folders[f].parent
                                     /\ folders'[f].nextUid = folders[f].nextUid
    BY <1>0, <1>12, <2>1 DEF SetSubscribedWrite, Folder
  <2> QED BY <1>12, <2>1, <2>2 DEF SetSubscribedWrite, KeepsTree
<1>13. CASE CallFails(c)
  BY <1>0, <1>13, IdleIsOK DEF CallFails, Reads, Return, Goto
<1> QED BY <1>1, <1>2, <1>3, <1>4, <1>5, <1>6, <1>7, <1>8, <1>9, <1>10, <1>11, <1>12, <1>13
     DEF Continue

(* Every step of a session is a read or one of eight kinds of write.        *)
LEMMA StepKinds ==
  ASSUME TypeOK, NEW c \in Clients, CallOK(loc[c]), Step(c)
  PROVE  \/ Reads(c)
         \/ AfterWrite(c) /\ KeepsUids
         \/ AfterWrite(c) /\ \E f \in Nat, flags \in SUBSET Flags : AssignUID(f, flags)
         \/ Return(c) /\ KeepsTree
         \/ CopyWrite(c) \/ MoveWrite(c)
         \/ CreateFolderWrite(c) \/ RenameWrite(c) \/ DeleteFolderWrite(c)
<1> USE IdleIsCall
<1>1. CASE DeliverFindInbox(c)
  <2> PICK f \in FoldersNamed("INBOX") : Goto(c, [Idle EXCEPT !.pc = "assign", !.fid = f])
    BY <1>1 DEF DeliverFindInbox
  <2> DEFINE rec == [Idle EXCEPT !.pc = "assign", !.fid = f]
  <2>1. f \in Nat /\ f < nextFid
    BY DEF FoldersNamed, TypeOK, AllocatedFolders
  <2>2. rec \in Call /\ CallOK(rec) /\ UidSeen(rec)
    BY <2>1 DEF Call, Pcs, CallOK, UidSeen
  <2> QED BY <1>1, <2>2 DEF DeliverFindInbox, Reads
<1>2. CASE \E name \in NewNames, parent \in AllocatedFolders \cup {0} : CreateFolder(c, name, parent)
  <2> PICK name \in NewNames, parent \in AllocatedFolders \cup {0} : CreateFolder(c, name, parent)
    BY <1>2
  <2> DEFINE row == [name |-> name, parent |-> parent, nextUid |-> 1, sub |-> FALSE]
             rec == [Idle EXCEPT !.pc = "createFolder", !.folder = row]
  <2>1. row \in Folder
    BY DEF Folder, Names, AllocatedFolders, TypeOK
  <2>2. rec \in Call /\ rec.pc = "createFolder" /\ rec.fid = Idle.fid
    <3> HIDE DEF row
    <3> QED BY <2>1 DEF Call, Pcs
  <2>3. CallOK(rec) /\ UidSeen(rec)
    <3> HIDE DEF rec
    <3> QED BY <2>2, IdleIsOK DEF CallOK, UidSeen
  <2> QED BY <2>2, <2>3 DEF CreateFolder, Reads
<1>3. CASE \E f \in AllocatedFolders : FolderCall(c, f)
  BY <1>3, FolderCallKinds
<1>4. CASE \E m \in Allocated : MessageCall(c, m)
  BY <1>4, MessageCallKinds
<1>5. CASE Continue(c)
  BY <1>5, ContinueKinds
<1> QED BY <1>1, <1>2, <1>3, <1>4, <1>5 DEF Step

-----------------------------------------------------------------------------
(* The inductive invariant of the tables.                                   *)

StoreInv == TypeOK /\ Integrity /\ \A c \in Clients : CallOK(loc[c])

(* No write gives an old folder id to another folder or moves a folder.     *)
FoldersKept ==
  /\ nextFid' \in Nat /\ nextFid <= nextFid'
  /\ \A f \in DOMAIN folders' : f < nextFid =>
        f \in DOMAIN folders /\ folders'[f].parent = folders[f].parent

LEMMA CallsKept ==
  ASSUME TypeOK, \A d \in Clients : CallOK(loc[d]), NEW c \in Clients, FoldersKept, AfterWrite(c)
  PROVE  \A d \in Clients : CallOK(loc[d])'
<1> SUFFICES ASSUME NEW d \in Clients PROVE CallOK(loc[d])'
  OBVIOUS
<1>0. /\ loc \in [Clients -> Call] /\ loc[c].fid \in Nat /\ loc[d].fid \in Nat
      /\ loc[c].fid < nextFid /\ nextFid \in Nat /\ 0 < nextFid
  BY DEF TypeOK, Call, CallOK
<1>1. CASE loc'[d] = loc[d]
  BY <1>0, <1>1 DEF CallOK, FoldersKept
<1>2. CASE loc'[d] # loc[d]
  <2>1. /\ loc'[d].pc \in {"idle", "clearRecent"}
        /\ loc'[d].fid \in {0, loc[c].fid}
    <3> DEFINE rec == [Idle EXCEPT !.pc = "clearRecent", !.fid = loc[c].fid]
    <3>1. Idle.pc = "idle" /\ Idle.fid = 0 /\ rec.pc = "clearRecent" /\ rec.fid = loc[c].fid
      BY DEF Idle
    <3>2. loc'[d] = Idle \/ loc'[d] = rec
      <4> HIDE DEF rec
      <4> QED BY <1>0, <1>2 DEF AfterWrite, Return, Goto, rec
    <3> HIDE DEF rec
    <3> QED BY <3>1, <3>2
  <2> QED BY <1>0, <2>1 DEF CallOK, FoldersKept
<1> QED BY <1>1, <1>2

LEMMA ReadKeepsInv ==
  ASSUME StoreInv, NEW c \in Clients, Reads(c)
  PROVE  StoreInv'
<1> PICK rec \in Call : Goto(c, rec) /\ CallOK(rec)
  BY DEF Reads
<1>1. UNCHANGED <<folders, msgs, nextFid, nextMid, given>>
  BY DEF Reads, TablesUnchanged
<1>2. loc \in [Clients -> Call] /\ loc' \in [Clients -> Call]
  BY GotoType DEF StoreInv, TypeOK
<1>3. TypeOK' /\ Integrity'
  BY <1>1, <1>2 DEF StoreInv, TypeOK, Integrity, Allocated, AllocatedFolders
<1>4. \A d \in Clients : loc'[d] = loc[d] \/ loc'[d] = rec
  BY <1>2 DEF Goto
<1>5. \A d \in Clients : CallOK(loc[d])'
  BY <1>1, <1>4 DEF StoreInv, CallOK
<1> QED BY <1>3, <1>5 DEF StoreInv

LEMMA AfterWriteType ==
  ASSUME TypeOK, NEW c \in Clients, AfterWrite(c)
  PROVE  loc' \in [Clients -> Call]
<1>1. loc \in [Clients -> Call] /\ loc[c] \in Call
  BY DEF TypeOK
<1>2. [Idle EXCEPT !.pc = "clearRecent", !.fid = loc[c].fid] \in Call
  BY <1>1, IdleIsCall DEF Call, Pcs
<1> QED BY <1>1, <1>2, GotoType, ReturnType DEF AfterWrite

LEMMA MessageWriteKeepsInv ==
  ASSUME StoreInv, NEW c \in Clients, AfterWrite(c), KeepsUids
  PROVE  StoreInv'
<1>1. loc' \in [Clients -> Call]
  BY AfterWriteType DEF StoreInv
<1>2. TypeOK'
  BY <1>1 DEF StoreInv, TypeOK, KeepsUids, Allocated, AllocatedFolders
<1>3. Integrity'
  BY DEF StoreInv, Integrity, KeepsUids
<1>4. FoldersKept
  BY DEF FoldersKept, KeepsUids, StoreInv, TypeOK
<1> QED BY <1>2, <1>3, <1>4, CallsKept DEF StoreInv

LEMMA FolderWriteKeepsInv ==
  ASSUME StoreInv, NEW c \in Clients, Return(c), KeepsTree
  PROVE  StoreInv'
<1>0. AfterWrite(c)
  BY DEF AfterWrite
<1>1. loc' \in [Clients -> Call]
  BY <1>0, AfterWriteType DEF StoreInv
<1>2. TypeOK'
  BY <1>1 DEF StoreInv, TypeOK, KeepsTree, Allocated, AllocatedFolders
<1>3. Integrity'
  BY DEF StoreInv, Integrity, KeepsTree
<1>4. FoldersKept
  BY DEF FoldersKept, KeepsTree, StoreInv, TypeOK
<1> QED BY <1>0, <1>2, <1>3, <1>4, CallsKept DEF StoreInv

LEMMA InsertKeepsInv ==
  ASSUME StoreInv, NEW c \in Clients, AfterWrite(c), NEW row \in Message, InsertMessage(row)
  PROVE  StoreInv'
<1>0. TablesOK
  BY TypeSplit DEF StoreInv
<1>1. TypeOK'
  BY <1>0, InsertType, AfterWriteType, TypeJoin DEF StoreInv
<1>2. /\ DOMAIN folders' = DOMAIN folders
      /\ \A f \in DOMAIN folders : folders'[f].parent = folders[f].parent
  BY <1>0, Increment DEF InsertMessage
<1>3. nextMid \notin DOMAIN msgs
  BY <1>0 DEF TablesOK, Allocated
<1>4. Integrity'
  <2>1. \A m \in DOMAIN msgs' : msgs'[m].folder \in DOMAIN folders'
    BY <1>2 DEF StoreInv, Integrity, InsertMessage, FolderExists
  <2>2. \A f \in DOMAIN folders' : folders'[f].parent # 0 => folders'[f].parent \in DOMAIN folders'
    BY <1>2 DEF StoreInv, Integrity
  <2>3. \A m, n \in DOMAIN msgs' :
           (msgs'[m].folder = msgs'[n].folder /\ msgs'[m].uid = msgs'[n].uid) => m = n
    BY <1>3 DEF StoreInv, Integrity, InsertMessage, UidFree
  <2> QED BY <2>1, <2>2, <2>3 DEF Integrity
<1>5. FoldersKept
  BY <1>0, <1>2 DEF FoldersKept, InsertMessage, TablesOK
<1> QED BY <1>1, <1>4, <1>5, CallsKept DEF StoreInv

(* Both allocators insert a row of a folder: with the current next_uid, or  *)
(* with the one copy has read.                                              *)
LEMMA AssignInserts ==
  ASSUME TypeOK, NEW f, NEW flags \in SUBSET Flags, AssignUID(f, flags)
  PROVE  \E row \in Message : /\ InsertMessage(row)
                              /\ row.folder = f /\ row.uid = folders[f].nextUid
<1> DEFINE row == [folder |-> f, uid |-> folders[f].nextUid, flags |-> flags, to |-> {}]
<1>1. f \in Nat /\ folders[f] \in Folder
  BY DEF AssignUID, FolderExists, TypeOK, AllocatedFolders
<1>2. row \in Message
  BY <1>1 DEF Message, Folder
<1> QED BY <1>2 DEF AssignUID

LEMMA CopyInserts ==
  ASSUME TypeOK, NEW c \in Clients, CopyWrite(c)
  PROVE  \E row \in Message : /\ InsertMessage(row)
                              /\ row.folder = loc[c].fid /\ row.uid = loc[c].folder.nextUid
<1> DEFINE row == [loc[c].msg EXCEPT !.folder = loc[c].fid, !.uid = loc[c].folder.nextUid]
<1>1. loc[c].msg \in Message /\ loc[c].folder \in Folder /\ loc[c].fid \in Nat
  BY DEF TypeOK, Call
<1>2. row \in Message /\ row.folder = loc[c].fid /\ row.uid = loc[c].folder.nextUid
  BY <1>1 DEF Message, Folder
<1>3. InsertMessage(row)
  BY DEF CopyWrite
<1> QED BY <1>2, <1>3

LEMMA MoveKeepsInv ==
  ASSUME StoreInv, NEW c \in Clients, MoveWrite(c)
  PROVE  StoreInv'
<1>0. TablesOK /\ loc[c] \in Call /\ AfterWrite(c)
  BY TypeSplit DEF StoreInv, MoveWrite, AfterWrite
<1>1. loc[c].fid \in Nat /\ loc[c].mid \in Nat /\ loc[c].folder.nextUid \in Nat
  BY <1>0 DEF Call, Folder
<1>2. /\ DOMAIN folders' = DOMAIN folders
      /\ \A f \in DOMAIN folders : folders'[f] \in Folder /\ folders'[f].parent = folders[f].parent
  BY <1>0, Increment DEF MoveWrite
<1>3. DOMAIN msgs' = DOMAIN msgs /\ UNCHANGED <<nextFid, nextMid>>
  BY DEF MoveWrite
<1>4. TypeOK'
  <2>1. \A m \in DOMAIN msgs' : msgs'[m] \in Message
    BY <1>0, <1>1 DEF MoveWrite, TablesOK, Message
  <2>2. given' \subseteq Nat \X Nat \X Nat
    BY <1>0, <1>1 DEF MoveWrite, TablesOK
  <2>3. TablesOK'
    BY <1>0, <1>2, <1>3, <2>1, <2>2 DEF TablesOK, Allocated, AllocatedFolders
  <2> QED BY <1>0, <2>3, AfterWriteType, TypeJoin DEF StoreInv
<1>5. Integrity'
  <2>1. \A m \in DOMAIN msgs' : msgs'[m].folder \in DOMAIN folders'
    BY <1>0, <1>2 DEF StoreInv, Integrity, MoveWrite, FolderExists, TablesOK, Message
  <2>2. \A f \in DOMAIN folders' : folders'[f].parent # 0 => folders'[f].parent \in DOMAIN folders'
    BY <1>2 DEF StoreInv, Integrity
  <2>3. \A m, n \in DOMAIN msgs' :
           (msgs'[m].folder = msgs'[n].folder /\ msgs'[m].uid = msgs'[n].uid) => m = n
    <3> DEFINE m0 == loc[c].mid
    <3>1. CASE m0 \notin DOMAIN msgs
      BY <3>1 DEF StoreInv, Integrity, MoveWrite
    <3>2. CASE m0 \in DOMAIN msgs
      <4>0. /\ UidFree(loc[c].fid, loc[c].folder.nextUid, m0)
            /\ msgs' = [msgs EXCEPT ![m0].folder = loc[c].fid, ![m0].uid = loc[c].folder.nextUid]
        BY <3>2 DEF MoveWrite
      <4>1. msgs[m0] \in Message
        BY <1>0, <3>2 DEF TablesOK
      <4>2. /\ msgs'[m0].folder = loc[c].fid /\ msgs'[m0].uid = loc[c].folder.nextUid
            /\ \A m \in DOMAIN msgs \ {m0} : msgs'[m] = msgs[m]
        BY <3>2, <4>0, <4>1 DEF Message
      <4> QED BY <1>3, <4>0, <4>2 DEF StoreInv, Integrity, UidFree
    <3> QED BY <3>1, <3>2
  <2> QED BY <2>1, <2>2, <2>3 DEF Integrity
<1>6. FoldersKept
  BY <1>0, <1>2, <1>3 DEF FoldersKept, TablesOK
<1> QED BY <1>0, <1>4, <1>5, <1>6, CallsKept DEF StoreInv

LEMMA CreateKeepsInv ==
  ASSUME StoreInv, NEW c \in Clients, CreateFolderWrite(c)
  PROVE  StoreInv'
<1>0. TablesOK /\ loc[c].folder \in Folder /\ AfterWrite(c)
  BY TypeSplit DEF StoreInv, CreateFolderWrite, AfterWrite, TypeOK, Call
<1>1. nextFid \notin DOMAIN folders
  BY <1>0 DEF TablesOK, AllocatedFolders
<1>2. TypeOK'
  <2>1. /\ nextFid' \in Nat \ {0} /\ DOMAIN folders' \subseteq AllocatedFolders'
        /\ \A f \in DOMAIN folders' : folders'[f] \in Folder
    BY <1>0 DEF CreateFolderWrite, TablesOK, AllocatedFolders
  <2>2. TablesOK'
    BY <1>0, <2>1 DEF CreateFolderWrite, TablesOK, Allocated
  <2> QED BY <1>0, <2>2, AfterWriteType, TypeJoin DEF StoreInv
<1>3. Integrity'
  BY <1>1 DEF StoreInv, Integrity, CreateFolderWrite, FolderExists
<1>4. FoldersKept
  BY <1>0, <1>1 DEF FoldersKept, CreateFolderWrite, TablesOK
<1> QED BY <1>0, <1>2, <1>3, <1>4, CallsKept DEF StoreInv

LEMMA RenameKeepsInv ==
  ASSUME StoreInv, NEW c \in Clients, RenameWrite(c)
  PROVE  StoreInv'
<1>0. TablesOK /\ loc[c].folder \in Folder /\ AfterWrite(c)
  BY TypeSplit DEF StoreInv, RenameWrite, AfterWrite, TypeOK, Call
<1>1. /\ DOMAIN folders' = DOMAIN folders
      /\ \A f \in DOMAIN folders : folders'[f] \in Folder /\ folders'[f].parent = folders[f].parent
  BY <1>0 DEF RenameWrite, StoreInv, CallOK, TablesOK
<1>2. TypeOK'
  <2>1. TablesOK'
    BY <1>0, <1>1 DEF RenameWrite, TablesOK, Allocated, AllocatedFolders
  <2> QED BY <1>0, <2>1, AfterWriteType, TypeJoin DEF StoreInv
<1>3. Integrity'
  BY <1>1 DEF StoreInv, Integrity, RenameWrite
<1>4. FoldersKept
  BY <1>0, <1>1 DEF FoldersKept, RenameWrite, TablesOK
<1> QED BY <1>0, <1>2, <1>3, <1>4, CallsKept DEF StoreInv

LEMMA DeleteKeepsInv ==
  ASSUME StoreInv, NEW c \in Clients, DeleteFolderWrite(c)
  PROVE  StoreInv'
<1> DEFINE gone == Subtree(loc[c].fid)
<1>0. TablesOK /\ AfterWrite(c)
  BY TypeSplit DEF StoreInv, DeleteFolderWrite, AfterWrite
<1>1. \A f \in DOMAIN folders : folders[f].parent \in gone => f \in gone
  BY DEF Subtree
<1>2. /\ folders' = [f \in DOMAIN folders \ gone |-> folders[f]]
      /\ msgs' = [m \in DOMAIN msgs \ {n \in DOMAIN msgs : msgs[n].folder \in gone} |-> msgs[m]]
      /\ UNCHANGED <<nextFid, nextMid, given>>
  BY DEF DeleteFolderWrite, WithoutMessages
<1> HIDE DEF gone
<1>3. TypeOK'
  <2>1. TablesOK'
    BY <1>0, <1>2 DEF TablesOK, Allocated, AllocatedFolders
  <2> QED BY <1>0, <2>1, AfterWriteType, TypeJoin DEF StoreInv
<1>4. Integrity'
  BY <1>1, <1>2 DEF StoreInv, Integrity
<1>5. FoldersKept
  BY <1>0, <1>2 DEF FoldersKept, TablesOK
<1> QED BY <1>0, <1>3, <1>4, <1>5, CallsKept DEF StoreInv

LEMMA InitInv == Init => StoreInv
<1> SUFFICES ASSUME Init PROVE StoreInv
  OBVIOUS
<1>1. TypeOK
  BY InitType
<1>2. Integrity
  BY DEF Init, Integrity
<1>3. \A c \in Clients : CallOK(loc[c])
  BY <1>1, IdleIsOK DEF Init
<1> QED BY <1>1, <1>2, <1>3 DEF StoreInv

LEMMA StepKeepsInv ==
  ASSUME StoreInv, NEW c \in Clients, Step(c)
  PROVE  StoreInv'
<1>0. TypeOK /\ CallOK(loc[c])
  BY DEF StoreInv
<1>1. CASE Reads(c)
  BY <1>1, ReadKeepsInv
<1>2. CASE AfterWrite(c) /\ KeepsUids
  BY <1>2, MessageWriteKeepsInv
<1>3. CASE AfterWrite(c) /\ \E f \in Nat, flags \in SUBSET Flags : AssignUID(f, flags)
  BY <1>0, <1>3, AssignInserts, InsertKeepsInv
<1>4. CASE Return(c) /\ KeepsTree
  BY <1>4, FolderWriteKeepsInv
<1>5. CASE CopyWrite(c)
  BY <1>0, <1>5, CopyInserts, InsertKeepsInv DEF CopyWrite, AfterWrite
<1>6. CASE MoveWrite(c)
  BY <1>6, MoveKeepsInv
<1>7. CASE CreateFolderWrite(c)
  BY <1>7, CreateKeepsInv
<1>8. CASE RenameWrite(c)
  BY <1>8, RenameKeepsInv
<1>9. CASE DeleteFolderWrite(c)
  BY <1>9, DeleteKeepsInv
<1> QED BY <1>0, <1>1, <1>2, <1>3, <1>4, <1>5, <1>6, <1>7, <1>8, <1>9, StepKinds

LEMMA NextKeepsInv == StoreInv /\ [Next]_vars => StoreInv'
<1> SUFFICES ASSUME StoreInv, [Next]_vars PROVE StoreInv'
  OBVIOUS
<1>1. CASE Next
  BY <1>1, StepKeepsInv DEF Next
<1>2. CASE UNCHANGED vars
  BY <1>2 DEF vars, StoreInv, TypeOK, Integrity, CallOK, Allocated, AllocatedFolders
<1> QED BY <1>1, <1>2

(* The tables and the calls in progress keep their types: every row a       *)
(* session writes back is a row, whatever the session read before.          *)
THEOREM TypeCorrect == Spec => []TypeOK
<1>1. StoreInv => TypeOK
  BY DEF StoreInv
<1> QED BY <1>1, InitInv, NextKeepsInv, PTL DEF Spec

(* With any number of sessions running any of the repository's operations,  *)
(* no message loses its folder, no folder its parent, and no two messages   *)
(* of a folder share a UID. The snapshot renameFolder writes back is why    *)
(* CallOK is needed: its parent is still the folder's parent.               *)
THEOREM StoreIntegrity == Spec => []Integrity
<1>1. StoreInv => Integrity
  BY DEF StoreInv
<1> QED BY <1>1, InitInv, NextKeepsInv, PTL DEF Spec

(* A row never comes back under the id of a removed one: the stale writes of *)
(* flag updates, moves and renames are UPDATEs of rows that still exist.     *)
THEOREM NothingResurrected == Spec => NoResurrection
<1> DEFINE Fresh == /\ \A m \in DOMAIN msgs' \ DOMAIN msgs : m = nextMid
                    /\ \A f \in DOMAIN folders' \ DOMAIN folders : f = nextFid
<1>1. StoreInv /\ [Next]_vars => [Fresh]_vars
  <2> SUFFICES ASSUME StoreInv, NEW c \in Clients, Step(c) PROVE Fresh
    BY DEF Next
  <2>0. TypeOK /\ TablesOK /\ CallOK(loc[c])
    BY TypeSplit DEF StoreInv
  <2>1. CASE Reads(c) \/ KeepsUids \/ KeepsTree
    BY <2>1 DEF Reads, TablesUnchanged, KeepsUids, KeepsTree
  <2>2. CASE \E row \in Message : InsertMessage(row)
    BY <2>0, <2>2, Increment DEF InsertMessage
  <2>3. CASE MoveWrite(c)
    BY <2>0, <2>3, Increment DEF MoveWrite
  <2>4. CASE CreateFolderWrite(c) \/ RenameWrite(c) \/ DeleteFolderWrite(c)
    BY <2>4 DEF CreateFolderWrite, RenameWrite, DeleteFolderWrite, WithoutMessages
  <2> QED BY <2>0, <2>1, <2>2, <2>3, <2>4, StepKinds, AssignInserts, CopyInserts
<1> QED BY <1>1, InitInv, NextKeepsInv, PTL DEF Spec, NoResurrection

(* Only moveToFolder changes the folder or the UID of a message: a flag      *)
(* update computed from a row read before a move leaves the move alone.      *)
THEOREM MovesOnlyByMove == Spec => OnlyMoveMoves
<1> DEFINE Moved(m) == msgs'[m].folder # msgs[m].folder \/ msgs'[m].uid # msgs[m].uid
           Mover == \A m \in DOMAIN msgs \cap DOMAIN msgs' :
                      Moved(m) => \E c \in Clients : loc[c].pc = "move" /\ loc[c].mid = m
<1>1. StoreInv /\ [Next]_vars => [Mover]_vars
  <2> SUFFICES ASSUME StoreInv, NEW c \in Clients, Step(c) PROVE Mover
    BY DEF Next
  <2>0. TypeOK /\ TablesOK /\ CallOK(loc[c])
    BY TypeSplit DEF StoreInv
  <2>1. CASE Reads(c) \/ KeepsUids \/ KeepsTree
    BY <2>1 DEF Reads, TablesUnchanged, KeepsUids, KeepsTree
  <2>2. CASE \E row \in Message : InsertMessage(row)
    <3>1. nextMid \notin DOMAIN msgs
      BY <2>0 DEF TablesOK, Allocated
    <3> QED BY <2>2, <3>1 DEF InsertMessage
  <2>3. CASE MoveWrite(c)
    <3>1. \A m \in DOMAIN msgs : m # loc[c].mid => msgs'[m] = msgs[m]
      BY <2>3 DEF MoveWrite
    <3> QED BY <2>3, <3>1 DEF MoveWrite
  <2>4. CASE CreateFolderWrite(c) \/ RenameWrite(c) \/ DeleteFolderWrite(c)
    BY <2>4 DEF CreateFolderWrite, RenameWrite, DeleteFolderWrite, WithoutMessages
  <2> QED BY <2>0, <2>1, <2>2, <2>3, <2>4, StepKinds, AssignInserts, CopyInserts
<1> QED BY <1>1, InitInv, NextKeepsInv, PTL DEF Spec, OnlyMoveMoves
=============================================================================
