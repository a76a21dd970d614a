------------------------- MODULE MailStoreUidProofs -------------------------
(* What the store promises about UIDs. renameFolder, copy and moveToFolder   *)
(* use a next_uid they read before the lock, so the promises are proved for  *)
(* sessions that do not call the operation that breaks them.                 *)
EXTENDS MailStoreProofs

UidInv == StoreInv /\ UidBelowNext /\ \A c \in Clients : UidSeen(loc[c])

UidsKept ==
  \A f \in DOMAIN folders' : f < nextFid => folders[f].nextUid <= folders'[f].nextUid

LEMMA SeenKept ==
  ASSUME UidInv, TypeOK', NEW c \in Clients, FoldersKept, UidsKept, AfterWrite(c)
  PROVE  \A d \in Clients : UidSeen(loc[d])'
<1> SUFFICES ASSUME NEW d \in Clients PROVE UidSeen(loc[d])'
  OBVIOUS
<1>0. /\ loc \in [Clients -> Call] /\ loc[c].fid \in Nat /\ loc[d].fid \in Nat
      /\ loc[d].fid < nextFid /\ loc[d].folder.nextUid \in Nat /\ nextFid \in Nat
      /\ \A f \in DOMAIN folders : folders[f].nextUid \in Nat
      /\ \A f \in DOMAIN folders' : folders'[f].nextUid \in Nat
  BY DEF UidInv, StoreInv, TypeOK, Call, CallOK, Folder
<1>1. CASE loc'[d] = loc[d]
  <2> SUFFICES ASSUME loc[d].pc \in {"move", "copyRecipients", "copy"}, loc[d].fid \in DOMAIN folders'
               PROVE  loc[d].folder.nextUid <= folders'[loc[d].fid].nextUid
    BY <1>1 DEF UidSeen
  <2>1. loc[d].fid \in DOMAIN folders
    BY <1>0 DEF FoldersKept
  <2>2. loc[d].folder.nextUid <= folders[loc[d].fid].nextUid
    BY <2>1 DEF UidInv, UidSeen
  <2>3. folders[loc[d].fid].nextUid <= folders'[loc[d].fid].nextUid
    BY <1>0 DEF UidsKept
  <2> QED BY <1>0, <2>1, <2>2, <2>3
<1>2. CASE loc'[d] # loc[d]
  <2> DEFINE rec == [Idle EXCEPT !.pc = "clearRecent", !.fid = loc[c].fid]
  <2>1. Idle.pc = "idle" /\ rec.pc = "clearRecent"
    BY DEF Idle
  <2>2. loc'[d] = Idle \/ loc'[d] = rec
    <3> HIDE DEF rec
    <3> QED BY <1>0, <1>2 DEF AfterWrite, Return, Goto, rec
  <2> HIDE DEF rec
  <2> QED BY <2>1, <2>2 DEF UidSeen
<1> QED BY <1>1, <1>2

(* A new row at or below next_uid, with next_uid moving on.                 *)
LEMMA InsertKeepsUids ==
  ASSUME UidInv, StoreInv', NEW c \in Clients, AfterWrite(c),
         NEW row \in Message, InsertMessage(row), row.uid <= folders[row.folder].nextUid
  PROVE  UidInv'
<1>0. /\ TablesOK /\ row.folder \in DOMAIN folders /\ row.uid \in Nat
      /\ \A f \in DOMAIN folders : folders[f].nextUid \in Nat
      /\ \A m \in DOMAIN msgs : msgs[m].uid \in Nat
  BY TypeSplit DEF UidInv, StoreInv, TablesOK, InsertMessage, FolderExists, Folder, Message
<1>1. /\ DOMAIN folders' = DOMAIN folders /\ nextFid' = nextFid
      /\ \A f \in DOMAIN folders :
           folders'[f].nextUid = IF f = row.folder THEN folders[f].nextUid + 1 ELSE folders[f].nextUid
      /\ \A f \in DOMAIN folders : folders'[f].parent = folders[f].parent
  BY <1>0, Increment DEF InsertMessage
<1>2. UidBelowNext'
  <2> SUFFICES ASSUME NEW m \in DOMAIN msgs', msgs'[m].folder \in DOMAIN folders'
               PROVE  msgs'[m].uid < folders'[msgs'[m].folder].nextUid
    BY DEF UidBelowNext
  <2>1. CASE m = nextMid
    BY <1>0, <1>1, <2>1 DEF InsertMessage
  <2>2. CASE m # nextMid
    <3>1. m \in DOMAIN msgs /\ msgs'[m] = msgs[m]
      BY <2>2 DEF InsertMessage
    <3>2. msgs[m].uid < folders[msgs[m].folder].nextUid
      BY <1>1, <3>1 DEF UidInv, UidBelowNext
    <3> QED BY <1>0, <1>1, <3>1, <3>2
  <2> QED BY <2>1, <2>2
<1>3. FoldersKept /\ UidsKept
  BY <1>0, <1>1 DEF FoldersKept, UidsKept, TablesOK
<1> QED BY <1>2, <1>3, SeenKept DEF UidInv, StoreInv

LEMMA ReadKeepsUids ==
  ASSUME UidInv, NEW c \in Clients, Reads(c)
  PROVE  UidInv'
<1> PICK rec \in Call : Goto(c, rec) /\ UidSeen(rec)
  BY DEF Reads, UidInv
<1>1. UNCHANGED <<folders, msgs>> /\ loc \in [Clients -> Call]
  BY DEF Reads, TablesUnchanged, UidInv, StoreInv, TypeOK
<1>2. \A d \in Clients : loc'[d] = loc[d] \/ loc'[d] = rec
  BY <1>1 DEF Goto
<1>3. \A d \in Clients : UidSeen(loc[d])'
  BY <1>1, <1>2 DEF UidInv, UidSeen
<1>4. UidBelowNext'
  BY <1>1 DEF UidInv, UidBelowNext
<1> QED BY <1>3, <1>4, ReadKeepsInv DEF UidInv

LEMMA MessageWriteKeepsUids ==
  ASSUME UidInv, NEW c \in Clients, AfterWrite(c), KeepsUids
  PROVE  UidInv'
<1>1. StoreInv'
  BY MessageWriteKeepsInv DEF UidInv
<1>2. UidBelowNext'
  BY DEF UidInv, UidBelowNext, KeepsUids
<1>3. FoldersKept /\ UidsKept
  BY DEF FoldersKept, UidsKept, KeepsUids, UidInv, StoreInv, TypeOK, Folder
<1> QED BY <1>1, <1>2, <1>3, SeenKept DEF UidInv, StoreInv

LEMMA FolderWriteKeepsUids ==
  ASSUME UidInv, NEW c \in Clients, Return(c), KeepsTree
  PROVE  UidInv'
<1>1. StoreInv'
  BY FolderWriteKeepsInv DEF UidInv
<1>2. UidBelowNext'
  <2>1. /\ \A f \in DOMAIN folders : folders[f].nextUid \in Nat /\ folders'[f].nextUid \in Nat
        /\ \A m \in DOMAIN msgs : msgs[m].uid \in Nat
    BY DEF UidInv, StoreInv, TypeOK, KeepsTree, Folder, Message
  <2> QED BY <2>1 DEF UidInv, UidBelowNext, KeepsTree
<1>3. FoldersKept /\ UidsKept /\ AfterWrite(c)
  BY DEF FoldersKept, UidsKept, KeepsTree, UidInv, StoreInv, TypeOK, AfterWrite
<1> QED BY <1>1, <1>2, <1>3, SeenKept DEF UidInv, StoreInv

LEMMA MoveKeepsUids ==
  ASSUME UidInv, NEW c \in Clients, MoveWrite(c)
  PROVE  UidInv'
<1> DEFINE m0 == loc[c].mid
           f0 == loc[c].fid
           uid == loc[c].folder.nextUid
<1>0. /\ TablesOK /\ AfterWrite(c) /\ f0 \in Nat /\ uid \in Nat
      /\ \A f \in DOMAIN folders : folders[f].nextUid \in Nat
      /\ \A m \in DOMAIN msgs : msgs[m] \in Message
      /\ \A m \in DOMAIN msgs : msgs[m].uid \in Nat
  BY TypeSplit DEF UidInv, StoreInv, TypeOK, TablesOK, Call, Folder, Message, MoveWrite, AfterWrite
<1>1. /\ DOMAIN folders' = DOMAIN folders /\ nextFid' = nextFid
      /\ \A f \in DOMAIN folders :
           /\ folders'[f].parent = folders[f].parent
           /\ folders'[f].nextUid = IF f = f0 THEN folders[f].nextUid + 1 ELSE folders[f].nextUid
  BY <1>0, Increment DEF MoveWrite
<1>2. UidBelowNext'
  <2>1. CASE m0 \notin DOMAIN msgs
    BY <1>0, <1>1, <2>1 DEF UidInv, UidBelowNext, MoveWrite
  <2>2. CASE m0 \in DOMAIN msgs
    <3>1. f0 \in DOMAIN folders /\ msgs' = [msgs EXCEPT ![m0].folder = f0, ![m0].uid = uid]
      BY <2>2 DEF MoveWrite, FolderExists
    <3>2. uid <= folders[f0].nextUid
      BY <3>1 DEF UidInv, UidSeen, MoveWrite
    <3>3. /\ msgs'[m0].folder = f0 /\ msgs'[m0].uid = uid /\ DOMAIN msgs' = DOMAIN msgs
          /\ \A m \in DOMAIN msgs \ {m0} : msgs'[m] = msgs[m]
      BY <1>0, <2>2, <3>1 DEF Message
    <3> HIDE DEF m0, f0, uid
    <3> QED BY <1>0, <1>1, <3>1, <3>2, <3>3 DEF UidInv, UidBelowNext
  <2> QED BY <2>1, <2>2
<1>3. FoldersKept /\ UidsKept
  BY <1>0, <1>1 DEF FoldersKept, UidsKept, TablesOK
<1>4. StoreInv'
  BY MoveKeepsInv DEF UidInv
<1> QED BY <1>0, <1>2, <1>3, <1>4, SeenKept DEF UidInv, StoreInv

LEMMA CreateKeepsUids ==
  ASSUME UidInv, NEW c \in Clients, CreateFolderWrite(c)
  PROVE  UidInv'
<1>0. /\ TablesOK /\ AfterWrite(c)
      /\ \A f \in DOMAIN folders : folders[f].nextUid \in Nat
  BY TypeSplit DEF UidInv, StoreInv, TablesOK, Folder, CreateFolderWrite, AfterWrite
<1>1. nextFid \notin DOMAIN folders
  BY <1>0 DEF TablesOK, AllocatedFolders
<1>2. UidBelowNext'
  BY <1>1 DEF UidInv, StoreInv, Integrity, UidBelowNext, CreateFolderWrite
<1>3. FoldersKept /\ UidsKept
  BY <1>0, <1>1 DEF FoldersKept, UidsKept, CreateFolderWrite, TablesOK
<1>4. StoreInv'
  BY CreateKeepsInv DEF UidInv
<1> QED BY <1>0, <1>2, <1>3, <1>4, SeenKept DEF UidInv, StoreInv

LEMMA DeleteKeepsUids ==
  ASSUME UidInv, NEW c \in Clients, DeleteFolderWrite(c)
  PROVE  UidInv'
<1> DEFINE gone == Subtree(loc[c].fid)
<1>0. /\ TablesOK /\ AfterWrite(c)
      /\ \A f \in DOMAIN folders : folders[f].nextUid \in Nat
  BY TypeSplit DEF UidInv, StoreInv, TablesOK, Folder, DeleteFolderWrite, AfterWrite
<1>1. /\ folders' = [f \in DOMAIN folders \ gone |-> folders[f]]
      /\ msgs' = [m \in DOMAIN msgs \ {n \in DOMAIN msgs : msgs[n].folder \in gone} |-> msgs[m]]
      /\ nextFid' = nextFid
  BY DEF DeleteFolderWrite, WithoutMessages
<1> HIDE DEF gone
<1>2. UidBelowNext'
  BY <1>1 DEF UidInv, UidBelowNext
<1>3. FoldersKept /\ UidsKept
  BY <1>0, <1>1 DEF FoldersKept, UidsKept, TablesOK
<1>4. StoreInv'
  BY DeleteKeepsInv DEF UidInv
<1> QED BY <1>0, <1>2, <1>3, <1>4, SeenKept DEF UidInv, StoreInv

LEMMA StepKeepsUids ==
  ASSUME "renameFolder" \notin Ops, UidInv, NEW c \in Clients, Step(c)
  PROVE  UidInv'
<1>0. TypeOK /\ StoreInv /\ CallOK(loc[c]) /\ StoreInv'
  BY StepKeepsInv DEF UidInv, StoreInv
<1>1. CASE Reads(c)
  BY <1>1, ReadKeepsUids
<1>2. CASE AfterWrite(c) /\ KeepsUids
  BY <1>2, MessageWriteKeepsUids
<1>3. CASE AfterWrite(c) /\ \E f \in Nat, flags \in SUBSET Flags : AssignUID(f, flags)
  <2> PICK f \in Nat, flags \in SUBSET Flags : AssignUID(f, flags)
    BY <1>3
  <2> PICK row \in Message : InsertMessage(row) /\ row.folder = f /\ row.uid = folders[f].nextUid
    BY <1>0, AssignInserts
  <2>1. row.uid <= folders[row.folder].nextUid
    BY <1>0 DEF Message
  <2> QED BY <1>0, <1>3, <2>1, InsertKeepsUids
<1>4. CASE Return(c) /\ KeepsTree
  BY <1>4, FolderWriteKeepsUids
<1>5. CASE CopyWrite(c)
  <2> PICK row \in Message : InsertMessage(row) /\ row.folder = loc[c].fid /\ row.uid = loc[c].folder.nextUid
    BY <1>0, <1>5, CopyInserts
  <2>1. row.uid <= folders[row.folder].nextUid
    BY <1>5 DEF UidInv, UidSeen, CopyWrite, InsertMessage, FolderExists
  <2>2. AfterWrite(c)
    BY <1>5 DEF CopyWrite, AfterWrite
  <2> QED BY <1>0, <2>1, <2>2, InsertKeepsUids
<1>6. CASE MoveWrite(c)
  BY <1>6, MoveKeepsUids
<1>7. CASE CreateFolderWrite(c)
  BY <1>7, CreateKeepsUids
<1>8. CASE RenameWrite(c)
  BY <1>0, <1>8 DEF CallOK, RenameWrite
<1>9. CASE DeleteFolderWrite(c)
  BY <1>9, DeleteKeepsUids
<1> QED BY <1>0, <1>1, <1>2, <1>3, <1>4, <1>5, <1>6, <1>7, <1>8, <1>9, StepKinds

LEMMA InitUids == Init => UidInv
<1> SUFFICES ASSUME Init PROVE UidInv
  OBVIOUS
<1>1. StoreInv
  BY InitInv
<1>2. UidBelowNext
  BY DEF Init, UidBelowNext
<1>3. \A c \in Clients : UidSeen(loc[c])
  BY <1>1, IdleIsOK DEF Init, StoreInv
<1> QED BY <1>1, <1>2, <1>3 DEF UidInv

LEMMA NextKeepsUids ==
  ASSUME "renameFolder" \notin Ops
  PROVE  UidInv /\ [Next]_vars => UidInv'
<1> SUFFICES ASSUME UidInv, [Next]_vars PROVE UidInv'
  OBVIOUS
<1>1. CASE Next
  BY <1>1, StepKeepsUids DEF Next
<1>2. CASE UNCHANGED vars
  <2>1. StoreInv'
    BY <1>2, NextKeepsInv DEF UidInv
  <2> QED BY <1>2, <2>1 DEF vars, UidInv, UidBelowNext, UidSeen
<1> QED BY <1>1, <1>2

(* As long as no session renames a folder, next_uid stays above every UID in *)
(* the folder, although copy and moveToFolder allocate from a stale snapshot *)
(* of it: a snapshot is never above the row, and the row only goes up.       *)
THEOREM NextUidAboveUsed ==
  ASSUME "renameFolder" \notin Ops
  PROVE  Spec => []UidBelowNext
<1>1. UidInv => UidBelowNext
  BY DEF UidInv
<1> QED BY <1>1, InitUids, NextKeepsUids, PTL DEF Spec

(* Then no delivery to a folder that exists is refused by the unique index   *)
(* on (folder_id, uid): assignUID's UID is free.                             *)
THEOREM DeliveriesAccepted ==
  ASSUME "renameFolder" \notin Ops
  PROVE  Spec => []DeliveryNeverRefused
<1>1. UidInv => DeliveryNeverRefused
  <2> SUFFICES ASSUME UidInv, NEW f \in DOMAIN folders, NEW n \in DOMAIN msgs \ {0}
               PROVE  ~(msgs[n].folder = f /\ msgs[n].uid = folders[f].nextUid)
    BY DEF DeliveryNeverRefused, UidFree
  <2>1. folders[f].nextUid \in Nat /\ msgs[n].uid \in Nat
    BY DEF UidInv, StoreInv, TypeOK, Folder, Message
  <2> QED BY <2>1 DEF UidInv, UidBelowNext
<1> QED BY <1>1, InitUids, NextKeepsUids, PTL DEF Spec

-----------------------------------------------------------------------------
(* UIDs ever handed out, for sessions that only deliver, flag and remove.    *)

Spent ==
  \A g \in given : /\ g[1] < nextFid
                   /\ g[1] \in DOMAIN folders => g[2] < folders[g[1]].nextUid

ReuseInv == UidInv /\ Spent /\ UidNeverReused

(* Without a new entry in given, Spent survives any write to the folders.    *)
LEMMA SpentKept ==
  ASSUME ReuseInv, TypeOK', given' = given, FoldersKept, UidsKept
  PROVE  Spent' /\ UidNeverReused'
<1>1. UidNeverReused'
  BY DEF ReuseInv, UidNeverReused
<1>2. /\ nextFid \in Nat /\ nextFid' \in Nat /\ given \subseteq Nat \X Nat \X Nat
      /\ \A f \in DOMAIN folders : folders[f].nextUid \in Nat
      /\ \A f \in DOMAIN folders' : folders'[f].nextUid \in Nat
  BY DEF ReuseInv, UidInv, StoreInv, TypeOK, Folder
<1>3. Spent'
  <2> SUFFICES ASSUME NEW g \in given
               PROVE  /\ g[1] < nextFid'
                      /\ g[1] \in DOMAIN folders' => g[2] < folders'[g[1]].nextUid
    BY DEF Spent
  <2>1. g[1] \in Nat /\ g[2] \in Nat /\ g[1] < nextFid
    BY <1>2 DEF ReuseInv, Spent
  <2> QED BY <1>2, <2>1 DEF ReuseInv, Spent, FoldersKept, UidsKept
<1> QED BY <1>1, <1>3

(* assignUID hands out next_uid, which is above every UID of the folder ever *)
(* handed out, and moves it on.                                              *)
LEMMA AssignKeepsReuse ==
  ASSUME ReuseInv, TypeOK', NEW row \in Message, InsertMessage(row),
         row.uid = folders[row.folder].nextUid
  PROVE  Spent' /\ UidNeverReused'
<1>0. /\ TablesOK /\ row.folder \in DOMAIN folders /\ row.folder \in Nat /\ row.folder < nextFid
      /\ row.uid \in Nat /\ nextMid \in Nat /\ nextFid \in Nat
      /\ given \subseteq Nat \X Nat \X Nat
      /\ \A f \in DOMAIN folders : folders[f].nextUid \in Nat
  BY TypeSplit DEF ReuseInv, UidInv, StoreInv, TablesOK, InsertMessage, FolderExists,
                   Folder, Message, AllocatedFolders
<1>1. /\ DOMAIN folders' = DOMAIN folders /\ nextFid' = nextFid
      /\ \A f \in DOMAIN folders :
           folders'[f].nextUid = IF f = row.folder THEN folders[f].nextUid + 1 ELSE folders[f].nextUid
  BY <1>0, Increment DEF InsertMessage
<1> DEFINE new == <<row.folder, row.uid, nextMid>>
<1>2. given' = given \cup {new} /\ new[1] = row.folder /\ new[2] = row.uid
  BY DEF InsertMessage
<1> HIDE DEF new
<1>3. \A g \in given : g[1] \in Nat /\ g[2] \in Nat
  BY <1>0
<1>4. \A g \in given : ~(g[1] = new[1] /\ g[2] = new[2])
  BY <1>0, <1>2, <1>3 DEF ReuseInv, Spent
<1>5. UidNeverReused'
  BY <1>2, <1>4 DEF ReuseInv, UidNeverReused
<1>6. Spent'
  <2> SUFFICES ASSUME NEW g \in given \cup {new}
               PROVE  /\ g[1] < nextFid
                      /\ g[1] \in DOMAIN folders => g[2] < folders'[g[1]].nextUid
    BY <1>1, <1>2 DEF Spent
  <2>1. CASE g = new
    BY <1>0, <1>1, <1>2, <2>1
  <2>2. CASE g \in given
    <3>1. g[1] < nextFid /\ (g[1] \in DOMAIN folders => g[2] < folders[g[1]].nextUid)
      BY <2>2 DEF ReuseInv, Spent
    <3> QED BY <1>0, <1>1, <1>3, <2>2, <3>1
  <2> QED BY <2>1, <2>2
<1> QED BY <1>5, <1>6

LEMMA StepKeepsReuse ==
  ASSUME {"renameFolder", "copy", "move"} \cap Ops = {}, ReuseInv, NEW c \in Clients, Step(c)
  PROVE  ReuseInv'
<1>0. UidInv /\ TypeOK /\ CallOK(loc[c])
  BY DEF ReuseInv, UidInv, StoreInv
<1>1. UidInv' /\ TypeOK'
  <2>1. UidInv'
    BY <1>0, StepKeepsUids
  <2> QED BY <2>1 DEF UidInv, StoreInv
<1>2. /\ nextFid \in Nat /\ DOMAIN folders \subseteq AllocatedFolders
      /\ \A f \in DOMAIN folders : folders[f].nextUid \in Nat
  BY <1>0 DEF TypeOK, Folder
<1>3. CASE Reads(c)
  BY <1>1, <1>2, <1>3, SpentKept DEF Reads, TablesUnchanged, FoldersKept, UidsKept, ReuseInv
<1>4. CASE AfterWrite(c) /\ KeepsUids
  BY <1>1, <1>2, <1>4, SpentKept DEF KeepsUids, FoldersKept, UidsKept, ReuseInv
<1>5. CASE AfterWrite(c) /\ \E f \in Nat, flags \in SUBSET Flags : AssignUID(f, flags)
  BY <1>0, <1>1, <1>5, AssignInserts, AssignKeepsReuse DEF ReuseInv
<1>6. CASE Return(c) /\ KeepsTree
  BY <1>1, <1>2, <1>6, SpentKept DEF KeepsTree, FoldersKept, UidsKept, ReuseInv
<1>7. CASE CopyWrite(c) \/ MoveWrite(c) \/ RenameWrite(c)
  BY <1>0, <1>7 DEF CallOK, CopyWrite, MoveWrite, RenameWrite
<1>8. CASE CreateFolderWrite(c)
  <2>1. nextFid \notin DOMAIN folders
    BY <1>2 DEF AllocatedFolders
  <2> QED BY <1>1, <1>2, <1>8, <2>1, SpentKept DEF CreateFolderWrite, FoldersKept, UidsKept, ReuseInv
<1>9. CASE DeleteFolderWrite(c)
  BY <1>1, <1>2, <1>9, SpentKept DEF DeleteFolderWrite, FoldersKept, UidsKept, ReuseInv
<1> QED BY <1>0, <1>3, <1>4, <1>5, <1>6, <1>7, <1>8, <1>9, StepKinds

(* With concurrent sessions that deliver, append, flag, expunge and delete   *)
(* messages and create and delete folders, a UID of a folder never names two *)
(* messages, not even one after the other was removed: a client's cached UID *)
(* stays valid. This is what reading next_uid inside the transaction buys.   *)
THEOREM UidsNeverReused ==
  ASSUME {"renameFolder", "copy", "move"} \cap Ops = {}
  PROVE  Spec => []UidNeverReused
<1>1. Init => ReuseInv
  BY InitUids DEF Init, ReuseInv, Spent, UidNeverReused
<1>2. ReuseInv /\ [Next]_vars => ReuseInv'
  <2> SUFFICES ASSUME ReuseInv, [Next]_vars PROVE ReuseInv'
    OBVIOUS
  <2>1. CASE Next
    BY <2>1, StepKeepsReuse DEF Next
  <2>2. CASE UNCHANGED vars
    <3>1. UidInv'
      BY <2>2, NextKeepsUids DEF ReuseInv
    <3> QED BY <2>2, <3>1 DEF vars, ReuseInv, Spent, UidNeverReused
  <2> QED BY <2>1, <2>2
<1>3. ReuseInv => UidNeverReused
  BY DEF ReuseInv
<1> QED BY <1>1, <1>2, <1>3, PTL DEF Spec
=============================================================================
