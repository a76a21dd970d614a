------------------------- MODULE MailDeliveryProofs -------------------------
(***************************************************************************)
(* Proofs about MailDelivery, for any sessions, users, envelopes and       *)
(* bounds on faults, crashes and submissions.                              *)
(*                                                                         *)
(* The inductive invariant says of every row which recipient of which      *)
(* submission it is for (RowsOK), and of every session where its call is   *)
(* (PlaceOK), what of its mail is stored (StoredOK) and, as long as        *)
(* nothing has failed, which recipients have been served (ServedOK). A     *)
(* step of one session keeps what is said of the others, since accounts,   *)
(* files and rows only grow and a row names its session.                   *)
(***************************************************************************)
EXTENDS MailDelivery, FiniteSetTheorems, FunctionTheorems, TLAPS

FileOf(s, i) == [mail |-> s, send |-> mail[s].sends, i |-> i]
RowOf(s, i) == [user |-> mail[s].env[i], file |-> FileOf(s, i)]

RowsOK ==
  \A row \in rows :
    /\ row.file \in files
    /\ row.file.mail \in Sessions
    /\ row.file.i \in 1..Len(mail[row.file.mail].env)
    /\ row.user = mail[row.file.mail].env[row.file.i]

PlaceOK(s) ==
  /\ job[s].pc = "idle" <=> mail[s].outcome # "sending"
  /\ job[s].pc = "idle" => ~job[s].any
  /\ job[s].pc # "idle" => job[s].i \in 1..Len(mail[s].env)
  /\ writer = s <=> job[s].pc = "folders"
  /\ job[s].pc = "folders" => account[Recipient(s)] \in 1..FolderCount
  /\ job[s].pc \in {"deliver", "address"} => FileName(s) \in files
  /\ job[s].pc = "address" => Row(s) \in rows

StoredOK(s) ==
  /\ job[s].any => CopiesOf(s) # {}
  /\ mail[s].outcome = "250" => CopiesOf(s) # {}
  /\ ~mail[s].lost => \A row \in CopiesOf(s) : row.file.send = mail[s].sends
  /\ (~mail[s].lost /\ mail[s].outcome # "250" /\ ~job[s].any /\ job[s].pc # "address")
        => CopiesOf(s) = {}

(* The recipients of the present submission that the loop has passed.       *)
Passed(s, i) ==
  \/ mail[s].outcome = "250"
  \/ job[s].pc # "idle" /\ (i < job[s].i \/ (i = job[s].i /\ job[s].pc = "address"))

ServedOK(s) ==
  /\ \A u \in ready[s] : account[u] = Complete
  /\ faults = 0 =>
       /\ job[s].pc \in {"check", "insert", "folders", "refind"} => Recipient(s) \notin ready[s]
       /\ \A i \in 1..Len(mail[s].env) :
            mail[s].env[i] \in ready[s] /\ Passed(s, i) => RowOf(s, i) \in rows

SessionOK(s) == PlaceOK(s) /\ StoredOK(s) /\ ServedOK(s)
DeliveryInv == TypeOK /\ RowsOK /\ \A s \in Sessions : SessionOK(s)

JobRecords == [pc : Pcs, i : Nat, any : BOOLEAN]
MailRecords == [env : Seq(Users), sends : 0..MaxSends, outcome : Outcomes, lost : BOOLEAN]

-----------------------------------------------------------------------------
(* What the operators of SaveMessage's loop do.                             *)

LEMMA TypesOfParts ==
  ASSUME TypeOK, NEW s \in Sessions
  PROVE  /\ job \in [Sessions -> JobRecords] /\ job[s] \in JobRecords
         /\ mail \in [Sessions -> MailRecords] /\ mail[s] \in MailRecords
         /\ Len(mail[s].env) \in Nat /\ mail[s].sends \in Nat
         /\ \A i \in 1..Len(mail[s].env) : mail[s].env[i] \in Users
<1>1. /\ job \in [Sessions -> JobRecords] /\ job[s] \in JobRecords
      /\ mail \in [Sessions -> MailRecords] /\ mail[s] \in MailRecords
  BY DEF TypeOK, JobRecords, MailRecords
<1>2. mail[s].env \in Seq(Users) /\ mail[s].sends \in 0..MaxSends
  BY <1>1 DEF MailRecords
<1>3. QED
  BY <1>1, <1>2, DeliveryAssumption

LEMMA GotoFacts ==
  ASSUME TypeOK, NEW s \in Sessions, NEW pc \in Pcs, Goto(s, pc)
  PROVE  /\ job' \in [Sessions -> JobRecords]
         /\ job'[s].pc = pc /\ job'[s].i = job[s].i /\ job'[s].any = job[s].any
         /\ \A r \in Sessions \ {s} : job'[r] = job[r]
<1>1. job \in [Sessions -> JobRecords] /\ job[s] \in JobRecords
  BY TypesOfParts
<1>2. [job[s] EXCEPT !.pc = pc] \in JobRecords
  BY <1>1 DEF JobRecords
<1>3. job' = [job EXCEPT ![s] = [job[s] EXCEPT !.pc = pc]]
  BY DEF Goto
<1>4. QED
  BY <1>1, <1>2, <1>3 DEF JobRecords

LEMMA ReplyFacts ==
  ASSUME TypeOK, NEW s \in Sessions, NEW saved \in BOOLEAN, Reply(s, saved)
  PROVE  /\ job' \in [Sessions -> JobRecords] /\ mail' \in [Sessions -> MailRecords]
         /\ job'[s].pc = "idle" /\ job'[s].any = FALSE
         /\ mail'[s].env = mail[s].env /\ mail'[s].sends = mail[s].sends /\ mail'[s].lost = mail[s].lost
         /\ mail'[s].outcome = IF saved THEN "250" ELSE "452"
         /\ \A r \in Sessions \ {s} : job'[r] = job[r] /\ mail'[r] = mail[r]
<1>1. /\ job \in [Sessions -> JobRecords] /\ mail \in [Sessions -> MailRecords]
      /\ mail[s] \in MailRecords
  BY TypesOfParts
<1>2. NoJob \in JobRecords /\ NoJob.pc = "idle" /\ NoJob.any = FALSE
  BY DEF NoJob, JobRecords, Pcs
<1> DEFINE out == IF saved THEN "250" ELSE "452"
<1>3. out \in Outcomes
  BY DEF Outcomes
<1>4. job' = [job EXCEPT ![s] = NoJob] /\ mail' = [mail EXCEPT ![s].outcome = out]
  BY DEF Reply
<1> HIDE DEF out
<1> DEFINE m == [mail[s] EXCEPT !.outcome = out]
<1>5. /\ m \in MailRecords
      /\ m.env = mail[s].env /\ m.sends = mail[s].sends /\ m.lost = mail[s].lost /\ m.outcome = out
  BY <1>1, <1>3 DEF MailRecords
<1>6. mail' = [mail EXCEPT ![s] = m]
  BY <1>4
<1> HIDE DEF m
<1>7. /\ mail' \in [Sessions -> MailRecords]
      /\ mail'[s].env = mail[s].env /\ mail'[s].sends = mail[s].sends /\ mail'[s].lost = mail[s].lost
      /\ mail'[s].outcome = out /\ \A r \in Sessions \ {s} : mail'[r] = mail[r]
  BY <1>1, <1>5, <1>6
<1>8. /\ job' \in [Sessions -> JobRecords] /\ job'[s] = NoJob
      /\ \A r \in Sessions \ {s} : job'[r] = job[r]
  BY <1>1, <1>2, <1>4
<1>9. QED
  BY <1>2, <1>7, <1>8 DEF out

LEMMA MoreFacts ==
  ASSUME TypeOK, NEW s \in Sessions, NEW saved \in BOOLEAN,
         job' = [job EXCEPT ![s] = [NoJob EXCEPT !.pc = "find", !.i = job[s].i + 1, !.any = saved]]
  PROVE  /\ job' \in [Sessions -> JobRecords]
         /\ job'[s].pc = "find" /\ job'[s].i = job[s].i + 1 /\ job'[s].any = saved
         /\ \A r \in Sessions \ {s} : job'[r] = job[r]
<1>1. job \in [Sessions -> JobRecords] /\ job[s].i \in Nat
  BY TypesOfParts DEF JobRecords
<1> DEFINE next == [NoJob EXCEPT !.pc = "find", !.i = job[s].i + 1, !.any = saved]
<1>2. NoJob \in JobRecords
  BY DEF NoJob, JobRecords, Pcs
<1>3. next \in JobRecords /\ next.pc = "find" /\ next.i = job[s].i + 1 /\ next.any = saved
  <2>1. "find" \in Pcs /\ job[s].i + 1 \in Nat
    BY <1>1 DEF Pcs
  <2>2. next \in JobRecords
    BY <1>2, <2>1 DEF JobRecords
  <2>3. next.pc = "find" /\ next.i = job[s].i + 1
    BY <1>2 DEF JobRecords
  <2>4. next.any = saved
    BY <1>2 DEF JobRecords
  <2>5. QED
    BY <2>2, <2>3, <2>4
<1> HIDE DEF next
<1>4. job' = [job EXCEPT ![s] = next]
  BY DEF next
<1>5. QED
  BY <1>1, <1>3, <1>4

-----------------------------------------------------------------------------
(* A step of session s leaves the others where they are.                    *)
LocalTo(s) ==
  /\ \A r \in Sessions \ {s} : /\ job'[r] = job[r] /\ mail'[r] = mail[r] /\ ready'[r] = ready[r]
                               /\ writer' = r <=> writer = r
                               /\ writer = r => account' = account
  /\ files \subseteq files' /\ rows \subseteq rows'
  /\ \A row \in rows' \ rows : row.file.mail = s
  /\ \A u \in Users : account[u] = Complete => account'[u] = Complete
  /\ faults' = 0 => faults = 0

LEMMA OthersKept ==
  ASSUME DeliveryInv, NEW s \in Sessions, LocalTo(s), NEW r \in Sessions \ {s}
  PROVE  SessionOK(r)'
<1>1. /\ job'[r] = job[r] /\ mail'[r] = mail[r] /\ ready'[r] = ready[r]
      /\ writer' = r <=> writer = r
      /\ writer = r => account' = account
      /\ files \subseteq files' /\ rows \subseteq rows'
      /\ \A row \in rows' \ rows : row.file.mail # r
      /\ \A u \in Users : account[u] = Complete => account'[u] = Complete
      /\ faults' = 0 => faults = 0
  BY DEF LocalTo
<1>2. PlaceOK(r) /\ StoredOK(r) /\ ServedOK(r) /\ ready[r] \subseteq Users
  BY DEF DeliveryInv, SessionOK, TypeOK
<1>3. CopiesOf(r)' = CopiesOf(r)
  BY <1>1 DEF CopiesOf
<1>4. PlaceOK(r)'
  BY <1>1, <1>2 DEF PlaceOK, Recipient, FileName, Row
<1>5. StoredOK(r)'
  BY <1>1, <1>2, <1>3 DEF StoredOK
<1>6. ServedOK(r)'
  BY <1>1, <1>2 DEF ServedOK, Recipient, Passed, RowOf, FileOf
<1>7. QED
  BY <1>4, <1>5, <1>6 DEF SessionOK

LEMMA StepKeeps ==
  ASSUME DeliveryInv, NEW s \in Sessions, LocalTo(s), TypeOK', RowsOK', SessionOK(s)'
  PROVE  DeliveryInv'
<1>1. \A r \in Sessions : SessionOK(r)'
  BY OthersKept
<1>2. QED
  BY <1>1 DEF DeliveryInv

(* The rows stay true of the envelopes, which no step changes.              *)
LEMMA RowsKept ==
  ASSUME RowsOK, \A s \in Sessions : mail'[s].env = mail[s].env, files \subseteq files', rows' = rows
  PROVE  RowsOK'
BY DEF RowsOK

-----------------------------------------------------------------------------
(* A step from one place to another, before the row is delivered.           *)
LEMMA GotoStep ==
  ASSUME DeliveryInv, NEW s \in Sessions, NEW pc \in Pcs \ {"idle", "address"},
         job[s].pc \notin {"idle", "address"}, Goto(s, pc),
         UNCHANGED <<mail, rows, ready>>,
         \A u \in Users : account[u] = Complete => account'[u] = Complete,
         faults' = 0 => faults = 0,
         (faults' = 0 /\ pc \in {"check", "insert", "folders", "refind"}) => Recipient(s) \notin ready[s],
         writer' = s <=> pc = "folders",
         pc = "folders" => account'[Recipient(s)] \in 1..FolderCount,
         pc = "deliver" => FileName(s) \in files'
  PROVE  SessionOK(s)'
<1>1. /\ job'[s].pc = pc /\ job'[s].i = job[s].i /\ job'[s].any = job[s].any
      /\ mail' = mail /\ rows' = rows /\ ready' = ready
  BY GotoFacts DEF DeliveryInv
<1>2. PlaceOK(s) /\ StoredOK(s) /\ ServedOK(s) /\ ready[s] \subseteq Users
  BY DEF DeliveryInv, SessionOK, TypeOK
<1>3. CopiesOf(s)' = CopiesOf(s)
  BY <1>1 DEF CopiesOf
<1>4. Recipient(s)' = Recipient(s) /\ FileName(s)' = FileName(s)
  BY <1>1 DEF Recipient, FileName
<1>5. PlaceOK(s)'
  BY <1>1, <1>2, <1>4 DEF PlaceOK
<1>6. StoredOK(s)'
  BY <1>1, <1>2, <1>3 DEF StoredOK
<1>7. \A i \in 1..Len(mail[s].env) : (Passed(s, i)' => Passed(s, i)) /\ RowOf(s, i)' = RowOf(s, i)
  BY <1>1 DEF Passed, RowOf, FileOf
<1>8. ServedOK(s)'
  BY <1>1, <1>2, <1>4, <1>7 DEF ServedOK
<1>9. QED
  BY <1>5, <1>6, <1>8 DEF SessionOK

(* The loop goes on, or the call answers.                                   *)
LEMMA NextStep ==
  ASSUME DeliveryInv, NEW s \in Sessions, job[s].pc # "idle", NEW saved \in BOOLEAN,
         NextRecipient(s, saved), saved = (job[s].any \/ job[s].pc = "address"),
         UNCHANGED <<rows, ready, account>>, writer' # s,
         faults' = 0 => faults = 0,
         (faults' = 0 /\ job[s].pc # "address") => Recipient(s) \notin ready[s]
  PROVE  /\ SessionOK(s)'
         /\ job' \in [Sessions -> JobRecords] /\ mail' \in [Sessions -> MailRecords]
         /\ \A r \in Sessions \ {s} : job'[r] = job[r] /\ mail'[r] = mail[r]
         /\ mail'[s].env = mail[s].env
<1>1. PlaceOK(s) /\ StoredOK(s) /\ ServedOK(s) /\ TypeOK
  BY DEF DeliveryInv, SessionOK
<1>2. /\ job[s].i \in 1..Len(mail[s].env) /\ Len(mail[s].env) \in Nat /\ mail \in [Sessions -> MailRecords]
      /\ mail[s].outcome = "sending"
  BY <1>1, TypesOfParts DEF PlaceOK
<1>3. CopiesOf(s)' = CopiesOf(s)
  BY DEF CopiesOf
<1>4. saved => CopiesOf(s) # {}
  <2>1. job[s].pc = "address" => Row(s) \in CopiesOf(s)
    BY <1>1 DEF PlaceOK, CopiesOf, Row, FileName
  <2>2. QED
    BY <1>1, <2>1 DEF StoredOK
<1>5. ~saved /\ ~mail[s].lost => CopiesOf(s) = {}
  BY <1>1, <1>2 DEF StoredOK
<1>6. ASSUME faults' = 0, NEW i \in 1..Len(mail[s].env), mail[s].env[i] \in ready[s], i <= job[s].i
      PROVE  RowOf(s, i) \in rows
  <2>1. CASE i < job[s].i
    BY <1>1, <1>6, <2>1 DEF ServedOK, Passed
  <2>2. CASE i = job[s].i
    <3>1. job[s].pc = "address"
      BY <1>6, <2>2 DEF Recipient
    <3>2. QED
      BY <1>1, <1>6, <2>2, <3>1 DEF ServedOK, Passed
  <2>3. QED
    BY <1>2, <1>6, <2>1, <2>2
<1>7. CASE job[s].i < Len(mail[s].env)
  <2>1. /\ job' \in [Sessions -> JobRecords]
        /\ job'[s].pc = "find" /\ job'[s].i = job[s].i + 1 /\ job'[s].any = saved
        /\ \A r \in Sessions \ {s} : job'[r] = job[r]
        /\ mail' = mail
    BY <1>1, <1>7, MoreFacts DEF NextRecipient
  <2>2. PlaceOK(s)'
    BY <1>1, <1>2, <1>7, <2>1 DEF PlaceOK
  <2>3. StoredOK(s)'
    BY <1>1, <1>3, <1>4, <1>5, <2>1 DEF StoredOK
  <2>4. ServedOK(s)'
    <3>1. \A i \in 1..Len(mail[s].env) : Passed(s, i)' => i <= job[s].i
      BY <1>2, <2>1 DEF Passed
    <3>2. \A i \in 1..Len(mail[s].env) : RowOf(s, i)' = RowOf(s, i)
      BY <2>1 DEF RowOf, FileOf
    <3>3. QED
      BY <1>1, <1>6, <2>1, <3>1, <3>2 DEF ServedOK
  <2>5. QED
    BY <1>2, <2>1, <2>2, <2>3, <2>4 DEF SessionOK
<1>8. CASE ~(job[s].i < Len(mail[s].env))
  <2>1. /\ job' \in [Sessions -> JobRecords] /\ mail' \in [Sessions -> MailRecords]
        /\ job'[s].pc = "idle" /\ job'[s].any = FALSE
        /\ mail'[s].env = mail[s].env /\ mail'[s].sends = mail[s].sends /\ mail'[s].lost = mail[s].lost
        /\ mail'[s].outcome = IF saved THEN "250" ELSE "452"
        /\ \A r \in Sessions \ {s} : job'[r] = job[r] /\ mail'[r] = mail[r]
    BY <1>1, <1>8, ReplyFacts DEF NextRecipient
  <2>2. PlaceOK(s)'
    BY <2>1 DEF PlaceOK
  <2>3. StoredOK(s)'
    BY <1>1, <1>3, <1>4, <1>5, <2>1 DEF StoredOK
  <2>4. ServedOK(s)'
    <3>1. \A i \in 1..Len(mail[s].env) : i <= job[s].i
      BY <1>2, <1>8
    <3>2. \A i \in 1..Len(mail[s].env) : RowOf(s, i)' = RowOf(s, i)
      BY <2>1 DEF RowOf, FileOf
    <3>3. QED
      BY <1>1, <1>6, <2>1, <3>1, <3>2 DEF ServedOK
  <2>5. QED
    BY <2>1, <2>2, <2>3, <2>4 DEF SessionOK
<1>9. QED
  BY <1>7, <1>8

-----------------------------------------------------------------------------
(* The two kinds of step, with what they may do to the store.               *)

LEMMA GotoAction ==
  ASSUME DeliveryInv, NEW s \in Sessions, NEW pc \in Pcs \ {"idle", "address"},
         job[s].pc \notin {"idle", "address"}, Goto(s, pc),
         UNCHANGED <<mail, rows, addressed, ready, crashes>>,
         account' \in [Users -> 0..Complete], writer' \in Sessions \cup {NoOne},
         files \subseteq files', files' \subseteq FileNames, faults' \in 0..MaxFaults,
         \A u \in Users : account[u] = Complete => account'[u] = Complete,
         faults' = 0 => faults = 0,
         (faults' = 0 /\ pc \in {"check", "insert", "folders", "refind"}) => Recipient(s) \notin ready[s],
         writer' = s <=> pc = "folders",
         \A r \in Sessions \ {s} : writer' = r <=> writer = r,
         \A r \in Sessions \ {s} : writer = r => account' = account,
         pc = "folders" => account'[Recipient(s)] \in 1..FolderCount,
         pc = "deliver" => FileName(s) \in files'
  PROVE  DeliveryInv'
<1>1. TypeOK /\ RowsOK
  BY DEF DeliveryInv
<1>2. job' \in [Sessions -> JobRecords] /\ \A r \in Sessions \ {s} : job'[r] = job[r]
  BY <1>1, GotoFacts
<1>3. TypeOK'
  BY <1>1, <1>2 DEF TypeOK, JobRecords
<1>4. RowsOK'
  BY <1>1, RowsKept
<1>5. SessionOK(s)'
  BY GotoStep
<1>6. LocalTo(s)
  BY <1>2 DEF LocalTo
<1>7. QED
  BY <1>3, <1>4, <1>5, <1>6, StepKeeps

LEMMA NextAction ==
  ASSUME DeliveryInv, NEW s \in Sessions, job[s].pc # "idle", NEW saved \in BOOLEAN,
         NextRecipient(s, saved), saved = (job[s].any \/ job[s].pc = "address"),
         UNCHANGED <<rows, ready, account, crashes>>, addressed' \subseteq rows,
         files \subseteq files', files' \subseteq FileNames, faults' \in 0..MaxFaults,
         writer' \in Sessions \cup {NoOne}, writer' # s,
         \A r \in Sessions \ {s} : writer' = r <=> writer = r,
         faults' = 0 => faults = 0,
         (faults' = 0 /\ job[s].pc # "address") => Recipient(s) \notin ready[s]
  PROVE  DeliveryInv'
<1>1. TypeOK /\ RowsOK
  BY DEF DeliveryInv
<1>2. /\ SessionOK(s)'
      /\ job' \in [Sessions -> JobRecords] /\ mail' \in [Sessions -> MailRecords]
      /\ \A r \in Sessions \ {s} : job'[r] = job[r] /\ mail'[r] = mail[r]
      /\ mail'[s].env = mail[s].env
  BY NextStep
<1>3. TypeOK'
  BY <1>1, <1>2 DEF TypeOK, JobRecords, MailRecords
<1>4. RowsOK'
  BY <1>1, <1>2, RowsKept
<1>5. LocalTo(s)
  BY <1>2 DEF LocalTo
<1>6. QED
  BY <1>2, <1>3, <1>4, <1>5, StepKeeps

LEMMA FaultFacts ==
  ASSUME TypeOK, Fault
  PROVE  faults' \in 0..MaxFaults /\ faults' # 0
BY DeliveryAssumption DEF TypeOK, Fault

(* What is known of a session that is in its call.                          *)
LEMMA CallFacts ==
  ASSUME DeliveryInv, NEW s \in Sessions, job[s].pc # "idle"
  PROVE  /\ TypeOK /\ PlaceOK(s) /\ ServedOK(s)
         /\ Recipient(s) \in Users /\ FileName(s) \in FileNames
         /\ account[Recipient(s)] \in Nat /\ Complete \in Nat /\ Complete > 1
         /\ job[s].any \in BOOLEAN
         /\ HasRow(Recipient(s)) <=> account[Recipient(s)] # 0
         /\ NoOne \notin Sessions
<1>1. TypeOK /\ PlaceOK(s) /\ ServedOK(s)
  BY DEF DeliveryInv, SessionOK
<1>2. job[s].i \in 1..Len(mail[s].env) /\ job[s] \in JobRecords
  BY <1>1, TypesOfParts DEF PlaceOK
<1>3. Recipient(s) \in Users
  BY <1>1, <1>2, TypesOfParts DEF Recipient
<1>4. FileName(s) \in FileNames
  <2>1. mail[s].sends \in Nat /\ job[s].i \in Nat
    BY <1>1, <1>2, TypesOfParts DEF JobRecords
  <2>2. QED
    BY <2>1 DEF FileName, FileNames
<1>5. Complete \in Nat /\ Complete > 1
  BY DeliveryAssumption DEF Complete
<1>6. account[Recipient(s)] \in Nat
  BY <1>1, <1>3, <1>5 DEF TypeOK
<1>7. job[s].any \in BOOLEAN
  BY <1>2 DEF JobRecords
<1>8. HasRow(Recipient(s)) <=> account[Recipient(s)] # 0
  BY <1>6 DEF HasRow
<1>9. NoOne \notin Sessions
  BY DeliveryAssumption
<1>10. QED
  BY <1>1, <1>3, <1>4, <1>5, <1>6, <1>7, <1>8, <1>9

(* continue, at a place where the recipient is not one that was ready or    *)
(* after a failure.                                                         *)
LEMMA SkipAction ==
  ASSUME DeliveryInv, NEW s \in Sessions, job[s].pc \notin {"idle", "address"}, Skip(s),
         UNCHANGED <<rows, addressed, ready, account, crashes>>,
         files \subseteq files', files' \subseteq FileNames, faults' \in 0..MaxFaults,
         writer' = IF writer = s THEN NoOne ELSE writer,
         faults' = 0 => faults = 0,
         faults' = 0 => Recipient(s) \notin ready[s]
  PROVE  DeliveryInv'
<1>1. TypeOK /\ NoOne \notin Sessions /\ job[s].any \in BOOLEAN
  BY CallFacts
<1>2. writer' \in Sessions \cup {NoOne} /\ writer' # s /\ \A r \in Sessions \ {s} : writer' = r <=> writer = r
  BY <1>1 DEF TypeOK
<1>3. addressed' \subseteq rows
  BY <1>1 DEF TypeOK
<1> DEFINE saved == job[s].any
<1>4. saved \in BOOLEAN /\ NextRecipient(s, saved) /\ saved = (job[s].any \/ job[s].pc = "address")
  BY <1>1 DEF Skip
<1> HIDE DEF saved
<1>5. QED
  BY <1>2, <1>3, <1>4, NextAction

-----------------------------------------------------------------------------
(* One lemma for each step of the call.                                     *)

LEMMA FindUserKeeps ==
  ASSUME DeliveryInv, NEW s \in Sessions, FindUser(s)
  PROVE  DeliveryInv'
<1>1. job[s].pc = "find" /\ UNCHANGED <<account, writer, files, rows, addressed, mail, crashes, ready>>
  BY DEF FindUser, store, history
<1>2. /\ TypeOK /\ PlaceOK(s) /\ ServedOK(s) /\ Recipient(s) \in Users
      /\ HasRow(Recipient(s)) <=> account[Recipient(s)] # 0
      /\ Complete \in Nat /\ Complete > 1 /\ NoOne \notin Sessions
  BY <1>1, CallFacts
<1>3. /\ account' \in [Users -> 0..Complete] /\ writer' \in Sessions \cup {NoOne}
      /\ files' \subseteq FileNames /\ faults \in 0..MaxFaults /\ writer # s
  BY <1>1, <1>2 DEF TypeOK, PlaceOK
<1>4. ~HasRow(Recipient(s)) => Recipient(s) \notin ready[s]
  BY <1>2 DEF ServedOK
<1>5. CASE faults' = faults /\ Goto(s, IF HasRow(Recipient(s)) THEN "inbox" ELSE "check")
  <2> DEFINE pc == IF HasRow(Recipient(s)) THEN "inbox" ELSE "check"
  <2>1. /\ pc \in Pcs \ {"idle", "address"} /\ Goto(s, pc) /\ pc \notin {"folders", "deliver"}
        /\ pc \in {"check", "insert", "folders", "refind"} => Recipient(s) \notin ready[s]
    BY <1>4, <1>5 DEF Pcs
  <2> HIDE DEF pc
  <2>2. QED
    BY <1>1, <1>3, <1>5, <2>1, GotoAction
<1>6. CASE Fault /\ Goto(s, "check")
  <2>1. faults' \in 0..MaxFaults /\ faults' # 0
    BY <1>2, <1>6, FaultFacts
  <2>2. "check" \in Pcs \ {"idle", "address"}
    BY DEF Pcs
  <2>3. QED
    BY <1>1, <1>3, <1>6, <2>1, <2>2, GotoAction
<1>7. QED
  BY <1>5, <1>6 DEF FindUser

LEMMA RegisterCheckKeeps ==
  ASSUME DeliveryInv, NEW s \in Sessions, RegisterCheck(s)
  PROVE  DeliveryInv'
<1>1. job[s].pc = "check" /\ UNCHANGED <<account, writer, files, rows, addressed, crashes, ready>>
  BY DEF RegisterCheck, store, history
<1>2. TypeOK /\ PlaceOK(s) /\ ServedOK(s)
  BY <1>1, CallFacts
<1>3. /\ account' \in [Users -> 0..Complete] /\ writer' \in Sessions \cup {NoOne}
      /\ files' \subseteq FileNames /\ faults \in 0..MaxFaults /\ writer # s
  BY <1>1, <1>2 DEF TypeOK, PlaceOK
<1>4. faults = 0 => Recipient(s) \notin ready[s]
  BY <1>1, <1>2 DEF ServedOK
<1>5. "insert" \in Pcs \ {"idle", "address"}
  BY DEF Pcs
<1>6. CASE Skip(s) /\ faults' = faults
  BY <1>1, <1>3, <1>4, <1>6, SkipAction
<1>7. CASE Goto(s, "insert") /\ UNCHANGED <<mail, faults>>
  BY <1>1, <1>3, <1>4, <1>5, <1>7, GotoAction
<1>8. CASE Fault /\ Goto(s, "insert") /\ UNCHANGED mail
  <2>1. faults' \in 0..MaxFaults /\ faults' # 0
    BY <1>2, <1>8, FaultFacts
  <2>2. QED
    BY <1>1, <1>3, <1>5, <1>8, <2>1, GotoAction
<1>9. QED
  BY <1>6, <1>7, <1>8 DEF RegisterCheck

LEMMA RegisterInsertKeeps ==
  ASSUME DeliveryInv, NEW s \in Sessions, RegisterInsert(s)
  PROVE  DeliveryInv'
<1>1. job[s].pc = "insert" /\ writer = NoOne /\ UNCHANGED <<files, rows, addressed, faults, crashes, ready>>
  BY DEF RegisterInsert, history
<1>2. /\ TypeOK /\ ServedOK(s) /\ Recipient(s) \in Users /\ NoOne \notin Sessions
      /\ HasRow(Recipient(s)) <=> account[Recipient(s)] # 0
      /\ Complete \in Nat /\ Complete > 1
  BY <1>1, CallFacts
<1>3. account \in [Users -> 0..Complete] /\ files' \subseteq FileNames /\ faults \in 0..MaxFaults
  BY <1>1, <1>2 DEF TypeOK
<1>4. faults = 0 => Recipient(s) \notin ready[s]
  BY <1>1, <1>2 DEF ServedOK
<1>5. CASE HasRow(Recipient(s))
  <2>1. Skip(s) /\ UNCHANGED <<account, writer>>
    BY <1>5 DEF RegisterInsert
  <2>2. QED
    BY <1>1, <1>2, <1>3, <1>4, <2>1, SkipAction
<1>6. CASE ~HasRow(Recipient(s))
  <2>1. /\ account' = [account EXCEPT ![Recipient(s)] = 1] /\ writer' = s
        /\ Goto(s, "folders") /\ UNCHANGED mail
    BY <1>6 DEF RegisterInsert
  <2>2. /\ account' \in [Users -> 0..Complete] /\ account'[Recipient(s)] = 1
        /\ \A u \in Users : account[u] = Complete => account'[u] = Complete
    BY <1>2, <1>3, <1>6, <2>1
  <2>3. "folders" \in Pcs \ {"idle", "address"} /\ 1 \in 1..FolderCount
    BY DeliveryAssumption DEF Pcs
  <2>4. \A r \in Sessions \ {s} : writer' # r /\ writer # r
    BY <1>1, <1>2, <2>1
  <2>5. QED
    BY <1>1, <1>3, <1>4, <2>1, <2>2, <2>3, <2>4, GotoAction
<1>7. QED
  BY <1>5, <1>6

LEMMA RegisterFolderKeeps ==
  ASSUME DeliveryInv, NEW s \in Sessions, RegisterFolder(s)
  PROVE  DeliveryInv'
<1>1. /\ job[s].pc = "folders" /\ UNCHANGED <<files, rows, addressed, mail, faults, crashes, ready>>
      /\ account' = [account EXCEPT ![Recipient(s)] = @ + 1]
  BY DEF RegisterFolder, history
<1>2. /\ TypeOK /\ PlaceOK(s) /\ ServedOK(s) /\ Recipient(s) \in Users /\ NoOne \notin Sessions
      /\ Complete \in Nat
  BY <1>1, CallFacts
<1>3. /\ account \in [Users -> 0..Complete] /\ files' \subseteq FileNames /\ faults \in 0..MaxFaults
      /\ writer = s /\ account[Recipient(s)] \in 1..FolderCount
  BY <1>1, <1>2 DEF TypeOK, PlaceOK
<1>4. faults = 0 => Recipient(s) \notin ready[s]
  BY <1>1, <1>2 DEF ServedOK
<1>5. /\ account' \in [Users -> 0..Complete] /\ account'[Recipient(s)] = account[Recipient(s)] + 1
      /\ \A u \in Users : account[u] = Complete => account'[u] = Complete
  BY <1>1, <1>2, <1>3, DeliveryAssumption DEF Complete
<1>6. CASE account'[Recipient(s)] = Complete
  <2>1. writer' = NoOne /\ Goto(s, "refind") /\ "refind" \in Pcs \ {"idle", "address"}
    BY <1>6 DEF RegisterFolder, Pcs
  <2>2. writer' # s /\ \A r \in Sessions \ {s} : writer' # r /\ writer # r
    BY <1>2, <1>3, <2>1
  <2>3. QED
    BY <1>1, <1>3, <1>4, <1>5, <2>1, <2>2, GotoAction
<1>7. CASE account'[Recipient(s)] # Complete
  <2>1. UNCHANGED <<writer, job>> /\ "folders" \in Pcs \ {"idle", "address"}
    BY <1>7 DEF RegisterFolder, Pcs
  <2>2. Goto(s, "folders")
    <3>1. job \in [Sessions -> JobRecords] /\ job[s] \in JobRecords
      BY <1>2, TypesOfParts
    <3>2. [job[s] EXCEPT !.pc = "folders"] = job[s]
      BY <1>1, <3>1 DEF JobRecords
    <3>3. QED
      BY <2>1, <3>1, <3>2 DEF Goto
  <2>3. account'[Recipient(s)] \in 1..FolderCount
    BY <1>3, <1>5, <1>7, DeliveryAssumption DEF Complete
  <2>4. \A r \in Sessions \ {s} : writer' # r /\ writer # r
    BY <1>3, <2>1
  <2>5. QED
    BY <1>1, <1>3, <1>4, <1>5, <2>1, <2>2, <2>3, <2>4, GotoAction
<1>8. QED
  BY <1>6, <1>7

LEMMA FindKeeps ==
  ASSUME DeliveryInv, NEW s \in Sessions, FindRegistered(s) \/ FindInbox(s)
  PROVE  DeliveryInv'
<1>1. /\ job[s].pc \in {"refind", "inbox"}
      /\ UNCHANGED <<account, writer, files, rows, addressed, faults, crashes, ready>>
  BY DEF FindRegistered, FindInbox, store, history
<1>2. /\ TypeOK /\ PlaceOK(s) /\ ServedOK(s) /\ Recipient(s) \in Users
      /\ Complete \in Nat /\ Complete > 1
  BY <1>1, CallFacts
<1>3. /\ account' \in [Users -> 0..Complete] /\ writer' \in Sessions \cup {NoOne}
      /\ files' \subseteq FileNames /\ faults \in 0..MaxFaults /\ writer # s
  BY <1>1, <1>2 DEF TypeOK, PlaceOK
<1>4. {"inbox", "file"} \subseteq Pcs \ {"idle", "address"}
  BY DEF Pcs
<1>5. CASE Goto(s, "inbox") /\ UNCHANGED mail
  BY <1>1, <1>3, <1>4, <1>5, GotoAction
<1>6. CASE Goto(s, "file") /\ UNCHANGED mail
  BY <1>1, <1>3, <1>4, <1>6, GotoAction
<1>7. CASE ~HasInbox(Recipient(s)) /\ Skip(s)
  <2>1. Recipient(s) \notin ready[s]
    BY <1>2, <1>7 DEF ServedOK, HasInbox
  <2>2. QED
    BY <1>1, <1>3, <1>7, <2>1, SkipAction
<1>8. QED
  BY <1>5, <1>6, <1>7 DEF FindRegistered, FindInbox

LEMMA WriteMailKeeps ==
  ASSUME DeliveryInv, NEW s \in Sessions, WriteMailToFile(s)
  PROVE  DeliveryInv'
<1>1. /\ job[s].pc = "file" /\ files' = files \cup {FileName(s)} /\ Goto(s, "deliver")
      /\ UNCHANGED <<account, writer, rows, addressed, mail, faults, crashes, ready>>
  BY DEF WriteMailToFile, history
<1>2. TypeOK /\ PlaceOK(s) /\ FileName(s) \in FileNames
  BY <1>1, CallFacts
<1>3. /\ account' \in [Users -> 0..Complete] /\ writer' \in Sessions \cup {NoOne}
      /\ files' \subseteq FileNames /\ faults \in 0..MaxFaults /\ writer # s
  BY <1>1, <1>2 DEF TypeOK, PlaceOK
<1>4. "deliver" \in Pcs \ {"idle", "address"}
  BY DEF Pcs
<1>5. QED
  BY <1>1, <1>3, <1>4, GotoAction

LEMMA AddRecipientKeeps ==
  ASSUME DeliveryInv, NEW s \in Sessions, AddRecipient(s)
  PROVE  DeliveryInv'
<1>1. /\ job[s].pc = "address" /\ NextRecipient(s, TRUE)
      /\ UNCHANGED <<account, writer, files, rows, crashes, ready>>
  BY DEF AddRecipient, history
<1>2. TypeOK /\ PlaceOK(s) /\ job[s].any \in BOOLEAN
  BY <1>1, CallFacts
<1>3. /\ writer' \in Sessions \cup {NoOne} /\ files' \subseteq FileNames /\ faults \in 0..MaxFaults
      /\ writer # s /\ addressed \subseteq rows
  BY <1>1, <1>2 DEF TypeOK, PlaceOK
<1>4. addressed' \subseteq rows /\ faults' \in 0..MaxFaults /\ (faults' = 0 => faults = 0)
  <2>1. Row(s) \in rows
    BY <1>1, <1>2 DEF PlaceOK
  <2>2. CASE addressed' = addressed \cup {Row(s)} /\ UNCHANGED faults
    BY <1>3, <2>1, <2>2
  <2>3. CASE Fault /\ UNCHANGED addressed
    BY <1>2, <1>3, <2>3, FaultFacts
  <2>4. QED
    BY <2>2, <2>3 DEF AddRecipient
<1> DEFINE saved == TRUE
<1>5. saved \in BOOLEAN /\ NextRecipient(s, saved) /\ saved = (job[s].any \/ job[s].pc = "address")
  BY <1>1, <1>2
<1> HIDE DEF saved
<1>6. QED
  BY <1>1, <1>3, <1>4, <1>5, NextAction

LEMMA StatementFailsKeeps ==
  ASSUME DeliveryInv, NEW s \in Sessions, StatementFails(s)
  PROVE  DeliveryInv'
<1>1. /\ Fault /\ Skip(s) /\ job[s].pc \notin {"idle", "address"}
      /\ writer' = IF writer = s THEN NoOne ELSE writer
      /\ UNCHANGED <<account, rows, addressed, crashes, ready>>
      /\ files' = files \/ files' = files \cup {FileName(s)}
  BY DEF StatementFails, history
<1>2. TypeOK /\ FileName(s) \in FileNames
  BY <1>1, CallFacts
<1>3. files \subseteq files' /\ files' \subseteq FileNames
  BY <1>1, <1>2 DEF TypeOK
<1>4. faults' \in 0..MaxFaults /\ faults' # 0
  BY <1>1, <1>2, FaultFacts
<1>5. QED
  BY <1>1, <1>3, <1>4, SkipAction

LEMMA DeliverKeeps ==
  ASSUME DeliveryInv, NEW s \in Sessions, Deliver(s)
  PROVE  DeliveryInv'
<1>1. /\ job[s].pc = "deliver" /\ rows' = rows \cup {Row(s)} /\ Goto(s, "address")
      /\ UNCHANGED <<account, writer, files, addressed, mail, faults, crashes, ready>>
  BY DEF Deliver, history
<1>2. /\ TypeOK /\ RowsOK /\ PlaceOK(s) /\ StoredOK(s) /\ ServedOK(s)
      /\ Recipient(s) \in Users /\ FileName(s) \in FileNames
  BY <1>1, CallFacts DEF DeliveryInv, SessionOK
<1>3. "address" \in Pcs
  BY DEF Pcs
<1>4. /\ job' \in [Sessions -> JobRecords]
      /\ job'[s].pc = "address" /\ job'[s].i = job[s].i /\ job'[s].any = job[s].any
      /\ \A r \in Sessions \ {s} : job'[r] = job[r]
  BY <1>1, <1>2, <1>3, GotoFacts
<1>5. /\ Row(s).user = Recipient(s) /\ Row(s).file = FileName(s)
      /\ FileName(s).mail = s /\ FileName(s).send = mail[s].sends /\ FileName(s).i = job[s].i
      /\ Row(s) \in [user : Users, file : FileNames]
  BY <1>2 DEF Row, FileName
<1>6. TypeOK'
  BY <1>1, <1>2, <1>4, <1>5 DEF TypeOK, JobRecords
<1>7. job[s].i \in 1..Len(mail[s].env) /\ FileName(s) \in files
  BY <1>1, <1>2 DEF PlaceOK
<1>8. RowsOK'
  <2>1. SUFFICES ASSUME NEW row \in rows'
                 PROVE  /\ row.file \in files
                        /\ row.file.mail \in Sessions
                        /\ row.file.i \in 1..Len(mail[row.file.mail].env)
                        /\ row.user = mail[row.file.mail].env[row.file.i]
    BY <1>1 DEF RowsOK
  <2>2. CASE row \in rows
    BY <1>2, <2>2 DEF RowsOK
  <2>3. CASE row = Row(s)
    BY <1>5, <1>7, <2>3 DEF Recipient
  <2>4. QED
    BY <1>1, <2>2, <2>3
<1>9. Recipient(s)' = Recipient(s) /\ FileName(s)' = FileName(s) /\ Row(s)' = Row(s)
  BY <1>1, <1>4 DEF Recipient, FileName, Row
<1>10. PlaceOK(s)'
  BY <1>1, <1>2, <1>4, <1>7, <1>9 DEF PlaceOK
<1>11. CopiesOf(s)' = CopiesOf(s) \cup {Row(s)}
  BY <1>1, <1>5 DEF CopiesOf
<1>12. StoredOK(s)'
  BY <1>1, <1>2, <1>4, <1>5, <1>11 DEF StoredOK
<1>13. ServedOK(s)'
  <2>1. \A i \in 1..Len(mail[s].env) : RowOf(s, i)' = RowOf(s, i)
    BY <1>1 DEF RowOf, FileOf
  <2>2. RowOf(s, job[s].i) = Row(s)
    BY DEF RowOf, FileOf, Row, FileName, Recipient
  <2>3. \A i \in 1..Len(mail[s].env) : Passed(s, i)' => Passed(s, i) \/ i = job[s].i
    BY <1>1, <1>4 DEF Passed
  <2>4. QED
    BY <1>1, <1>2, <1>4, <2>1, <2>2, <2>3 DEF ServedOK
<1>14. LocalTo(s)
  BY <1>1, <1>4, <1>5 DEF LocalTo
<1>15. QED
  BY <1>6, <1>8, <1>10, <1>12, <1>13, <1>14, StepKeeps DEF SessionOK

LEMMA SubmitKeeps ==
  ASSUME DeliveryInv, NEW s \in Sessions, Submit(s)
  PROVE  DeliveryInv'
<1>1. /\ job[s].pc = "idle" /\ mail[s].outcome # "250" /\ mail[s].sends < MaxSends /\ Len(mail[s].env) > 0
      /\ UNCHANGED <<account, writer, files, rows, addressed, crashes, faults>>
      /\ ready' = [ready EXCEPT ![s] = {u \in Users : account[u] = Complete}]
  BY DEF Submit, store
<1>2. TypeOK /\ RowsOK /\ PlaceOK(s) /\ StoredOK(s)
  BY DEF DeliveryInv, SessionOK
<1>3. /\ job \in [Sessions -> JobRecords] /\ mail \in [Sessions -> MailRecords] /\ mail[s] \in MailRecords
      /\ Len(mail[s].env) \in Nat /\ mail[s].sends \in Nat
  BY <1>2, TypesOfParts
<1> DEFINE first == [NoJob EXCEPT !.pc = "find", !.i = 1]
<1> DEFINE sent == [mail[s] EXCEPT !.sends = @ + 1, !.outcome = "sending"]
<1>4. first \in JobRecords /\ first.pc = "find" /\ first.i = 1
  BY DEF NoJob, JobRecords, Pcs
<1>5. first.any = FALSE
  BY DEF NoJob
<1>6. sent.env = mail[s].env /\ sent.sends = mail[s].sends + 1 /\ sent.outcome = "sending"
  BY <1>3 DEF MailRecords
<1>7. sent.lost = mail[s].lost
  BY <1>3 DEF MailRecords
<1>8. sent \in MailRecords
  <2>1. mail[s].sends + 1 \in 0..MaxSends /\ "sending" \in Outcomes
    BY <1>1, <1>3, DeliveryAssumption DEF Outcomes
  <2>2. QED
    BY <1>3, <2>1 DEF MailRecords
<1>9. job' = [job EXCEPT ![s] = first] /\ mail' = [mail EXCEPT ![s] = sent]
  BY DEF Submit
<1> HIDE DEF first, sent
<1>10. /\ job' \in [Sessions -> JobRecords] /\ job'[s] = first /\ mail' \in [Sessions -> MailRecords]
       /\ mail'[s] = sent /\ \A r \in Sessions \ {s} : job'[r] = job[r] /\ mail'[r] = mail[r]
  BY <1>3, <1>4, <1>8, <1>9
<1>11. /\ ready' \in [Sessions -> SUBSET Users] /\ ready'[s] = {u \in Users : account[u] = Complete}
       /\ \A r \in Sessions \ {s} : ready'[r] = ready[r]
  BY <1>1, <1>2 DEF TypeOK
<1>12. TypeOK'
  BY <1>1, <1>2, <1>10, <1>11 DEF TypeOK, JobRecords, MailRecords
<1>13. RowsOK'
  BY <1>1, <1>2, <1>6, <1>10, RowsKept
<1>14. PlaceOK(s)'
  BY <1>1, <1>2, <1>3, <1>4, <1>5, <1>6, <1>10 DEF PlaceOK
<1>15. CopiesOf(s)' = CopiesOf(s) /\ (~mail[s].lost => CopiesOf(s) = {})
  BY <1>1, <1>2 DEF StoredOK, PlaceOK, CopiesOf
<1>16. StoredOK(s)'
  BY <1>4, <1>5, <1>6, <1>7, <1>10, <1>15 DEF StoredOK
<1>17. ServedOK(s)'
  <2>1. \A i \in 1..Len(mail'[s].env) : ~Passed(s, i)'
    BY <1>4, <1>6, <1>3, <1>10 DEF Passed
  <2>2. QED
    BY <1>1, <1>4, <1>10, <1>11, <2>1 DEF ServedOK
<1>18. LocalTo(s)
  BY <1>1, <1>10, <1>11 DEF LocalTo
<1>19. QED
  BY <1>12, <1>13, <1>14, <1>16, <1>17, <1>18, StepKeeps DEF SessionOK

LEMMA CrashKeeps ==
  ASSUME DeliveryInv, Crash
  PROVE  DeliveryInv'
<1>1. /\ crashes < MaxCrashes /\ crashes' = crashes + 1 /\ writer' = NoOne
      /\ job' = [s \in Sessions |-> NoJob]
      /\ UNCHANGED <<account, files, rows, addressed, faults, ready>>
  BY DEF Crash
<1>2. TypeOK /\ RowsOK /\ NoOne \notin Sessions
  BY DeliveryAssumption DEF DeliveryInv
<1>3. ASSUME NEW s \in Sessions
      PROVE  /\ mail'[s] \in MailRecords /\ mail'[s].env = mail[s].env /\ mail'[s].sends = mail[s].sends
             /\ job[s].pc = "idle" => mail'[s] = mail[s]
             /\ job[s].pc # "idle" => mail'[s].outcome = "none" /\ mail'[s].lost
  <2>1. mail[s] \in MailRecords
    BY <1>2, TypesOfParts
  <2> DEFINE dropped == [mail[s] EXCEPT !.outcome = "none", !.lost = TRUE]
  <2>2. dropped \in MailRecords
    BY <2>1 DEF MailRecords, Outcomes
  <2>3. dropped.env = mail[s].env /\ dropped.sends = mail[s].sends /\ dropped.outcome = "none"
    BY <2>1 DEF MailRecords
  <2>4. dropped.lost
    BY <2>1 DEF MailRecords
  <2>5. mail'[s] = IF job[s].pc = "idle" THEN mail[s] ELSE dropped
    BY DEF Crash
  <2> HIDE DEF dropped
  <2>6. QED
    BY <2>1, <2>2, <2>3, <2>4, <2>5
<1>4. mail' \in [Sessions -> MailRecords]
  <2>1. mail' = [s \in Sessions |-> mail'[s]]
    BY DEF Crash
  <2>2. QED
    BY <1>3, <2>1
<1>5. /\ NoJob \in JobRecords /\ NoJob.pc = "idle" /\ NoJob.any = FALSE
      /\ job' \in [Sessions -> JobRecords] /\ \A s \in Sessions : job'[s] = NoJob
  BY <1>1 DEF NoJob, JobRecords, Pcs
<1>6. TypeOK'
  <2>1. crashes' \in 0..MaxCrashes
    BY <1>1, <1>2, DeliveryAssumption DEF TypeOK
  <2>2. QED
    BY <1>1, <1>2, <1>4, <1>5, <2>1 DEF TypeOK, JobRecords, MailRecords
<1>7. RowsOK'
  BY <1>1, <1>2, <1>3, RowsKept
<1>8. ASSUME NEW s \in Sessions
      PROVE  SessionOK(s)'
  <2>1. PlaceOK(s) /\ StoredOK(s) /\ ServedOK(s)
    BY DEF DeliveryInv, SessionOK
  <2>2. PlaceOK(s)'
    BY <1>1, <1>2, <1>3, <1>5, <2>1 DEF PlaceOK
  <2>3. CopiesOf(s)' = CopiesOf(s)
    BY <1>1 DEF CopiesOf
  <2>4. StoredOK(s)'
    <3>1. job[s].pc = "idle" => ~job[s].any
      BY <2>1 DEF PlaceOK
    <3>2. CASE job[s].pc = "idle"
      BY <1>3, <1>5, <2>1, <2>3, <3>1, <3>2 DEF StoredOK
    <3>3. CASE job[s].pc # "idle"
      BY <1>3, <1>5, <2>3, <3>3 DEF StoredOK
    <3>4. QED
      BY <3>2, <3>3
  <2>5. ServedOK(s)'
    <3>1. \A i \in 1..Len(mail[s].env) : (Passed(s, i)' => Passed(s, i)) /\ RowOf(s, i)' = RowOf(s, i)
      BY <1>3, <1>5 DEF Passed, RowOf, FileOf
    <3>2. QED
      BY <1>1, <1>3, <1>5, <2>1, <3>1 DEF ServedOK
  <2>6. QED
    BY <2>2, <2>4, <2>5 DEF SessionOK
<1>9. QED
  BY <1>6, <1>7, <1>8 DEF DeliveryInv

-----------------------------------------------------------------------------
(* The invariant holds at the start and every step keeps it.                *)

LEMMA InitDeliveryInv == Init => DeliveryInv
<1> SUFFICES ASSUME Init
             PROVE  DeliveryInv
  OBVIOUS
<1>1. NoJob \in JobRecords /\ NoJob.pc = "idle" /\ NoJob.any = FALSE
  BY DEF NoJob, JobRecords, Pcs
<1>2. job \in [Sessions -> JobRecords] /\ \A s \in Sessions : job[s] = NoJob
  BY <1>1 DEF Init
<1>3. ASSUME NEW s \in Sessions
      PROVE  mail[s] \in MailRecords /\ mail[s].outcome = "none"
  BY DeliveryAssumption DEF Init, MailRecords, Outcomes
<1>4. mail \in [Sessions -> MailRecords]
  <2>1. mail = [s \in Sessions |-> mail[s]]
    BY DEF Init
  <2>2. QED
    BY <1>3, <2>1
<1>5. TypeOK
  <2>1. account \in [Users -> 0..Complete] /\ crashes \in 0..MaxCrashes /\ faults \in 0..MaxFaults
    BY DeliveryAssumption DEF Init, Complete
  <2>2. QED
    BY <1>2, <1>4, <2>1 DEF Init, TypeOK, JobRecords, MailRecords
<1>6. RowsOK
  BY DEF Init, RowsOK
<1>7. ASSUME NEW s \in Sessions
      PROVE  SessionOK(s)
  <2>1. PlaceOK(s)
    BY <1>1, <1>2, <1>3, DeliveryAssumption DEF Init, PlaceOK
  <2>2. StoredOK(s)
    BY <1>1, <1>2, <1>3 DEF Init, StoredOK, CopiesOf
  <2>3. ServedOK(s)
    BY <1>1, <1>2, <1>3 DEF Init, ServedOK, Passed
  <2>4. QED
    BY <2>1, <2>2, <2>3 DEF SessionOK
<1>8. QED
  BY <1>5, <1>6, <1>7 DEF DeliveryInv

LEMMA StepDeliveryInv == DeliveryInv /\ [Next]_vars => DeliveryInv'
<1> SUFFICES ASSUME DeliveryInv, [Next]_vars
             PROVE  DeliveryInv'
  OBVIOUS
<1>1. ASSUME NEW s \in Sessions, Submit(s) \/ Work(s)
      PROVE  DeliveryInv'
  BY <1>1, SubmitKeeps, FindUserKeeps, RegisterCheckKeeps, RegisterInsertKeeps, RegisterFolderKeeps,
     FindKeeps, WriteMailKeeps, DeliverKeeps, AddRecipientKeeps, StatementFailsKeeps DEF Work
<1>2. CASE Crash
  BY <1>2, CrashKeeps
<1>3. CASE UNCHANGED vars
  <2>1. TypeOK' /\ RowsOK'
    BY <1>3 DEF vars, DeliveryInv, TypeOK, RowsOK
  <2>2. ASSUME NEW s \in Sessions
        PROVE  SessionOK(s)'
    <3>1. PlaceOK(s) /\ StoredOK(s) /\ ServedOK(s)
      BY DEF DeliveryInv, SessionOK
    <3>2. PlaceOK(s)'
      BY <1>3, <3>1 DEF vars, PlaceOK, Recipient, FileName, Row
    <3>3. StoredOK(s)'
      BY <1>3, <3>1 DEF vars, StoredOK, CopiesOf
    <3>4. ServedOK(s)'
      BY <1>3, <3>1 DEF vars, ServedOK, Recipient, Passed, RowOf, FileOf
    <3>5. QED
      BY <3>2, <3>3, <3>4 DEF SessionOK
  <2>3. QED
    BY <2>1, <2>2 DEF DeliveryInv
<1>4. QED
  BY <1>1, <1>2, <1>3 DEF Next

LEMMA DeliveryInvHolds == Spec => []DeliveryInv
<1>1. QED
  BY InitDeliveryInv, StepDeliveryInv, PTL DEF Spec

(* Every step adds at most one row.                                         *)
RowsFinite == IsFiniteSet(rows)

LEMMA FiniteRows == Spec => []RowsFinite
<1>1. Init => RowsFinite
  BY FS_EmptySet DEF Init, RowsFinite
<1>2. ASSUME RowsFinite, [Next]_vars
      PROVE  RowsFinite'
  <2>1. rows' = rows \/ \E s \in Sessions : rows' = rows \cup {Row(s)}
    BY <1>2 DEF Next, Submit, Work, FindUser, RegisterCheck, RegisterInsert, RegisterFolder, FindRegistered,
       FindInbox, WriteMailToFile, Deliver, AddRecipient, StatementFails, Crash, store, vars
  <2>2. QED
    BY <1>2, <2>1, FS_AddElement DEF RowsFinite
<1>3. QED
  BY <1>1, <1>2, PTL DEF Spec

-----------------------------------------------------------------------------
(* Types of the mail store, the calls of SaveMessage and the clients' mails *)
(* at every step, and an account never has more than its folders.           *)
THEOREM DeliveryTypes == Spec => []TypeOK
<1>1. DeliveryInv => TypeOK
  BY DEF DeliveryInv
<1>2. QED
  BY <1>1, DeliveryInvHolds, PTL

(* Every delivered row's raw_file_path names a file on disk, whatever fails *)
(* in SaveMessage and whenever the server crashes.                          *)
THEOREM RowsHaveFiles == Spec => []RowHasFile
<1>1. DeliveryInv => RowHasFile
  BY DEF DeliveryInv, RowsOK, RowHasFile
<1>2. QED
  BY <1>1, DeliveryInvHolds, PTL

(* SaveMessage returns false, and the client is answered 452, only when no  *)
(* row of the mail is in the store.                                         *)
THEOREM RefusedMailIsAbsent == Spec => []RefusedMeansAbsent
<1>1. ASSUME DeliveryInv
      PROVE  RefusedMeansAbsent
  <2>1. SUFFICES ASSUME NEW s \in Sessions, mail[s].outcome = "452", ~mail[s].lost
                 PROVE  CopiesOf(s) = {}
    BY DEF RefusedMeansAbsent
  <2>2. PlaceOK(s) /\ StoredOK(s)
    BY <1>1 DEF DeliveryInv, SessionOK
  <2>3. job[s].pc = "idle" /\ ~job[s].any
    BY <2>1, <2>2 DEF PlaceOK
  <2>4. QED
    BY <2>1, <2>2, <2>3 DEF StoredOK
<1>2. QED
  BY <1>1, DeliveryInvHolds, PTL

(* A mail answered 250 is in some mailbox.                                  *)
THEOREM AcceptedMailIsStored == Spec => []AcceptedIsStored
<1>1. DeliveryInv => AcceptedIsStored
  BY DEF DeliveryInv, SessionOK, StoredOK, AcceptedIsStored
<1>2. QED
  BY <1>1, DeliveryInvHolds, PTL

(* Resending after 452 never gives a recipient a second row: the rows of a  *)
(* mail for a user map one to one to the places that name the user.         *)
THEOREM ResendingNeverDuplicates == Spec => []NoDuplicates
<1>1. ASSUME DeliveryInv
      PROVE  NoDuplicates
  <2>1. SUFFICES ASSUME NEW s \in Sessions, NEW u \in Users, ~mail[s].lost
                 PROVE  Cardinality(CopiesFor(s, u)) <= Cardinality(Mentions(s, u))
    BY DEF NoDuplicates
  <2>2. TypeOK /\ RowsOK /\ StoredOK(s)
    BY <1>1 DEF DeliveryInv, SessionOK
  <2>3. Len(mail[s].env) \in Nat /\ DOMAIN mail[s].env = 1..Len(mail[s].env)
    BY <2>2, TypesOfParts DEF MailRecords
  <2>4. IsFiniteSet(Mentions(s, u))
    <3>1. IsFiniteSet(1..Len(mail[s].env))
      BY <2>3, FS_Interval
    <3>2. Mentions(s, u) \in SUBSET (1..Len(mail[s].env))
      BY <2>3 DEF Mentions
    <3>3. QED
      BY <3>1, <3>2, FS_Subset
  <2> DEFINE f == [row \in CopiesFor(s, u) |-> row.file.i]
  <2>5. ASSUME NEW row \in CopiesFor(s, u)
        PROVE  /\ row \in [user : Users, file : FileNames] /\ row.user = u
               /\ row.file.mail = s /\ row.file.send = mail[s].sends
               /\ row.file.i \in Mentions(s, u)
    <3>1. row \in rows /\ row.user = u /\ row.file.mail = s /\ row \in CopiesOf(s)
      BY DEF CopiesFor, CopiesOf
    <3>2. row.file.send = mail[s].sends
      BY <2>1, <2>2, <3>1 DEF StoredOK
    <3>3. row.file.i \in Mentions(s, u)
      BY <2>2, <2>3, <3>1 DEF RowsOK, Mentions
    <3>4. row \in [user : Users, file : FileNames]
      BY <2>2, <3>1 DEF TypeOK
    <3>5. QED
      BY <3>1, <3>2, <3>3, <3>4
  <2>6. \A a, b \in CopiesFor(s, u) : f[a] = f[b] => a = b
    BY <2>5 DEF FileNames
  <2>7. f \in [CopiesFor(s, u) -> Mentions(s, u)]
    BY <2>5
  <2> HIDE DEF f
  <2>8. f \in Injection(CopiesFor(s, u), Mentions(s, u))
    BY <2>6, <2>7, Fun_IsInj
  <2>9. QED
    BY <2>4, <2>8, FS_Injection
<1>2. QED
  BY <1>1, DeliveryInvHolds, PTL

(* Without failures, every recipient whose account was complete when the    *)
(* mail was submitted has a row for every place that names them once the    *)
(* client is answered 250, whatever other sessions register meanwhile.      *)
THEOREM ReadyRecipientsGetTheMail == Spec => []ReadyRecipientsServed
<1>1. ASSUME DeliveryInv, RowsFinite
      PROVE  ReadyRecipientsServed
  <2>1. SUFFICES ASSUME NEW s \in Sessions, mail[s].outcome = "250", faults = 0, NEW u \in ready[s]
                 PROVE  Cardinality(CopiesFor(s, u)) >= Cardinality(Mentions(s, u))
    BY DEF ReadyRecipientsServed
  <2>2. TypeOK /\ ServedOK(s)
    BY <1>1 DEF DeliveryInv, SessionOK
  <2>3. Len(mail[s].env) \in Nat /\ DOMAIN mail[s].env = 1..Len(mail[s].env)
    BY <2>2, TypesOfParts DEF MailRecords
  <2>4. IsFiniteSet(CopiesFor(s, u))
    <3>1. CopiesFor(s, u) \in SUBSET rows
      BY DEF CopiesFor, CopiesOf
    <3>2. QED
      BY <1>1, <3>1, FS_Subset DEF RowsFinite
  <2> DEFINE f == [i \in Mentions(s, u) |-> RowOf(s, i)]
  <2>5. ASSUME NEW i \in Mentions(s, u)
        PROVE  RowOf(s, i) \in CopiesFor(s, u) /\ RowOf(s, i).file.i = i
    <3>1. i \in 1..Len(mail[s].env) /\ mail[s].env[i] = u
      BY <2>3 DEF Mentions
    <3>2. RowOf(s, i) \in rows
      BY <2>1, <2>2, <3>1 DEF ServedOK, Passed
    <3>3. RowOf(s, i).user = u /\ RowOf(s, i).file.mail = s /\ RowOf(s, i).file.i = i
      BY <3>1 DEF RowOf, FileOf
    <3>4. QED
      BY <3>2, <3>3 DEF CopiesFor, CopiesOf
  <2>6. \A a, b \in Mentions(s, u) : f[a] = f[b] => a = b
    BY <2>5
  <2>7. f \in [Mentions(s, u) -> CopiesFor(s, u)]
    BY <2>5
  <2> HIDE DEF f
  <2>8. f \in Injection(Mentions(s, u), CopiesFor(s, u))
    BY <2>6, <2>7, Fun_IsInj
  <2>9. IsFiniteSet(Mentions(s, u)) /\ Cardinality(Mentions(s, u)) <= Cardinality(CopiesFor(s, u))
    BY <2>4, <2>8, FS_Injection
  <2>10. Cardinality(Mentions(s, u)) \in Nat /\ Cardinality(CopiesFor(s, u)) \in Nat
    BY <2>4, <2>9, FS_CardinalityType
  <2>11. QED
    BY <2>9, <2>10
<1>2. QED
  BY <1>1, DeliveryInvHolds, FiniteRows, PTL
=============================================================================
