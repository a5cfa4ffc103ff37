--------------------------- MODULE ModelTxProofs ---------------------------
(***************************************************************************)
(* Proofs about ModelTx for every number of processes, every number of     *)
(* files and every notion of content, printing and loading.                *)
(***************************************************************************)
EXTENDS ModelTxRefinement, WellFoundedInduction, TLAPS

LEMMA Markers ==
    /\ Absent \notin Content /\ Unread \notin Content
    /\ Unreadable \notin Content /\ Untouched \notin Content
    /\ Unread # Absent /\ Unreadable # Absent
    /\ NoOne \notin Proc
BY MarkerAssumption

\* What write puts on disk is what was read or what was printed.
LEMMA PendingIsEdited ==
    ASSUME TypeOK, NEW t \in Proc, NEW p \in Pending(t)
    PROVE  p \in Path /\ edit[t][p] \in Canonical
BY DEF TypeOK, Pending

-----------------------------------------------------------------------------
(* The lock and the types.                                                 *)

LEMMA LockInit == Init => LockInv
BY PrintAssumption, Markers
DEF Init, LockInv, TypeOK, OneWriter, StageInv, Running, Phases, Outcomes,
    Nothing, NoEdits, Trees

\* A step of one transaction leaves what another one holds alone.
LEMMA OthersKeep ==
    ASSUME TypeOK, NEW t \in Proc, TxStep(t), NEW u \in Proc, u # t
    PROVE  /\ pc'[u] = pc[u] /\ base'[u] = base[u] /\ edit'[u] = edit[u]
           /\ tmp'[u] = tmp[u] /\ renamed'[u] = renamed[u]
           /\ failed'[u] = failed[u] /\ outcome'[u] = outcome[u]
<1>1. CASE Acquire(t) \/ Mutate(t) \/ Crash(t) \/ Restart(t)
  BY <1>1 DEF Acquire, Mutate, Crash, Restart, Forget, TypeOK
<1>2. CASE Acquired(t) \/ AcquireFails(t) \/ ReadFile(t) \/ Opened(t) \/ BeginRefuses(t)
  BY <1>2 DEF Acquired, AcquireFails, ReadFile, Opened, BeginRefuses, EndWith, TypeOK
<1>3. CASE CloseTx(t) \/ CommitRefuses(t) \/ DryRun(t) \/ Prepare(t)
  BY <1>3 DEF CloseTx, CommitRefuses, DryRun, Prepare, EndWith, TypeOK
<1>4. CASE StageFile(t) \/ StageFails(t) \/ Staged(t)
  BY <1>4 DEF StageFile, StageFails, Staged, EndWith, TypeOK
<1>5. CASE RenameFile(t) \/ RenameFails(t) \/ Written(t)
  BY <1>5 DEF RenameFile, RenameFails, Written, EndWith, TypeOK
<1>6. CASE RestoreFile(t) \/ RestoreFails(t) \/ RolledBack(t) \/ Release(t)
  BY <1>6 DEF RestoreFile, RestoreFails, RolledBack, Release, EndWith, Forget, TypeOK
<1>7. QED
  BY <1>1, <1>2, <1>3, <1>4, <1>5, <1>6 DEF TxStep, Progress

LEMMA TypeTx ==
    ASSUME LockInv, NEW t \in Proc, TxStep(t)
    PROVE  TypeOK'
<1> USE DEF LockInv, TypeOK, Phases, Outcomes
<1>1. CASE Acquire(t) \/ Acquired(t) \/ AcquireFails(t)
  BY <1>1 DEF Acquire, Acquired, AcquireFails
<1>2. CASE ReadFile(t)
  <2>1. PICK p \in Path, src \in OnDisk \union {Unreadable} :
            base' = [base EXCEPT ![t][p] = src]
    BY <1>2 DEF ReadFile, Trees
  <2>2. base' \in [Proc -> [Path -> OnDisk \union {Unread, Unreadable}]]
    BY <2>1
  <2>3. QED  BY <1>2, <2>2 DEF ReadFile
<1>3. CASE Opened(t) \/ BeginRefuses(t)
  BY <1>3 DEF Opened, BeginRefuses, EndWith
<1>4. CASE Mutate(t)
  BY <1>4 DEF Mutate
<1>5. CASE CloseTx(t) \/ CommitRefuses(t) \/ DryRun(t) \/ Prepare(t)
  BY <1>5 DEF CloseTx, CommitRefuses, DryRun, Prepare, EndWith
<1>6. CASE StageFile(t) \/ StageFails(t) \/ Staged(t)
  <2>1. CASE StageFile(t)
    BY <2>1 DEF StageFile
  <2>2. CASE StageFails(t) \/ Staged(t)
    BY <2>2 DEF StageFails, Staged, EndWith
  <2>3. QED  BY <1>6, <2>1, <2>2
<1>7. CASE RenameFile(t)
  <2>1. PICK p \in Path : /\ p \in tmp[t]
                          /\ disk' = [disk EXCEPT ![p] = edit[t][p]]
    BY <1>7 DEF RenameFile, IsFirst
  <2>2. p \in Pending(t)
    BY <1>7, <2>1 DEF StageInv, RenameFile
  <2>3. disk' \in Trees
    BY <2>1, <2>2, PendingIsEdited DEF Trees, OnDisk, Canonical
  <2>4. QED  BY <1>7, <2>3 DEF RenameFile
<1>8. CASE RenameFails(t) \/ Written(t)
  BY <1>8 DEF RenameFails, Written, EndWith
<1>9. CASE RestoreFile(t)
  <2>1. base[t] \in Trees
    BY <1>9 DEF StageInv, RestoreFile
  <2>2. disk' \in Trees
    BY <1>9, <2>1 DEF RestoreFile, Trees
  <2>3. QED  BY <1>9, <2>2 DEF RestoreFile
<1>10. CASE RestoreFails(t)
  BY <1>10 DEF RestoreFails
<1>11. CASE RolledBack(t)
  BY <1>11 DEF RolledBack, EndWith, BlameIfBroken
<1>12. CASE Release(t)
  BY <1>12 DEF Release, Forget, Nothing, NoEdits
<1>13. CASE Crash(t) \/ Restart(t)
  <2>1. CASE Crash(t)
    <3>1. blame' \in {"none", "hand", "crash", "rollback", "stale"}
      BY <2>1 DEF Crash, BlameIfBroken
    <3>2. QED  BY <2>1, <3>1 DEF Crash, Forget, Nothing, NoEdits
  <2>2. CASE Restart(t)
    BY <2>2 DEF Restart
  <2>3. QED  BY <1>13, <2>1, <2>2
<1>14. QED
  BY <1>1, <1>2, <1>3, <1>4, <1>5, <1>6, <1>7, <1>8, <1>9, <1>10, <1>11, <1>12,
     <1>13 DEF TxStep, Progress

\* The formatters and the hand write contents, and nothing else changes.
LEMMA TypeOthers ==
    ASSUME TypeOK
    PROVE  /\ \A f \in Formatter : FmtStep(f) => TypeOK'
           /\ ClearLock => TypeOK'
           /\ HandEdit => TypeOK'
<1> USE DEF TypeOK, txVars
<1>1. ASSUME NEW f \in Formatter, FmtRead(f) PROVE TypeOK'
  BY <1>1 DEF FmtRead
<1>2. ASSUME NEW f \in Formatter, FmtWrite(f) PROVE TypeOK'
  <2>1. fmt[f] \in [path : Path, src : Content]
    BY <1>2 DEF FmtWrite
  <2>2. disk' \in Trees
    BY <1>2, <2>1, PrintAssumption DEF FmtWrite, Trees, OnDisk
  <2>3. QED  BY <1>2, <2>2 DEF FmtWrite
<1>3. ASSUME NEW f \in Formatter, FmtFails(f) PROVE TypeOK'
  BY <1>3 DEF FmtFails
<1>4. ASSUME ClearLock PROVE TypeOK'
  BY <1>4 DEF ClearLock
<1>5. ASSUME HandEdit PROVE TypeOK'
  BY <1>5 DEF HandEdit, BlameIfBroken, Trees
<1>6. QED
  BY <1>1, <1>2, <1>3, <1>4, <1>5 DEF FmtStep

\* Taking the lock needs it free, and only its holder or a process which is
\* not running loses it.
LEMMA LockTx ==
    ASSUME LockInv, NEW t \in Proc, TxStep(t)
    PROVE  OneWriter'
<1> SUFFICES ASSUME NEW u \in Proc, Running(u)'
             PROVE  lock' = u
  BY DEF OneWriter
<1>1. CASE u # t
  <2>1. Running(u)
    BY <1>1, OthersKeep DEF LockInv, Running
  <2>2. lock = u
    BY <2>1 DEF LockInv, OneWriter
  <2>3. lock' = lock
    <3>1. ~Running(t) /\ lock # NoOne
      BY <1>1, <2>2, Markers DEF LockInv, OneWriter
    <3>2. QED
      BY <3>1 DEF Running, TxStep, Progress, Acquire, Mutate, Crash, Restart,
         Acquired, AcquireFails, ReadFile, Opened, BeginRefuses, CloseTx,
         CommitRefuses, DryRun, Prepare, StageFile, StageFails, Staged, RenameFile,
         RenameFails, Written, RestoreFile, RestoreFails, RolledBack, Release
  <2>4. QED  BY <2>2, <2>3
<1>2. CASE u = t /\ (Acquire(t) \/ AcquireFails(t) \/ Release(t) \/ Crash(t) \/ Restart(t))
  BY <1>2 DEF Acquire, AcquireFails, Release, Crash, Restart, Running, LockInv, TypeOK
<1>3. CASE u = t /\ Running(t) /\ lock' = lock
  BY <1>3 DEF LockInv, OneWriter
<1>4. TxStep(t) => \/ Acquire(t) \/ AcquireFails(t) \/ Release(t) \/ Crash(t) \/ Restart(t)
                   \/ Running(t) /\ lock' = lock
  BY DEF Running, TxStep, Progress, Mutate,
         Acquired, ReadFile, Opened, BeginRefuses, CloseTx,
         CommitRefuses, DryRun, Prepare, StageFile, StageFails, Staged, RenameFile,
         RenameFails, Written, RestoreFile, RestoreFails, RolledBack
<1>5. QED  BY <1>1, <1>2, <1>3, <1>4

\* What a transaction's own step does to what it holds.
LEMMA StageOwn ==
    ASSUME LockInv, NEW t \in Proc, TxStep(t)
    PROVE  StageInv(t)'
<1> USE DEF LockInv, TypeOK, StageInv
<1>1. CASE Acquire(t) \/ Acquired(t) \/ AcquireFails(t)
  BY <1>1 DEF Acquire, Acquired, AcquireFails
<1>2. CASE ReadFile(t)
  BY <1>2 DEF ReadFile
<1>3. CASE Opened(t)
  <2>1. base[t] \in Trees
    BY <1>3 DEF Opened, Readable, Trees
  <2>2. QED  BY <1>3, <2>1 DEF Opened
<1>4. CASE BeginRefuses(t) \/ CloseTx(t) \/ CommitRefuses(t) \/ DryRun(t)
  BY <1>4 DEF BeginRefuses, CloseTx, CommitRefuses, DryRun, EndWith
<1>5. CASE Mutate(t)
  BY <1>5 DEF Mutate
<1>6. CASE Prepare(t)
  BY <1>6 DEF Prepare
<1>7. CASE StageFile(t)
  <2>1. Pending(t)' = Pending(t)
    BY <1>7 DEF StageFile, Pending
  <2>2. PICK p \in Path : /\ p \in Pending(t)
                          /\ tmp' = [tmp EXCEPT ![t] = @ \union {p}]
    BY <1>7 DEF StageFile, IsFirst
  <2>3. QED  BY <1>7, <2>1, <2>2 DEF StageFile
<1>8. CASE StageFails(t) \/ Staged(t)
  <2>1. Pending(t)' = Pending(t)
    BY <1>8 DEF StageFails, Staged, Pending
  <2>2. QED  BY <1>8, <2>1 DEF StageFails, Staged, EndWith
<1>9. CASE RenameFile(t)
  <2>1. Pending(t)' = Pending(t)
    BY <1>9 DEF RenameFile, Pending
  <2>2. PICK p \in tmp[t] : /\ tmp' = [tmp EXCEPT ![t] = @ \ {p}]
                            /\ renamed' = [renamed EXCEPT ![t] = @ \union {p}]
    BY <1>9 DEF RenameFile, IsFirst
  <2>3. /\ tmp'[t] = tmp[t] \ {p} /\ renamed'[t] = renamed[t] \union {p}
        /\ pc[t] = "renaming" /\ UNCHANGED <<pc, base, edit, failed>>
    BY <1>9, <2>2 DEF RenameFile
  <2>4. tmp'[t] \union renamed'[t] \union failed'[t] \subseteq Pending(t)'
    BY <2>1, <2>2, <2>3
  <2>5. QED  BY <2>3, <2>4
<1>10. CASE RenameFails(t) \/ Written(t) \/ RolledBack(t)
  <2>1. Pending(t)' = Pending(t)
    BY <1>10 DEF RenameFails, Written, RolledBack, Pending
  <2>2. CASE RenameFails(t)
    BY <2>1, <2>2 DEF RenameFails
  <2>3. CASE Written(t)
    BY <2>1, <2>3 DEF Written, EndWith
  <2>4. CASE RolledBack(t)
    BY <2>1, <2>4 DEF RolledBack, EndWith
  <2>5. QED  BY <1>10, <2>2, <2>3, <2>4
<1>11. CASE RestoreFile(t)
  <2>1. Pending(t)' = Pending(t)
    BY <1>11 DEF RestoreFile, Pending
  <2>2. PICK p \in Path : /\ tmp' = [tmp EXCEPT ![t] = @ \ {p}]
                          /\ renamed' = [renamed EXCEPT ![t] = @ \ {p}]
    BY <1>11 DEF RestoreFile
  <2>3. QED  BY <1>11, <2>1, <2>2 DEF RestoreFile
<1>12. CASE RestoreFails(t)
  <2>1. Pending(t)' = Pending(t)
    BY <1>12 DEF RestoreFails, Pending
  <2>2. PICK p \in renamed[t] : /\ renamed' = [renamed EXCEPT ![t] = @ \ {p}]
                                /\ failed' = [failed EXCEPT ![t] = @ \union {p}]
    BY <1>12 DEF RestoreFails
  <2>3. QED  BY <1>12, <2>1, <2>2 DEF RestoreFails
<1>13. CASE Release(t)
  BY <1>13 DEF Release, Forget
<1>14. CASE Crash(t)
  BY <1>14 DEF Crash, Forget
<1>15. CASE Restart(t)
  BY <1>15 DEF Restart
<1>16. QED
  BY <1>1, <1>2, <1>3, <1>4, <1>5, <1>6, <1>7, <1>8, <1>9, <1>10, <1>11, <1>12,
     <1>13, <1>14, <1>15 DEF TxStep, Progress

LEMMA StageTx ==
    ASSUME LockInv, NEW t \in Proc, TxStep(t)
    PROVE  \A u \in Proc : StageInv(u)'
<1>1. ASSUME NEW u \in Proc, u # t PROVE StageInv(u)'
  <2>1. Pending(u)' = Pending(u)
    BY <1>1, OthersKeep DEF LockInv, Pending
  <2>2. QED  BY <1>1, <2>1, OthersKeep DEF LockInv, StageInv
<1>2. QED  BY <1>1, StageOwn

\* The steps which are not a transaction's.
LEMMA LockOthers ==
    ASSUME LockInv, \/ \E f \in Formatter : FmtStep(f)
                    \/ ClearLock
                    \/ HandEdit
                    \/ UNCHANGED vars
    PROVE  LockInv'
<1>1. TypeOK'
  <2>1. CASE UNCHANGED vars
    BY <2>1 DEF LockInv, vars, txVars, TypeOK
  <2>2. QED  BY <2>1, TypeOthers DEF LockInv
<1>2. UNCHANGED txVars
  BY DEF FmtStep, FmtRead, FmtWrite, FmtFails, ClearLock, HandEdit, vars
<1>3. ASSUME NEW t \in Proc PROVE StageInv(t)'
  <2>1. Pending(t)' = Pending(t)
    BY <1>2 DEF Pending, txVars
  <2>2. QED  BY <1>2, <2>1 DEF LockInv, StageInv, txVars
<1>4. OneWriter'
  <2>1. CASE ClearLock
    BY <1>2, <2>1 DEF LockInv, OneWriter, ClearLock, Running, txVars
  <2>2. CASE lock' = lock
    BY <1>2, <2>2 DEF LockInv, OneWriter, Running, txVars
  <2>3. ~ClearLock => lock' = lock
    BY DEF FmtStep, FmtRead, FmtWrite, FmtFails, HandEdit, vars
  <2>4. QED  BY <2>1, <2>2, <2>3
<1>5. QED  BY <1>1, <1>3, <1>4 DEF LockInv

LEMMA LockNext == LockInv /\ [Next]_vars => LockInv'
<1> SUFFICES ASSUME LockInv, [Next]_vars PROVE LockInv'
  OBVIOUS
<1>1. CASE \E t \in Proc : TxStep(t)
  BY <1>1, TypeTx, LockTx, StageTx DEF LockInv
<1>2. QED
  BY <1>1, LockOthers DEF Next

\* The state variables keep their types, with formatters, crashes and hand
\* edits in any number: in particular write never renames into place a file
\* no mutation touched, nor puts back bytes nobody read.
THEOREM TypeCorrect == Spec => []TypeOK
<1>1. LockInv => TypeOK
  BY DEF LockInv
<1>2. QED  BY LockInit, LockNext, <1>1, PTL DEF Spec

\* At most one transaction is open over a model root, whoever is killed,
\* whatever lock file could not be removed and whoever removes a stale one.
THEOREM MutualExclusion == Spec => []OneWriter
<1>1. LockInv => OneWriter
  BY DEF LockInv
<1>2. QED  BY LockInit, LockNext, <1>1, PTL DEF Spec

THEOREM LockInvariant == Spec => []LockInv
BY LockInit, LockNext, PTL DEF Spec

-----------------------------------------------------------------------------
(* The tree, where no formatter runs.                                      *)

\* Skipping the files whose new bytes are the old ones changes nothing which a
\* load would notice.
LEMMA AfterLoads ==
    ASSUME TypeOK, NEW t \in Proc, base[t] \in Trees
    PROVE  /\ After(t) \in Trees
           /\ Loads(After(t)) <=> Loads(Proposed(t))
<1>1. \A p \in Path : base[t][p] \in OnDisk /\ edit[t][p] \in Content \union {Untouched}
  BY DEF TypeOK, Trees, Canonical
<1>2. After(t) \in Trees
  BY <1>1 DEF After, Pending, Trees, OnDisk
<1>3. Proposed(t) \in Trees
  BY <1>1 DEF Proposed, Trees, OnDisk
<1>4. \A p \in Path : After(t)[p] # Proposed(t)[p] =>
                        {After(t)[p], Proposed(t)[p]} = {Absent, Empty}
  BY DEF After, Proposed, Pending
<1>5. QED  BY <1>2, <1>3, <1>4, LoadAssumption

\* Between two of its own steps a running transaction sees nothing change.
LEMMA OthersLeaveTree ==
    ASSUME LockInv, NEW t \in Proc, TxStep(t), NEW u \in Proc, u # t, Running(u)
    PROVE  disk' = disk /\ blame' = blame
<1>1. ~Running(t) /\ lock # NoOne
  BY Markers DEF LockInv, OneWriter
<1>2. QED
  BY <1>1 DEF Running, TxStep, Progress, Acquire, Mutate, Crash, Restart,
     Acquired, AcquireFails, ReadFile, Opened, BeginRefuses, CloseTx,
     CommitRefuses, DryRun, Prepare, StageFile, StageFails, Staged, RenameFile,
     RenameFails, Written, RestoreFile, RestoreFails, RolledBack, Release

\* Only the renames and the rollback change the tree.
LEMMA TreeStep ==
    ASSUME NEW t \in Proc, TxStep(t), ~RenameFile(t), ~RestoreFile(t)
    PROVE  disk' = disk
BY DEF TxStep, Progress, Acquire, Mutate, Crash, Restart, Acquired, AcquireFails,
   ReadFile, Opened, BeginRefuses, CloseTx, CommitRefuses, DryRun, Prepare,
   StageFile, StageFails, Staged, RenameFails, Written, RestoreFails, RolledBack,
   Release

\* A rename moves one file from the old tree to the new one.
LEMMA RenameKeeps ==
    ASSUME LockInv, NEW t \in Proc, DiskInv(t), RenameFile(t)
    PROVE  DiskInv(t)'
<1> USE DEF LockInv, TypeOK
<1>1. /\ Pending(t)' = Pending(t) /\ Proposed(t)' = Proposed(t)
      /\ pc[t] = "renaming" /\ UNCHANGED <<pc, base, edit, failed, blame>>
  BY DEF RenameFile, Pending, Proposed
<1>2. PICK p \in Path : /\ p \in tmp[t]
                        /\ disk' = [disk EXCEPT ![p] = edit[t][p]]
                        /\ tmp' = [tmp EXCEPT ![t] = @ \ {p}]
                        /\ renamed' = [renamed EXCEPT ![t] = @ \union {p}]
  BY DEF RenameFile, IsFirst
<1>3. tmp'[t] = tmp[t] \ {p} /\ renamed'[t] = renamed[t] \union {p}
  BY <1>2
<1>4. \A q \in Path : disk'[q] = IF q = p THEN edit[t][p] ELSE disk[q]
  BY <1>2 DEF Trees
<1>5. \A q \in Path :
         disk'[q] = IF q \in renamed'[t] \union failed'[t] THEN edit'[t][q] ELSE base'[t][q]
  BY <1>1, <1>3, <1>4 DEF DiskInv
<1>6. tmp'[t] \union renamed'[t] = Pending(t)' /\ tmp'[t] \cap renamed'[t] = {}
  BY <1>1, <1>2, <1>3 DEF DiskInv
<1>7. renamed'[t] \cap failed'[t] = {}
  BY <1>1, <1>3 DEF StageInv
<1>8. QED  BY <1>1, <1>5, <1>6, <1>7 DEF DiskInv

\* A restored file holds what it held when the transaction began.
LEMMA RestoreKeeps ==
    ASSUME LockInv, NEW t \in Proc, DiskInv(t), RestoreFile(t) \/ RestoreFails(t)
    PROVE  DiskInv(t)'
<1> USE DEF LockInv, TypeOK
<1>1. /\ pc[t] = "rollback" /\ UNCHANGED <<pc, base, edit, blame>>
  BY DEF RestoreFile, RestoreFails
<1>2. CASE RestoreFile(t)
  <2>1. PICK p \in Path :
          /\ renamed' = [renamed EXCEPT ![t] = @ \ {p}]
          /\ disk' = IF p \in renamed[t] THEN [disk EXCEPT ![p] = base[t][p]] ELSE disk
    BY <1>2 DEF RestoreFile
  <2>2. renamed'[t] = renamed[t] \ {p} /\ failed'[t] = failed[t]
    BY <1>2, <2>1 DEF RestoreFile
  <2>3. ASSUME NEW q \in Path
        PROVE  disk'[q] = IF q \in renamed'[t] \union failed'[t] THEN edit[t][q]
                                                              ELSE base[t][q]
    <3>1. CASE q = p /\ p \in renamed[t]
      <4>1. disk'[q] = base[t][q]
        BY <2>1, <3>1 DEF Trees
      <4>2. q \notin failed[t]
        BY <1>1, <3>1 DEF DiskInv
      <4>3. QED  BY <2>2, <3>1, <4>1, <4>2
    <3>2. CASE ~(q = p /\ p \in renamed[t])
      BY <1>1, <2>1, <2>2, <3>2 DEF DiskInv, Trees
    <3>3. QED  BY <3>1, <3>2
  <2>4. renamed'[t] \cap failed'[t] = {}
    BY <1>1, <2>2 DEF DiskInv
  <2>5. QED  BY <1>1, <2>3, <2>4 DEF DiskInv
<1>3. CASE RestoreFails(t)
  <2>1. PICK p \in renamed[t] : /\ renamed' = [renamed EXCEPT ![t] = @ \ {p}]
                                /\ failed' = [failed EXCEPT ![t] = @ \union {p}]
    BY <1>3 DEF RestoreFails
  <2>2. renamed'[t] \union failed'[t] = renamed[t] \union failed[t] /\ disk' = disk
    BY <1>3, <2>1 DEF RestoreFails
  <2>3. renamed'[t] \cap failed'[t] = {}
    BY <1>1, <2>1 DEF DiskInv
  <2>4. QED  BY <1>1, <2>2, <2>3 DEF DiskInv
<1>4. QED  BY <1>2, <1>3

LEMMA DiskOwn ==
    ASSUME LockInv, NEW t \in Proc, DiskInv(t), TreeLoads, TxStep(t)
    PROVE  DiskInv(t)'
<1> USE DEF LockInv, TypeOK, DiskInv
<1>1. CASE RenameFile(t)
  BY <1>1, RenameKeeps
<1>2. CASE RestoreFile(t) \/ RestoreFails(t)
  BY <1>2, RestoreKeeps
<1>3. CASE ReadFile(t)
  <2>1. PICK p \in Path : \E src \in {disk[p], Unreadable} :
            base' = [base EXCEPT ![t][p] = src]
    BY <1>3 DEF ReadFile
  <2>2. \A q \in Path : base'[t][q] \in {disk[q], Unread, Unreadable}
    BY <1>3, <2>1 DEF ReadFile
  <2>3. QED  BY <1>3, <2>2 DEF ReadFile
<1>4. CASE Acquired(t)
  <2>1. \A p \in Path : base[t][p] = Unread
    BY <1>4 DEF Acquired, StageInv, Nothing
  <2>2. QED  BY <1>4, <2>1 DEF Acquired
<1>5. CASE Opened(t)
  <2>1. \A p \in Path : base[t][p] = disk[p]
    BY <1>5, Markers DEF Opened, WasRead, Readable, OnDisk, MarkerAssumption
  <2>2. base[t] = disk
    BY <1>5, <2>1 DEF Opened, Readable, Trees
  <2>3. QED  BY <1>5, <2>2 DEF Opened
<1>6. CASE Mutate(t) \/ StageFile(t)
  <2>1. /\ pc[t] \in {"open", "staging"} /\ UNCHANGED <<pc, disk, base>>
        /\ pc[t] = "staging" => Proposed(t)' = Proposed(t)
    BY <1>6 DEF Mutate, StageFile, Proposed
  <2>2. QED  BY <2>1
<1>7. CASE Prepare(t)
  <2>1. Proposed(t)' = Proposed(t)
    BY <1>7 DEF Prepare, Proposed
  <2>2. QED  BY <1>7, <2>1 DEF Prepare
<1>8. CASE Staged(t)
  <2>1. /\ pc[t] = "staging" /\ pc'[t] = "renaming"
        /\ UNCHANGED <<disk, base, edit, tmp, renamed, failed, blame>>
        /\ Proposed(t)' = Proposed(t) /\ Pending(t)' = Pending(t)
    BY <1>8 DEF Staged, Proposed, Pending
  <2>2. renamed[t] = {} /\ failed[t] = {} /\ tmp[t] = Pending(t)
    BY <1>8, <2>1 DEF Staged, StageInv
  <2>3. blame = "none"
    <3>1. AtRest
      BY <2>1 DEF AtRest, OneWriter, Running
    <3>2. QED  BY <2>1, <3>1 DEF TreeLoads
  <2>4. QED  BY <2>1, <2>2, <2>3
<1>9. CASE RenameFails(t)
  BY <1>9 DEF RenameFails
<1>10. CASE BeginRefuses(t) \/ CloseTx(t) \/ CommitRefuses(t) \/ DryRun(t)
             \/ StageFails(t) \/ Written(t) \/ RolledBack(t)
  BY <1>10 DEF BeginRefuses, CloseTx, CommitRefuses, DryRun, StageFails, Written,
               RolledBack, EndWith
<1>11. CASE Acquire(t) \/ AcquireFails(t) \/ Release(t) \/ Crash(t) \/ Restart(t)
  BY <1>11 DEF Acquire, AcquireFails, Release, Crash, Restart
<1>12. QED
  BY <1>1, <1>2, <1>3, <1>4, <1>5, <1>6, <1>7, <1>8, <1>9, <1>10, <1>11
  DEF TxStep, Progress

\* Every way a call can end leaves the tree as its outcome says.
LEMMA OutcomeOwn ==
    ASSUME LockInv, NEW t \in Proc, DiskInv(t), TxStep(t), pc'[t] = "releasing"
    PROVE  ToldTheTruth(t)'
<1> USE DEF LockInv, TypeOK
<1>1. CASE BeginRefuses(t)
  <2>1. \A p \in Path : base[t][p] \in {disk[p], Unreadable}
    BY <1>1 DEF BeginRefuses, WasRead, DiskInv
  <2>2. QED  BY <1>1, <2>1 DEF BeginRefuses, EndWith, ToldTheTruth
<1>2. CASE CloseTx(t) \/ CommitRefuses(t) \/ DryRun(t) \/ StageFails(t)
  <2>1. /\ base[t] = disk /\ UNCHANGED <<disk, base>>
        /\ outcome'[t] \in {"closed", "dryrun", "failed", "refused"}
    BY <1>2 DEF CloseTx, CommitRefuses, DryRun, StageFails, EndWith, DiskInv
  <2>2. QED  BY <2>1 DEF ToldTheTruth
<1>3. CASE Written(t)
  <2>1. /\ pc[t] = "renaming" /\ outcome'[t] = "committed"
        /\ UNCHANGED <<disk, base, edit>> /\ renamed[t] = Pending(t) /\ failed[t] = {}
    BY <1>3 DEF Written, EndWith, DiskInv, StageInv
  <2>2. \A p \in Path : disk[p] = After(t)[p]
    BY <2>1 DEF DiskInv, After
  <2>3. disk = After(t) /\ After(t)' = After(t)
    BY <2>1, <2>2 DEF Trees, After, Pending
  <2>4. Loads(disk)
    BY <2>1, <2>3, AfterLoads DEF DiskInv, StageInv
  <2>5. QED  BY <2>1, <2>3, <2>4 DEF ToldTheTruth
<1>4. CASE RolledBack(t)
  <2>1. /\ pc[t] = "rollback" /\ renamed[t] = {} /\ base[t] \in Trees
        /\ outcome'[t] = IF failed[t] = {} THEN "failed" ELSE "rollbackError"
        /\ UNCHANGED <<disk, base, edit, failed>>
    BY <1>4 DEF RolledBack, EndWith, StageInv
  <2>2. \A p \in Path : disk[p] = IF p \in failed[t] THEN edit[t][p] ELSE base[t][p]
    BY <2>1 DEF DiskInv
  <2>3. failed[t] = {} => disk = base[t]
    BY <2>1, <2>2 DEF Trees
  <2>4. QED  BY <2>1, <2>2, <2>3 DEF ToldTheTruth
<1>5. QED
  BY <1>1, <1>2, <1>3, <1>4 DEF TxStep, Progress, Acquire, Mutate, Crash, Restart,
     Acquired, AcquireFails, ReadFile, Opened, Prepare, StageFile, Staged,
     RenameFile, RenameFails, RestoreFile, RestoreFails, Release

\* Only a step of a call which is at the end of its writing, or of a call which
\* is killed, can bring the tree to rest; every other one leaves it and its
\* history as they are.
LEMMA TreeLoadsTx ==
    ASSUME IInv, NEW t \in Proc, TxStep(t)
    PROVE  TreeLoads'
<1> SUFFICES ASSUME AtRest' PROVE (Loads(disk) <=> blame = "none")'
  BY DEF TreeLoads
<1> USE DEF IInv, LockInv, TypeOK
<1>1. CASE Crash(t)
  BY <1>1 DEF Crash, BlameIfBroken
<1>2. CASE RolledBack(t)
  BY <1>2 DEF RolledBack, BlameIfBroken
<1>3. CASE Written(t)
  <2>1. pc'[t] = "releasing" /\ outcome'[t] = "committed" /\ blame' = blame
    BY <1>3 DEF Written, EndWith
  <2>2. Loads(disk)'
    BY <2>1, OutcomeOwn DEF ToldTheTruth
  <2>3. blame = "none"
    BY <1>3 DEF Written, DiskInv
  <2>4. QED  BY <2>1, <2>2, <2>3
<1>4. CASE ~Crash(t) /\ ~RolledBack(t) /\ ~Written(t)
  <2>1. pc[t] \notin {"renaming", "rollback"}
    <3>1. pc'[t] \notin {"renaming", "rollback"}
      BY DEF AtRest
    <3>2. QED
      BY <1>4, <3>1 DEF TxStep, Progress, Acquire, Mutate, Restart, Acquired,
         AcquireFails, ReadFile, Opened, BeginRefuses, CloseTx, CommitRefuses,
         DryRun, Prepare, StageFile, StageFails, Staged, RenameFile, RenameFails,
         RestoreFile, RestoreFails, Release
  <2>2. AtRest
    BY <2>1, OthersKeep DEF AtRest
  <2>3. disk' = disk /\ blame' = blame
    BY <1>4, <2>1 DEF TxStep, Progress, Acquire, Mutate, Restart, Acquired,
         AcquireFails, ReadFile, Opened, BeginRefuses, CloseTx, CommitRefuses,
         DryRun, Prepare, StageFile, StageFails, Staged, RenameFile, RenameFails,
         RestoreFile, RestoreFails, Release
  <2>4. QED  BY <2>2, <2>3 DEF TreeLoads
<1>5. QED  BY <1>1, <1>2, <1>3, <1>4

\* A step of one transaction, for all of them.
LEMMA InvTx ==
    ASSUME IInv, NEW t \in Proc, TxStep(t)
    PROVE  IInv'
<1>1. LockInv'
  BY LockNext DEF IInv, Next
<1>2. ASSUME NEW u \in Proc, u # t
      PROVE  DiskInv(u)' /\ (pc'[u] = "releasing" => ToldTheTruth(u)')
  <2>1. /\ pc'[u] = pc[u] /\ base'[u] = base[u] /\ edit'[u] = edit[u]
        /\ tmp'[u] = tmp[u] /\ renamed'[u] = renamed[u]
        /\ failed'[u] = failed[u] /\ outcome'[u] = outcome[u]
    BY <1>2, OthersKeep DEF IInv, LockInv
  <2>2. /\ Pending(u)' = Pending(u) /\ Proposed(u)' = Proposed(u)
        /\ After(u)' = After(u)
    BY <2>1 DEF Pending, Proposed, After
  <2>3. CASE ~Running(u)
    BY <2>1, <2>3 DEF Running, DiskInv
  <2>4. CASE Running(u)
    <3>1. disk' = disk /\ blame' = blame
      BY <1>2, <2>4, OthersLeaveTree DEF IInv
    <3>2. DiskInv(u)'
      BY <2>1, <2>2, <3>1 DEF IInv, DiskInv
    <3>3. pc'[u] = "releasing" => ToldTheTruth(u)'
      BY <2>1, <2>2, <3>1 DEF IInv, OutcomeIsTrue, ToldTheTruth
    <3>4. QED  BY <3>2, <3>3
  <2>5. QED  BY <2>3, <2>4
<1>3. DiskInv(t)' /\ (pc'[t] = "releasing" => ToldTheTruth(t)')
  BY DiskOwn, OutcomeOwn DEF IInv
<1>4. OutcomeIsTrue'
  BY <1>2, <1>3 DEF OutcomeIsTrue
<1>5. QED  BY <1>1, <1>2, <1>3, <1>4, TreeLoadsTx DEF IInv

LEMMA InvInit == Init => IInv
<1> SUFFICES ASSUME Init PROVE IInv
  OBVIOUS
<1>1. LockInv
  BY LockInit
<1>2. (\A t \in Proc : DiskInv(t)) /\ OutcomeIsTrue
  BY DEF Init, DiskInv, OutcomeIsTrue
<1>3. TreeLoads
  BY DEF Init, TreeLoads
<1>4. QED  BY <1>1, <1>2, <1>3 DEF IInv

\* The operator's and the hand's steps happen while nothing is being written.
LEMMA InvOthers ==
    ASSUME IInv, ClearLock \/ HandEdit \/ UNCHANGED vars
    PROVE  IInv'
<1>1. LockInv'
  BY LockOthers DEF IInv
<1>2. UNCHANGED txVars
  BY DEF ClearLock, HandEdit, vars
<1>3. \A t \in Proc : /\ Pending(t)' = Pending(t) /\ Proposed(t)' = Proposed(t)
                      /\ After(t)' = After(t)
  BY <1>2 DEF Pending, Proposed, After, txVars
<1>4. CASE HandEdit
  <2>1. \A t \in Proc : ~Running(t)
    BY <1>4 DEF HandEdit
  <2>2. (\A t \in Proc : DiskInv(t)') /\ OutcomeIsTrue'
    BY <1>2, <2>1 DEF txVars, Running, DiskInv, OutcomeIsTrue
  <2>3. TreeLoads'
    BY <1>4 DEF HandEdit, BlameIfBroken, TreeLoads
  <2>4. QED  BY <1>1, <2>2, <2>3 DEF IInv
<1>5. CASE UNCHANGED <<disk, blame>>
  <2>1. \A t \in Proc : DiskInv(t)'
    BY <1>2, <1>3, <1>5 DEF IInv, DiskInv, txVars
  <2>2. OutcomeIsTrue'
    BY <1>2, <1>3, <1>5 DEF IInv, OutcomeIsTrue, ToldTheTruth, txVars
  <2>3. TreeLoads'
    BY <1>2, <1>5 DEF IInv, TreeLoads, AtRest, txVars
  <2>4. QED  BY <1>1, <2>1, <2>2, <2>3 DEF IInv
<1>6. QED  BY <1>4, <1>5 DEF ClearLock, vars

LEMMA InvNext ==
    ASSUME Formatter = {}
    PROVE  IInv /\ [Next]_vars => IInv'
<1> SUFFICES ASSUME IInv, [Next]_vars PROVE IInv'
  OBVIOUS
<1>1. CASE \E t \in Proc : TxStep(t)
  BY <1>1, InvTx
<1>2. QED  BY <1>1, InvOthers DEF Next

LEMMA Invariant == ASSUME Formatter = {} PROVE Spec => []IInv
BY InvInit, InvNext, PTL DEF Spec

\* Where no formatter runs, what every call reports is what it did to the
\* tree: all of the change, none of it, or exactly the files it names.
THEOREM Truthfulness == ASSUME Formatter = {} PROVE Spec => []OutcomeIsTrue
<1>1. IInv => OutcomeIsTrue
  BY DEF IInv
<1>2. QED  BY Invariant, <1>1, PTL

\* Where no formatter runs, the tree between changes loads, unless a hand, a
\* process killed in its renames or a failed rollback broke it.
THEOREM Loadability == ASSUME Formatter = {} PROVE Spec => []TreeLoads
<1>1. IInv => TreeLoads
  BY DEF IInv
<1>2. QED  BY Invariant, <1>1, PTL

-----------------------------------------------------------------------------
(* What a step may never do.                                               *)

\* Where no formatter runs, no committed change is lost: a rename replaces
\* exactly the bytes its transaction read.
THEOREM LostUpdates == ASSUME Formatter = {} PROVE Spec => NoLostUpdate
<1>1. ASSUME IInv, [Next]_vars, NEW t \in Proc, NEW p \in Path,
             pc[t] = "renaming", disk'[p] # disk[p]
      PROVE  disk[p] = base[t][p]
  <2>1. PICK u \in Proc : TxStep(u)
    BY <1>1 DEF Next, ClearLock, HandEdit, Running, vars
  <2>2. u = t
    BY <1>1, <2>1, OthersLeaveTree DEF IInv, Running
  <2>3. RenameFile(t)
    BY <1>1, <2>1, <2>2, TreeStep DEF RestoreFile
  <2>4. PICK q \in tmp[t] : disk' = [disk EXCEPT ![q] = edit[t][q]]
    BY <2>3 DEF RenameFile, IsFirst
  <2>5. p = q
    BY <1>1, <2>4 DEF IInv, LockInv, TypeOK, Trees
  <2>6. p \notin renamed[t] \union failed[t]
    BY <1>1, <2>4, <2>5 DEF IInv, LockInv, DiskInv, StageInv
  <2>7. QED  BY <1>1, <2>6 DEF IInv, DiskInv
<1>2. IInv /\ [Next]_vars =>
        [\A t \in Proc, p \in Path :
           pc[t] = "renaming" /\ disk'[p] # disk[p] => disk[p] = base[t][p]]_vars
  BY <1>1
<1>3. QED  BY Invariant, <1>2, PTL DEF Spec, NoLostUpdate

\* Where no formatter runs, no change to a tree which does not load reaches its
\* renames.
THEOREM BrokenTrees == ASSUME Formatter = {} PROVE Spec => BrokenTreeLeftAlone
<1>1. ASSUME IInv, [Next]_vars, AtRest, ~Loads(disk), NEW u \in Proc
      PROVE  pc'[u] \notin {"renaming", "rollback"}
  <2>1. pc[u] \notin {"renaming", "rollback"}
    BY <1>1 DEF AtRest
  <2>2. CASE TxStep(u)
    <3>1. pc[u] # "staging"
      BY <1>1 DEF IInv, DiskInv
    <3>2. QED
      BY <1>1, <2>1, <2>2, <3>1 DEF IInv, LockInv, TypeOK, TxStep, Progress, Acquire,
         Mutate, Crash, Restart, Acquired, AcquireFails, ReadFile, Opened,
         BeginRefuses, CloseTx, CommitRefuses, DryRun, Prepare, StageFile,
         StageFails, Staged, RenameFile, RenameFails, Written, RestoreFile,
         RestoreFails, RolledBack, Release, EndWith
  <2>3. CASE \E t \in Proc : t # u /\ TxStep(t)
    BY <1>1, <2>1, <2>3, OthersKeep DEF IInv, LockInv
  <2>4. CASE UNCHANGED pc
    BY <2>1, <2>4
  <2>5. QED
    BY <1>1, <2>2, <2>3, <2>4 DEF Next, ClearLock, HandEdit, txVars, vars
<1>2. IInv /\ [Next]_vars => [AtRest /\ ~Loads(disk) => AtRest']_vars
  BY <1>1 DEF AtRest
<1>3. QED  BY Invariant, <1>2, PTL DEF Spec, BrokenTreeLeftAlone

-----------------------------------------------------------------------------
(* The tree, where formatters run.                                         *)

\* However many of its files a formatter has printed, a tree loads or not as it
\* did: there is no first file whose printing makes the difference.
LEMMA ReprintedLoads ==
    ASSUME NEW s \in Trees, NEW t \in Trees, \A p \in Path : Reprints(s[p], t[p])
    PROVE  Loads(t) <=> Loads(s)
<1> DEFINE mix(n) == [p \in Path |-> IF p <= n THEN t[p] ELSE s[p]]
           bad == {n \in 0..NumPaths : ~(Loads(mix(n)) <=> Loads(s))}
<1>1. NumPaths \in Nat /\ Path = 1..NumPaths
  BY PathAssumption DEF Path
<1>2. \A n \in Nat : mix(n) \in Trees
  BY DEF Trees
<1>3. mix(0) = s
  <2>1. \A p \in Path : mix(0)[p] = s[p]
    BY <1>1
  <2>2. QED  BY <2>1, <1>2 DEF Trees
<1>4. mix(NumPaths) = t
  <2>1. \A p \in Path : mix(NumPaths)[p] = t[p]
    BY <1>1
  <2>2. QED  BY <2>1, <1>1, <1>2 DEF Trees
<1>5. ASSUME NEW n \in 1..NumPaths
      PROVE  Loads(mix(n)) <=> Loads(mix(n - 1))
  <2>1. n \in Path /\ n - 1 \in Nat /\ n \in Nat
    BY <1>1
  <2>2. mix(n - 1) \in Trees /\ mix(n) \in Trees
    BY <1>2, <2>1
  <2>3. mix(n - 1)[n] = s[n] /\ mix(n)[n] = t[n]
    BY <2>1
  <2>4. \A p \in Path : p # n => mix(n)[p] = mix(n - 1)[p]
    BY <1>1, <2>1
  <2>5. mix(n) = [mix(n - 1) EXCEPT ![n] = t[n]]
    BY <2>1, <2>3, <2>4
  <2> HIDE DEF mix
  <2>6. CASE t[n] = s[n]
    BY <2>1, <2>2, <2>3, <2>5, <2>6 DEF Trees
  <2>7. CASE s[n] \in Content /\ t[n] = Printed(s[n])
    BY <2>1, <2>2, <2>3, <2>5, <2>7, LoadAssumption
  <2>8. QED  BY <2>1, <2>6, <2>7 DEF Reprints
<1> HIDE DEF mix
<1>6. bad = {}
  <2> SUFFICES ASSUME bad # {} PROVE FALSE
    OBVIOUS
  <2>1. bad \in SUBSET Nat
    BY <1>1
  <2>2. PICK n \in bad : \A m \in bad : ~(<<m, n>> \in OpToRel(<, Nat))
    BY <2>1, NatLessThanWellFounded, WFMin
  <2>3. \A m \in bad : ~(m < n)
    BY <2>1, <2>2 DEF OpToRel
  <2>4. n \in 0..NumPaths /\ n # 0
    BY <1>3
  <2>5. n \in 1..NumPaths /\ n - 1 \in 0..NumPaths /\ n - 1 < n
    BY <1>1, <2>4
  <2>6. n - 1 \notin bad
    BY <2>3, <2>5
  <2>7. Loads(mix(n)) <=> Loads(s)
    BY <2>5, <2>6, <1>5
  <2>8. QED  BY <2>7
<1>7. NumPaths \in 0..NumPaths
  BY <1>1
<1>8. QED  BY <1>4, <1>6, <1>7

\* What is printed once is canonical, and printing it again changes nothing.
LEMMA ReprintsOn ==
    ASSUME NEW a, NEW b, Reprints(a, b), b \in Content
    PROVE  Reprints(a, Printed(b))
BY PrintAssumption DEF Reprints

LEMMA DriftInit == Init => DInv
<1> SUFFICES ASSUME Init PROVE DInv
  OBVIOUS
<1>1. \A t \in Proc : DriftInv(t)
  BY DEF Init, DriftInv
<1>2. QED  BY <1>1, LockInit DEF Init, DInv, LoadsUnlessBlamed

\* A rename replaces one file by what was printed for it.
LEMMA RenameDrifts ==
    ASSUME LockInv, NEW t \in Proc, DriftInv(t), RenameFile(t)
    PROVE  DriftInv(t)'
<1> USE DEF LockInv, TypeOK
<1>1. /\ Pending(t)' = Pending(t) /\ Proposed(t)' = Proposed(t)
      /\ pc[t] = "renaming" /\ UNCHANGED <<pc, base, edit, failed, blame>>
  BY DEF RenameFile, Pending, Proposed
<1>2. PICK p \in Path : /\ p \in tmp[t]
                        /\ disk' = [disk EXCEPT ![p] = edit[t][p]]
                        /\ tmp' = [tmp EXCEPT ![t] = @ \ {p}]
                        /\ renamed' = [renamed EXCEPT ![t] = @ \union {p}]
  BY DEF RenameFile, IsFirst
<1>3. tmp'[t] = tmp[t] \ {p} /\ renamed'[t] = renamed[t] \union {p}
  BY <1>2
<1>4. \A q \in Path : disk'[q] = IF q = p THEN edit[t][p] ELSE disk[q]
  BY <1>2 DEF Trees
<1>5. tmp'[t] \union renamed'[t] = Pending(t)'
  BY <1>1, <1>2, <1>3 DEF DriftInv
<1>6. blame = "none" => \A q \in Path :
         IF q \in renamed'[t] THEN disk'[q] = edit'[t][q]
                              ELSE Reprints(base'[t][q], disk'[q])
  BY <1>1, <1>3, <1>4 DEF DriftInv
<1>7. QED  BY <1>1, <1>5, <1>6 DEF DriftInv

LEMMA DriftOwn ==
    ASSUME LockInv, NEW t \in Proc, DriftInv(t), TxStep(t)
    PROVE  DriftInv(t)'
<1> USE DEF LockInv, TypeOK, DriftInv
<1>1. CASE RenameFile(t)
  BY <1>1, RenameDrifts
<1>2. CASE RestoreFile(t) \/ RestoreFails(t) \/ RenameFails(t)
  BY <1>2 DEF RestoreFile, RestoreFails, RenameFails
<1>3. CASE ReadFile(t)
  <2>1. PICK p \in Path : \E src \in {disk[p], Unreadable} :
            base' = [base EXCEPT ![t][p] = src]
    BY <1>3 DEF ReadFile
  <2>2. UNCHANGED <<pc, disk, blame>> /\ pc[t] = "reading"
    BY <1>3 DEF ReadFile
  <2>3. blame = "none" => \A q \in Path :
           base'[t][q] \in {Unread, Unreadable} \/ Reprints(base'[t][q], disk[q])
    BY <2>1, <2>2 DEF Reprints
  <2>4. QED  BY <2>2, <2>3
<1>4. CASE Acquired(t)
  <2>1. \A p \in Path : base[t][p] = Unread
    BY <1>4 DEF Acquired, StageInv, Nothing
  <2>2. QED  BY <1>4, <2>1 DEF Acquired
<1>5. CASE Opened(t)
  <2>1. /\ pc[t] = "reading" /\ pc'[t] = "open" /\ UNCHANGED <<base, disk, blame>>
        /\ \A p \in Path : base[t][p] \notin {Unread, Unreadable}
    BY <1>5, Markers DEF Opened, WasRead, Readable, OnDisk
  <2>2. QED  BY <2>1
<1>6. CASE Mutate(t) \/ StageFile(t)
  <2>1. /\ pc[t] \in {"open", "staging"} /\ UNCHANGED <<pc, disk, base, blame>>
        /\ pc[t] = "staging" => Proposed(t)' = Proposed(t)
    BY <1>6 DEF Mutate, StageFile, Proposed
  <2>2. QED  BY <2>1
<1>7. CASE Prepare(t)
  <2>1. Proposed(t)' = Proposed(t)
    BY <1>7 DEF Prepare, Proposed
  <2>2. QED  BY <1>7, <2>1 DEF Prepare
<1>8. CASE Staged(t)
  <2>1. /\ pc[t] = "staging" /\ pc'[t] = "renaming"
        /\ UNCHANGED <<disk, base, edit, tmp, renamed, blame>>
        /\ Proposed(t)' = Proposed(t) /\ Pending(t)' = Pending(t)
    BY <1>8 DEF Staged, Proposed, Pending
  <2>2. renamed[t] = {} /\ tmp[t] = Pending(t)
    BY <1>8, <2>1 DEF Staged, StageInv
  <2>3. QED  BY <2>1, <2>2
<1>9. CASE BeginRefuses(t) \/ CloseTx(t) \/ CommitRefuses(t) \/ DryRun(t)
             \/ StageFails(t) \/ Written(t) \/ RolledBack(t)
  BY <1>9 DEF BeginRefuses, CloseTx, CommitRefuses, DryRun, StageFails, Written,
              RolledBack, EndWith
<1>10. CASE Acquire(t) \/ AcquireFails(t) \/ Release(t) \/ Crash(t) \/ Restart(t)
  BY <1>10 DEF Acquire, AcquireFails, Release, Crash, Restart
<1>11. QED
  BY <1>1, <1>2, <1>3, <1>4, <1>5, <1>6, <1>7, <1>8, <1>9, <1>10
  DEF TxStep, Progress

\* A commit which nobody is to blame for has left the tree it interpreted, with
\* some of its files printed since.
LEMMA WrittenLoads ==
    ASSUME LockInv, NEW t \in Proc, DriftInv(t), Written(t), blame = "none"
    PROVE  Loads(disk')
<1>1. /\ pc[t] = "renaming" /\ tmp[t] = {} /\ disk' = disk
  BY DEF Written
<1>2. base[t] \in Trees /\ disk \in Trees
  BY <1>1 DEF LockInv, StageInv, TypeOK
<1>3. renamed[t] = Pending(t) /\ Loads(Proposed(t))
  BY <1>1 DEF DriftInv
<1>4. Loads(After(t)) /\ After(t) \in Trees
  BY <1>2, <1>3, AfterLoads DEF LockInv
<1>5. \A p \in Path : Reprints(After(t)[p], disk[p])
  BY <1>1, <1>3 DEF DriftInv, After, Reprints
<1>6. QED  BY <1>1, <1>2, <1>4, <1>5, ReprintedLoads

LEMMA UnblamedTx ==
    ASSUME DInv, NEW t \in Proc, TxStep(t)
    PROVE  LoadsUnlessBlamed'
<1> SUFFICES ASSUME AtRest', blame' = "none" PROVE Loads(disk')
  BY DEF LoadsUnlessBlamed
<1> USE DEF DInv, LockInv, TypeOK
<1>1. CASE Crash(t)
  BY <1>1 DEF Crash, BlameIfBroken
<1>2. CASE RolledBack(t)
  BY <1>2 DEF RolledBack, BlameIfBroken
<1>3. CASE Written(t)
  BY <1>3, WrittenLoads DEF Written
<1>4. CASE ~Crash(t) /\ ~RolledBack(t) /\ ~Written(t)
  <2>1. pc[t] \notin {"renaming", "rollback"}
    <3>1. pc'[t] \notin {"renaming", "rollback"}
      BY DEF AtRest
    <3>2. QED
      BY <1>4, <3>1 DEF TxStep, Progress, Acquire, Mutate, Restart, Acquired,
         AcquireFails, ReadFile, Opened, BeginRefuses, CloseTx, CommitRefuses,
         DryRun, Prepare, StageFile, StageFails, Staged, RenameFile, RenameFails,
         RestoreFile, RestoreFails, Release
  <2>2. AtRest
    BY <2>1, OthersKeep DEF AtRest
  <2>3. disk' = disk /\ blame' = blame
    BY <1>4, <2>1 DEF TxStep, Progress, Acquire, Mutate, Restart, Acquired,
         AcquireFails, ReadFile, Opened, BeginRefuses, CloseTx, CommitRefuses,
         DryRun, Prepare, StageFile, StageFails, Staged, RenameFile, RenameFails,
         RestoreFile, RestoreFails, Release
  <2>4. QED  BY <2>2, <2>3 DEF LoadsUnlessBlamed
<1>5. QED  BY <1>1, <1>2, <1>3, <1>4

\* A step of one transaction, for all of them.
LEMMA DriftTx ==
    ASSUME DInv, NEW t \in Proc, TxStep(t)
    PROVE  DInv'
<1>1. LockInv'
  BY LockNext DEF DInv, Next
<1>2. ASSUME NEW u \in Proc, u # t
      PROVE  DriftInv(u)'
  <2>1. /\ pc'[u] = pc[u] /\ base'[u] = base[u] /\ edit'[u] = edit[u]
        /\ tmp'[u] = tmp[u] /\ renamed'[u] = renamed[u]
    BY <1>2, OthersKeep DEF DInv, LockInv
  <2>2. Pending(u)' = Pending(u) /\ Proposed(u)' = Proposed(u)
    BY <2>1 DEF Pending, Proposed
  <2>3. CASE ~Running(u)
    BY <2>1, <2>3 DEF Running, DriftInv
  <2>4. CASE Running(u)
    <3>1. disk' = disk /\ blame' = blame
      BY <1>2, <2>4, OthersLeaveTree DEF DInv
    <3>2. QED  BY <2>1, <2>2, <3>1 DEF DInv, DriftInv
  <2>5. QED  BY <2>3, <2>4
<1>3. DriftInv(t)'
  BY DriftOwn DEF DInv
<1>4. QED  BY <1>1, <1>2, <1>3, UnblamedTx DEF DInv

\* A formatter which writes what is still there to be written changes one file
\* to what it prints to; one which writes over anything else is to blame.
LEMMA DriftFmt ==
    ASSUME DInv, NEW f \in Formatter, FmtWrite(f)
    PROVE  DInv'
<1> USE DEF DInv, LockInv, TypeOK
<1>1. LockInv'
  BY LockNext DEF Next, FmtStep
<1>2. UNCHANGED txVars /\ AtRest' = AtRest
  BY DEF FmtWrite, AtRest, txVars
<1>3. \A t \in Proc : Pending(t)' = Pending(t) /\ Proposed(t)' = Proposed(t)
  BY <1>2 DEF Pending, Proposed, txVars
<1>4. CASE blame' # "none"
  BY <1>1, <1>2, <1>3, <1>4 DEF DriftInv, LoadsUnlessBlamed, txVars
<1>5. CASE blame' = "none"
  <2> DEFINE p == fmt[f].path
  <2>1. blame = "none" /\ disk[p] = fmt[f].src
    BY <1>5 DEF FmtWrite
  <2>2. p \in Path /\ disk[p] \in Content
    BY <2>1 DEF FmtWrite
  <2>3. disk' = [disk EXCEPT ![p] = Printed(disk[p])]
    BY <2>1 DEF FmtWrite
  <2> HIDE DEF p
  <2>4. Loads(disk') <=> Loads(disk)
    BY <2>2, <2>3, LoadAssumption
  <2>5. \A q \in Path : disk'[q] = IF q = p THEN Printed(disk[p]) ELSE disk[q]
    BY <2>2, <2>3 DEF Trees
  <2>6. \A old : \A q \in Path : Reprints(old, disk[q]) => Reprints(old, disk'[q])
    BY <2>2, <2>5, ReprintsOn
  <2>7. ASSUME NEW t \in Proc, pc[t] = "renaming", NEW q \in renamed[t]
        PROVE  q \in Path /\ disk'[q] = edit[t][q]
    <3>1. q \in Path /\ disk[q] = edit[t][q]
      BY <2>1, <2>7 DEF DriftInv
    <3>2. q \in Pending(t)
      BY <2>7 DEF DriftInv
    <3>3. Printed(edit[t][q]) = edit[t][q]
      BY <3>2, PendingIsEdited DEF Canonical
    <3>4. QED  BY <2>5, <3>1, <3>3
  <2>8. ASSUME NEW t \in Proc PROVE DriftInv(t)'
    BY <1>2, <1>3, <2>1, <2>6, <2>7 DEF DriftInv, txVars
  <2>9. LoadsUnlessBlamed'
    BY <1>2, <2>1, <2>4 DEF LoadsUnlessBlamed
  <2>10. QED  BY <1>1, <2>8, <2>9
<1>6. QED  BY <1>4, <1>5

LEMMA DriftOthers ==
    ASSUME DInv, \/ \E f \in Formatter : FmtRead(f) \/ FmtFails(f)
                 \/ ClearLock \/ HandEdit \/ UNCHANGED vars
    PROVE  DInv'
<1>1. LockInv'
  BY LockNext DEF DInv, Next, FmtStep
<1>2. UNCHANGED txVars
  BY DEF FmtRead, FmtFails, ClearLock, HandEdit, vars
<1>3. \A t \in Proc : Pending(t)' = Pending(t) /\ Proposed(t)' = Proposed(t)
  BY <1>2 DEF Pending, Proposed, txVars
<1>4. CASE HandEdit
  <2>1. \A t \in Proc : ~Running(t)
    BY <1>4 DEF HandEdit
  <2>2. \A t \in Proc : DriftInv(t)'
    BY <1>2, <2>1 DEF txVars, Running, DriftInv
  <2>3. LoadsUnlessBlamed'
    BY <1>4 DEF HandEdit, BlameIfBroken, LoadsUnlessBlamed
  <2>4. QED  BY <1>1, <2>2, <2>3 DEF DInv
<1>5. CASE UNCHANGED <<disk, blame>>
  <2>1. \A t \in Proc : DriftInv(t)'
    BY <1>2, <1>3, <1>5 DEF DInv, DriftInv, txVars
  <2>2. LoadsUnlessBlamed'
    BY <1>2, <1>5 DEF DInv, LoadsUnlessBlamed, AtRest, txVars
  <2>3. QED  BY <1>1, <2>1, <2>2 DEF DInv
<1>6. QED  BY <1>4, <1>5 DEF FmtRead, FmtFails, ClearLock, vars

\* With any number of formatters, each of which may write at any moment of any
\* transaction, the tree between changes loads unless a hand, a killed process,
\* a failed rollback or a formatter which wrote over what it had not read has
\* made it unloadable.
THEOREM FormattersAreBlamed == Spec => []LoadsUnlessBlamed
<1>1. DInv /\ [Next]_vars => DInv'
  BY DriftTx, DriftFmt, DriftOthers DEF Next, FmtStep
<1>2. DInv => LoadsUnlessBlamed
  BY DEF DInv
<1>3. QED  BY DriftInit, <1>1, <1>2, PTL DEF Spec

-----------------------------------------------------------------------------
(* The promise.                                                            *)

LEMMA AtomicInit == Init => Atomic!Init
BY Markers DEF Init, Atomic!Init, Atomic!Trees, Trees, AbstractTree, AbstractIntent,
   AbstractTold

\* What the promise sees while t runs, and while whoever made the lock does not.
LEMMA AbstractRunning ==
    ASSUME IInv, NEW t \in Proc, Running(t)
    PROVE  /\ lock = t /\ lock # NoOne
           /\ AbstractTree = IF InFlux(t) THEN base[t] ELSE disk
           /\ AbstractIntent = IF Writing(t) THEN After(t) ELSE NoIntent
           /\ pc[t] # "releasing" => AbstractTold = "nothing"
           /\ Writing(t) => After(t) \in Trees /\ After(t) # NoIntent
<1>1. lock = t /\ lock # NoOne
  BY Markers DEF IInv, LockInv, OneWriter
<1>2. Writing(t) => After(t) \in Trees /\ After(t) # NoIntent
  BY AfterLoads, IntentAssumption DEF IInv, LockInv, StageInv, Writing
<1>3. QED
  BY <1>1, <1>2 DEF AbstractTree, AbstractIntent, AbstractTold

LEMMA AbstractIdle ==
    ASSUME lock = NoOne \/ (lock \in Proc /\ ~Running(lock))
    PROVE  AbstractTree = disk /\ AbstractIntent = NoIntent /\ AbstractTold = "nothing"
BY Markers DEF AbstractTree, AbstractIntent, AbstractTold, InFlux, Writing, Running

\* The steps the promise does not see.
LEMMA AtomicStutters ==
    ASSUME IInv, IInv', NEW t \in Proc,
           \/ Acquired(t) \/ ReadFile(t) \/ Opened(t) \/ Mutate(t)
           \/ StageFile(t) \/ Staged(t) \/ RenameFile(t) \/ RenameFails(t)
           \/ RestoreFile(t) \/ RestoreFails(t)
    PROVE  UNCHANGED Atomic!avars
<1> USE DEF IInv, LockInv, TypeOK
<1>1. CASE Acquired(t) \/ ReadFile(t) \/ Opened(t) \/ Mutate(t)
  <2>1. /\ Running(t) /\ Running(t)' /\ UNCHANGED <<lock, disk>>
        /\ ~InFlux(t) /\ ~InFlux(t)' /\ ~Writing(t) /\ ~Writing(t)'
        /\ pc[t] # "releasing" /\ pc'[t] # "releasing"
    BY <1>1 DEF Acquired, ReadFile, Opened, Mutate, Running, InFlux, Writing
  <2>2. QED
    BY <2>1, AbstractRunning DEF Atomic!avars, AbstractTree, AbstractIntent, AbstractTold
<1>2. CASE StageFile(t) \/ Staged(t) \/ RenameFile(t) \/ RenameFails(t)
           \/ RestoreFile(t) \/ RestoreFails(t)
  <2>1. /\ Running(t) /\ Running(t)' /\ UNCHANGED <<lock, base, edit>>
        /\ Writing(t) /\ Writing(t)'
        /\ pc[t] # "releasing" /\ pc'[t] # "releasing"
    BY <1>2 DEF StageFile, Staged, RenameFile, RenameFails, RestoreFile,
         RestoreFails, Running, Writing
  <2>2. After(t)' = After(t)
    BY <2>1 DEF After, Pending
  <2>3. (IF InFlux(t) THEN base[t] ELSE disk)' = IF InFlux(t) THEN base[t] ELSE disk
    BY <1>2, <2>1 DEF StageFile, Staged, RenameFile, RenameFails, RestoreFile,
         RestoreFails, InFlux, DiskInv
  <2>4. lock = t /\ lock' = t
    BY <2>1, AbstractRunning
  <2>5. AbstractTree' = (IF InFlux(t) THEN base[t] ELSE disk)'
    BY <2>4 DEF AbstractTree, OneWriter
  <2>6. AbstractIntent' = After(t)' /\ AbstractTold' = "nothing"
    BY <2>1, <2>4 DEF AbstractIntent, AbstractTold
  <2>7. QED
    BY <2>1, <2>2, <2>3, <2>4, <2>5, <2>6, AbstractRunning DEF Atomic!avars
<1>3. QED  BY <1>1, <1>2

\* A call which ends is a change which landed, one which was declined, or one
\* which was torn.
LEMMA AtomicEnds ==
    ASSUME IInv, IInv', NEW t \in Proc, Running(t), pc[t] # "releasing",
           pc'[t] = "releasing", UNCHANGED <<disk, lock, base, edit, failed>>
    PROVE  /\ AbstractTree' = disk /\ AbstractIntent' = NoIntent
           /\ outcome'[t] = "committed" => AbstractTold' = "landed"
           /\ outcome'[t] = "rollbackError" => AbstractTold' = "torn"
           /\ outcome'[t] \notin {"committed", "rollbackError"} =>
                AbstractTold' = "unchanged"
<1>1. lock = t /\ lock' = t
  BY AbstractRunning
<1>2. QED
  BY <1>1 DEF AbstractTree, AbstractIntent, AbstractTold, InFlux, Writing

LEMMA AtomicDeclines ==
    ASSUME IInv, IInv', NEW t \in Proc,
           \/ BeginRefuses(t) \/ CloseTx(t) \/ CommitRefuses(t) \/ DryRun(t)
           \/ StageFails(t)
    PROVE  Atomic!Decline
<1> USE DEF IInv, LockInv, TypeOK
<1>1. /\ Running(t) /\ pc[t] # "releasing" /\ pc'[t] = "releasing" /\ ~InFlux(t)
      /\ UNCHANGED <<disk, lock, base, edit, failed>>
      /\ outcome'[t] \notin {"committed", "rollbackError"}
  BY DEF BeginRefuses, CloseTx, CommitRefuses, DryRun, StageFails, EndWith, Running,
         InFlux
<1>2. QED
  BY <1>1, AtomicEnds, AbstractRunning DEF Atomic!Decline

LEMMA AtomicLands ==
    ASSUME IInv, IInv', NEW t \in Proc, Written(t)
    PROVE  Atomic!Land
<1> USE DEF IInv, LockInv, TypeOK
<1>1. /\ Running(t) /\ pc[t] = "renaming" /\ pc'[t] = "releasing" /\ Writing(t)
      /\ UNCHANGED <<disk, lock, base, edit, failed>> /\ outcome'[t] = "committed"
  BY DEF Written, EndWith, Running, Writing
<1>2. disk' = After(t)' /\ After(t)' = After(t)
  BY <1>1 DEF OutcomeIsTrue, ToldTheTruth, After, Pending
<1>3. QED
  BY <1>1, <1>2, AtomicEnds, AbstractRunning DEF Atomic!Land

\* A rollback which put everything back declined; one which did not tore.
LEMMA AtomicRollsBack ==
    ASSUME IInv, IInv', NEW t \in Proc, RolledBack(t)
    PROVE  Atomic!Decline \/ Atomic!Tear
<1> USE DEF IInv, LockInv, TypeOK
<1>1. /\ Running(t) /\ pc[t] = "rollback" /\ pc'[t] = "releasing"
      /\ Writing(t) /\ InFlux(t) /\ renamed[t] = {}
      /\ UNCHANGED <<disk, lock, base, edit, failed>>
      /\ outcome'[t] = IF failed[t] = {} THEN "failed" ELSE "rollbackError"
  BY DEF RolledBack, EndWith, Running, Writing, InFlux, StageInv
<1>2. CASE failed[t] = {}
  <2>1. disk = base[t]
    BY <1>1, <1>2 DEF OutcomeIsTrue, ToldTheTruth
  <2>2. QED
    BY <1>1, <1>2, <2>1, AtomicEnds, AbstractRunning DEF Atomic!Decline
<1>3. CASE failed[t] # {}
  <2>1. \A p \in Path : disk[p] \in {base[t][p], After(t)[p]}
    BY <1>1 DEF DiskInv, StageInv, After
  <2>2. disk \in Atomic!Mixture(base[t], After(t))
    BY <2>1 DEF Atomic!Mixture, Atomic!Trees, Trees
  <2>3. QED
    BY <1>1, <1>3, <2>2, AtomicEnds, AbstractRunning DEF Atomic!Tear
<1>4. QED  BY <1>2, <1>3

\* A killed process leaves a mixture only if it was killed while renaming.
LEMMA AtomicKills ==
    ASSUME IInv, IInv', NEW t \in Proc, Crash(t)
    PROVE  Atomic!Kill
<1> USE DEF IInv, LockInv, TypeOK
<1>1. Running(t) /\ pc'[t] = "dead" /\ UNCHANGED <<disk, lock>>
  BY DEF Crash
<1>2. lock = t /\ lock' = t
  BY <1>1, AbstractRunning
<1>3. AbstractTree' = disk /\ AbstractIntent' = NoIntent /\ AbstractTold' = "nothing"
  BY <1>1, <1>2 DEF AbstractTree, AbstractIntent, AbstractTold, InFlux, Writing
<1>4. CASE ~Writing(t)
  BY <1>1, <1>2, <1>3, <1>4, AbstractRunning DEF Atomic!Kill, InFlux, Writing
<1>5. CASE Writing(t)
  <2>1. base[t] \in Trees /\ After(t) \in Trees
    BY <1>5, AfterLoads DEF Writing, StageInv
  <2>2. \A p \in Path : disk[p] \in {base[t][p], After(t)[p]}
    BY <1>5 DEF Writing, DiskInv, StageInv, After
  <2>3. disk \in Atomic!Mixture(base[t], After(t))
    BY <2>2 DEF Atomic!Mixture, Atomic!Trees, Trees
  <2>4. disk \in Atomic!Mixture(disk, After(t))
    BY DEF Atomic!Mixture, Atomic!Trees, Trees
  <2>5. QED
    BY <1>1, <1>2, <1>3, <1>5, <2>3, <2>4, AbstractRunning DEF Atomic!Kill
<1>6. QED  BY <1>4, <1>5

LEMMA AtomicTx ==
    ASSUME IInv, IInv', NEW t \in Proc, TxStep(t)
    PROVE  Atomic!Next \/ UNCHANGED Atomic!avars
<1> USE DEF IInv, LockInv, TypeOK
<1>1. CASE Acquire(t)
  <2>0. lock = NoOne
    BY <1>1 DEF Acquire
  <2>1. AbstractTree = disk /\ AbstractIntent = NoIntent /\ AbstractTold = "nothing"
    BY <2>0, Markers DEF AbstractTree, AbstractIntent, AbstractTold
  <2>2. /\ lock' = t /\ pc'[t] = "locking" /\ disk' = disk
    BY <1>1 DEF Acquire
  <2>3. AbstractTree' = disk /\ AbstractIntent' = NoIntent /\ AbstractTold' = "nothing"
    BY <2>2 DEF AbstractTree, AbstractIntent, AbstractTold, InFlux, Writing
  <2>4. Atomic!Take(t)
    BY <1>1, <2>1, <2>2, <2>3 DEF Acquire, Atomic!Take
  <2>5. QED  BY <2>4 DEF Atomic!Next
<1>2. CASE Prepare(t)
  <2>1. /\ Running(t) /\ Running(t)' /\ ~Writing(t) /\ ~InFlux(t) /\ Writing(t)'
        /\ ~InFlux(t)' /\ UNCHANGED <<disk, lock, base, edit>>
        /\ pc[t] = "open" /\ pc'[t] = "staging"
    BY <1>2 DEF Prepare, Running, Writing, InFlux
  <2>2. After(t)' = After(t) /\ After(t) \in Trees /\ Loads(After(t)) /\ Loads(disk)
    BY <1>2, <2>1, AfterLoads DEF Prepare, After, Pending, StageInv, DiskInv
  <2>3. lock = t /\ lock' = t
    BY <2>1, AbstractRunning
  <2>4. AbstractTree' = disk /\ AbstractIntent' = After(t) /\ AbstractTold' = "nothing"
    BY <2>1, <2>2, <2>3 DEF AbstractTree, AbstractIntent, AbstractTold
  <2>5. Atomic!Intend
    BY <2>1, <2>2, <2>3, <2>4, AbstractRunning DEF Atomic!Intend, Atomic!Trees, Trees
  <2>6. QED  BY <2>5 DEF Atomic!Next
<1>3. CASE AcquireFails(t) \/ Release(t)
  <2>1. /\ Running(t) /\ ~Running(t)' /\ ~Writing(t) /\ ~InFlux(t)
        /\ disk' = disk /\ lock' \in {NoOne, t}
    BY <1>3 DEF AcquireFails, Release, Running, Writing, InFlux
  <2>2. AbstractTree' = disk /\ AbstractIntent' = NoIntent /\ AbstractTold' = "nothing"
    BY <2>1, Markers DEF AbstractTree, AbstractIntent, AbstractTold, InFlux, Writing, Running
  <2>3. Atomic!Return
    BY <2>1, <2>2, AbstractRunning DEF Atomic!Return
  <2>4. QED  BY <2>3 DEF Atomic!Next
<1>4. CASE Restart(t)
  <2>1. /\ lock # t /\ lock' = lock /\ disk' = disk
    BY <1>4 DEF Restart
  <2>2. \A u \in Proc : u # t =>
           /\ pc'[u] = pc[u] /\ base'[u] = base[u] /\ outcome'[u] = outcome[u]
           /\ After(u)' = After(u)
    BY <1>4, OthersKeep DEF Restart, After, Pending
  <2>3. QED
    BY <2>1, <2>2 DEF Atomic!avars, AbstractTree, AbstractIntent, AbstractTold,
       InFlux, Writing
<1>5. QED
  BY <1>1, <1>2, <1>3, <1>4, AtomicStutters, AtomicDeclines, AtomicLands,
     AtomicRollsBack, AtomicKills DEF TxStep, Progress, Atomic!Next

LEMMA AtomicOthers ==
    ASSUME IInv, IInv', ClearLock \/ HandEdit \/ UNCHANGED vars
    PROVE  Atomic!Next \/ UNCHANGED Atomic!avars
<1> USE DEF IInv, LockInv, TypeOK
<1>1. CASE ClearLock
  <2>1. AbstractTree = disk /\ AbstractIntent = NoIntent /\ AbstractTold = "nothing"
    BY <1>1, AbstractIdle DEF ClearLock
  <2>2. AbstractTree' = disk /\ AbstractIntent' = NoIntent /\ AbstractTold' = "nothing"
    BY <1>1, Markers DEF ClearLock, AbstractTree, AbstractIntent, AbstractTold
  <2>3. QED
    BY <1>1, <2>1, <2>2 DEF ClearLock, Atomic!Return, Atomic!Next
<1>2. CASE HandEdit
  <2>1. UNCHANGED <<lock, pc>> /\ (lock = NoOne \/ ~Running(lock))
    BY <1>2 DEF HandEdit, txVars
  <2>2. AbstractTree = disk /\ AbstractIntent = NoIntent /\ AbstractTold = "nothing"
    BY <2>1, Markers DEF AbstractTree, AbstractIntent, AbstractTold, InFlux, Writing, Running
  <2>3. AbstractTree' = disk' /\ AbstractIntent' = NoIntent /\ AbstractTold' = "nothing"
    BY <2>1, Markers DEF AbstractTree, AbstractIntent, AbstractTold, InFlux, Writing, Running
  <2>4. QED
    BY <1>2, <2>1, <2>2, <2>3 DEF HandEdit, Atomic!Edit, Atomic!Next
<1>3. CASE UNCHANGED vars
  BY <1>3 DEF vars, txVars, Atomic!avars, AbstractTree, AbstractIntent, AbstractTold,
     InFlux, Writing, After, Pending
<1>4. QED  BY <1>1, <1>2, <1>3

\* Where no formatter runs, the write path is atomic: every call is one step
\* from a tree which loads to another, or none, except for the steps in which
\* it is killed or reports that it could not put everything back.
THEOREM Atomicity == ASSUME Formatter = {} PROVE Spec => WritesAreAtomic
<1>1. ASSUME IInv, IInv', [Next]_vars PROVE [Atomic!Next]_Atomic!avars
  <2>1. CASE \E t \in Proc : TxStep(t)
    BY <1>1, <2>1, AtomicTx
  <2>2. QED  BY <1>1, <2>1, AtomicOthers DEF Next
<1>2. QED
  BY Invariant, AtomicInit, <1>1, PTL DEF Spec, WritesAreAtomic, Atomic!Spec
=============================================================================
