------------------------------ MODULE ModelTx ------------------------------
(***************************************************************************)
(* The write path of the engine: write.go's transaction (Begin, mutate,    *)
(* Commit, Close) run by any number of processes over one model root, with *)
(* the formatter of format.go, which rewrites the same files without       *)
(* taking the lock, and the person who edits the files by hand.            *)
(*                                                                         *)
(* A file's bytes are one value of Content.  The tree a transaction holds  *)
(* for a file it has mutated is named by its canonical printing, since     *)
(* Commit prints every touched tree before anything looks at it.           *)
(***************************************************************************)
EXTENDS Naturals

CONSTANTS
    Proc,           \* processes which run a write command
    Formatter,      \* processes which run `dfcad fmt`
    NumPaths,       \* how many entity file paths there are beneath the root
    Content,        \* what the bytes of one entity file can be
    Empty,          \* the content of a file with no form in it
    Printed(_),     \* canonical printing of a content
    Loads(_),       \* whether a load of a tree raises no error
    Crashes,        \* whether a process may be killed
    Hands,          \* whether somebody edits the tree by hand
    Absent,         \* no file at the path
    Unread,         \* not read yet
    Unreadable,     \* there, and could not be read
    Untouched,      \* no mutation reached the file
    NoOne           \* the owner of a lock file which is not there

Path == 1 .. NumPaths           \* in the order a walk reaches them

OnDisk == Content \union {Absent}
Trees == [Path -> OnDisk]

\* The contents the printer can produce, which is what names an edited tree.
Canonical == {c \in Content : Printed(c) = c}

ASSUME PathAssumption == NumPaths \in Nat

ASSUME MarkerAssumption ==
    /\ {Absent, Unread, Unreadable, Untouched} \cap Content = {}
    /\ Unread # Absent /\ Unreadable # Absent /\ Unread # Unreadable
    /\ NoOne \notin Proc
    /\ Crashes \in BOOLEAN
    /\ Hands \in BOOLEAN

\* Print's fixed point is canonical form, and an empty tree prints to nothing.
ASSUME PrintAssumption ==
    /\ Empty \in Content
    /\ Printed(Empty) = Empty
    /\ \A c \in Content : Printed(c) \in Content /\ Printed(Printed(c)) = Printed(c)

\* An empty entity file is legal and contributes nothing to what is loaded, and
\* a file says the same thing printed canonically as written any other way.
ASSUME LoadAssumption ==
    /\ \A t \in Trees : Loads(t) \in BOOLEAN
    /\ \A t \in Trees, p \in Path :
           t[p] \in Content => (Loads([t EXCEPT ![p] = Printed(t[p])]) <=> Loads(t))
    /\ \A s, t \in Trees :
           (\A p \in Path : s[p] # t[p] => {s[p], t[p]} = {Absent, Empty})
               => (Loads(s) <=> Loads(t))

VARIABLES
    disk,       \* the entity files: Path -> OnDisk
    lock,       \* whose lock file is in the root
    pc,         \* how far each process's transaction has got
    base,       \* staged.src and staged.existed: what Begin read of each file
    edit,       \* staged.file and staged.touched: the tree of a mutated file
    tmp,        \* pending.tmp: the files whose new contents are staged
    renamed,    \* pending.renamed: the files renamed over and not put back
    failed,     \* RollbackError.Failed: the files a rollback could not restore
    outcome,    \* what Commit or Begin is about to tell its caller
    fmt,        \* what each formatter has read and not yet written back
    blame       \* history: what made a tree which does not load so, and that
                \* a formatter wrote over what it had not read

txVars == <<pc, base, edit, tmp, renamed, failed, outcome>>
vars == <<disk, lock, txVars, fmt, blame>>

Phases == {"idle", "locking", "reading", "open", "staging", "renaming",
           "rollback", "releasing", "dead"}

Outcomes == {"none", "refused", "closed", "dryrun", "committed",
             "failed", "rollbackError"}

FmtIdle == [path |-> 0, src |-> Absent]

TypeOK ==
    /\ disk \in Trees
    /\ lock \in Proc \union {NoOne}
    /\ pc \in [Proc -> Phases]
    /\ base \in [Proc -> [Path -> OnDisk \union {Unread, Unreadable}]]
    /\ edit \in [Proc -> [Path -> Canonical \union {Untouched}]]
    /\ tmp \in [Proc -> SUBSET Path]
    /\ renamed \in [Proc -> SUBSET Path]
    /\ failed \in [Proc -> SUBSET Path]
    /\ outcome \in [Proc -> Outcomes]
    /\ fmt \in [Formatter -> [path : Path, src : Content] \union {FmtIdle}]
    /\ blame \in {"none", "hand", "crash", "rollback", "stale"}

-----------------------------------------------------------------------------
(* What a transaction knows.                                               *)

Nothing == [p \in Path |-> Unread]
NoEdits == [p \in Path |-> Untouched]

\* The tree Commit interprets: printings of touched files, bytes of the rest.
Proposed(t) ==
    [p \in Path |-> IF edit[t][p] = Untouched THEN base[t][p] ELSE edit[t][p]]

\* (mutant of Pending) every difference, whether or not a mutation made it.
PendingUntouched(t) == {p \in Path : edit[t][p] # base[t][p]}

\* pending.changed over the touched files: an absent file and an empty
\* printing hold the same bytes, which are none.
Pending(t) ==
    {p \in Path : /\ edit[t][p] # Untouched
                  /\ edit[t][p] # (IF base[t][p] = Absent THEN Empty
                                                          ELSE base[t][p])}

\* The tree write leaves when every rename succeeds.
After(t) == [p \in Path |-> IF p \in Pending(t) THEN edit[t][p] ELSE base[t][p]]

\* Files are staged, renamed and rolled back in lexical order of path.
IsFirst(p, S) == p \in S /\ \A q \in S : p <= q

Running(t) == pc[t] \notin {"idle", "dead"}

\* Nobody is between the first rename and the end of a rollback.
AtRest == \A t \in Proc : pc[t] \notin {"renaming", "rollback"}

\* The memory of a process which has exited, or of one which was killed.
Forget(t) ==
    /\ base' = [base EXCEPT ![t] = Nothing]
    /\ edit' = [edit EXCEPT ![t] = NoEdits]
    /\ renamed' = [renamed EXCEPT ![t] = {}]
    /\ failed' = [failed EXCEPT ![t] = {}]
    /\ outcome' = [outcome EXCEPT ![t] = "none"]

\* The history of a step which leaves a tree which does not load: who did it,
\* unless it did not load before either.
BlameIfBroken(who) ==
    blame' = IF Loads(disk') THEN "none"
             ELSE IF blame = "none" THEN who ELSE blame

\* The transaction is over: what is left is to release the lock and return.
EndWith(t, result) ==
    /\ pc' = [pc EXCEPT ![t] = "releasing"]
    /\ outcome' = [outcome EXCEPT ![t] = result]

-----------------------------------------------------------------------------
Init ==
    /\ disk \in Trees
    /\ Loads(disk)
    /\ lock = NoOne
    /\ pc = [t \in Proc |-> "idle"]
    /\ base = [t \in Proc |-> Nothing]
    /\ edit = [t \in Proc |-> NoEdits]
    /\ tmp = [t \in Proc |-> {}]
    /\ renamed = [t \in Proc |-> {}]
    /\ failed = [t \in Proc |-> {}]
    /\ outcome = [t \in Proc |-> "none"]
    /\ fmt = [f \in Formatter |-> FmtIdle]
    /\ blame = "none"

(***************************************************************************)
(* Begin.                                                                  *)
(***************************************************************************)

\* (mutant of Acquire) the lock file is created over whatever is there.
AcquireAnyway(t) ==
    /\ pc[t] = "idle"
    /\ lock' = t
    /\ pc' = [pc EXCEPT ![t] = "locking"]
    /\ UNCHANGED <<disk, base, edit, tmp, renamed, failed, outcome, fmt, blame>>

\* acquire: O_CREATE|O_EXCL.  Where the file is there already the call
\* returns ErrLocked having changed nothing, which is a stuttering step.
Acquire(t) ==
    /\ pc[t] = "idle"
    /\ lock = NoOne
    /\ lock' = t
    /\ pc' = [pc EXCEPT ![t] = "locking"]
    /\ UNCHANGED <<disk, base, edit, tmp, renamed, failed, outcome, fmt, blame>>

\* The pid is in the lock file and the file is closed.
Acquired(t) ==
    /\ pc[t] = "locking"
    /\ pc' = [pc EXCEPT ![t] = "reading"]
    /\ UNCHANGED <<disk, lock, base, edit, tmp, renamed, failed, outcome, fmt, blame>>

\* It could not be written: the lock file is removed, and whether that worked
\* is not looked at.
AcquireFails(t) ==
    /\ pc[t] = "locking"
    /\ pc' = [pc EXCEPT ![t] = "idle"]
    /\ lock' \in {NoOne, t}
    /\ UNCHANGED <<disk, base, edit, tmp, renamed, failed, outcome, fmt, blame>>

\* (mutant of ReadFile) what is kept of a file is what it prints to.
ReadFilePrinted(t) ==
    /\ pc[t] = "reading"
    /\ \E p \in Path :
         /\ IsFirst(p, {q \in Path : base[t][q] = Unread})
         /\ \E src \in {disk[p]} \union (IF disk[p] = Absent THEN {} ELSE {Unreadable}) :
               base' = [base EXCEPT ![t][p] = IF src \in Content THEN Printed(src) ELSE src]
    /\ UNCHANGED <<disk, lock, pc, edit, tmp, renamed, failed, outcome, fmt, blame>>

\* One file of Tx.read's walk.
ReadFile(t) ==
    /\ pc[t] = "reading"
    /\ \E p \in Path :
         /\ IsFirst(p, {q \in Path : base[t][q] = Unread})
         /\ \E src \in {disk[p]} \union (IF disk[p] = Absent THEN {} ELSE {Unreadable}) :
               base' = [base EXCEPT ![t][p] = src]
    /\ UNCHANGED <<disk, lock, pc, edit, tmp, renamed, failed, outcome, fmt, blame>>

WasRead(t) == \A p \in Path : base[t][p] # Unread
Readable(t) == \A p \in Path : base[t][p] \in OnDisk

\* (mutant of Opened) a tree which does not load is opened like any other.
OpenedBroken(t) ==
    /\ pc[t] = "reading"
    /\ WasRead(t) /\ Readable(t)
    /\ pc' = [pc EXCEPT ![t] = "open"]
    /\ UNCHANGED <<disk, lock, base, edit, tmp, renamed, failed, outcome, fmt, blame>>

\* Every file was read and what they make loads: Begin returns a transaction.
Opened(t) ==
    /\ pc[t] = "reading"
    /\ WasRead(t)
    /\ Readable(t) /\ Loads(base[t])
    /\ pc' = [pc EXCEPT ![t] = "open"]
    /\ UNCHANGED <<disk, lock, base, edit, tmp, renamed, failed, outcome, fmt, blame>>

\* A tree which does not load is refused, and Begin closes the transaction.
BeginRefuses(t) ==
    /\ pc[t] = "reading"
    /\ WasRead(t)
    /\ ~(Readable(t) /\ Loads(base[t]))
    /\ EndWith(t, "refused")
    /\ UNCHANGED <<disk, lock, base, edit, tmp, renamed, failed, fmt, blame>>

(***************************************************************************)
(* The open transaction.                                                   *)
(***************************************************************************)

\* Insert, Replace or Remove of a form in the file at p, which Insert creates
\* where the model holds no such file.
Mutate(t) ==
    /\ pc[t] = "open"
    /\ \E p \in Path, c \in Canonical :
         /\ base[t][p] = Absent => edit[t][p] # Untouched \/ c # Empty
         /\ edit' = [edit EXCEPT ![t][p] = c]
    /\ UNCHANGED <<disk, lock, pc, base, tmp, renamed, failed, outcome, fmt, blame>>

\* The deferred Close of a command which never committed.
CloseTx(t) ==
    /\ pc[t] = "open"
    /\ EndWith(t, "closed")
    /\ UNCHANGED <<disk, lock, base, edit, tmp, renamed, failed, fmt, blame>>

(***************************************************************************)
(* Commit.                                                                 *)
(***************************************************************************)

\* prepare interpreted a tree which does not load: nothing is written.
CommitRefuses(t) ==
    /\ pc[t] = "open"
    /\ ~Loads(Proposed(t))
    /\ EndWith(t, "refused")
    /\ UNCHANGED <<disk, lock, base, edit, tmp, renamed, failed, fmt, blame>>

\* Commit with DryRun set.
DryRun(t) ==
    /\ pc[t] = "open"
    /\ Loads(Proposed(t))
    /\ EndWith(t, "dryrun")
    /\ UNCHANGED <<disk, lock, base, edit, tmp, renamed, failed, fmt, blame>>

\* (mutant of Prepare) what the change would make is not interpreted.
PrepareUnread(t) ==
    /\ pc[t] = "open"
    /\ pc' = [pc EXCEPT ![t] = "staging"]
    /\ UNCHANGED <<disk, lock, base, edit, tmp, renamed, failed, outcome, fmt, blame>>

\* prepare's tree loads and write begins.
Prepare(t) ==
    /\ pc[t] = "open"
    /\ Loads(Proposed(t))
    /\ pc' = [pc EXCEPT ![t] = "staging"]
    /\ UNCHANGED <<disk, lock, base, edit, tmp, renamed, failed, outcome, fmt, blame>>

\* write, first phase: the next changed file's bytes go to a temporary file.
StageFile(t) ==
    /\ pc[t] = "staging"
    /\ \E p \in Path :
         /\ IsFirst(p, Pending(t) \ tmp[t])
         /\ tmp' = [tmp EXCEPT ![t] = @ \union {p}]
    /\ UNCHANGED <<disk, lock, pc, base, edit, renamed, failed, outcome, fmt, blame>>

\* stage failed: discard removes the temporary files (one which would not come
\* off is nobody's from then on) and write returns the failure.
StageFails(t) ==
    /\ pc[t] = "staging"
    /\ Pending(t) \ tmp[t] # {}
    /\ tmp' = [tmp EXCEPT ![t] = {}]
    /\ EndWith(t, "failed")
    /\ UNCHANGED <<disk, lock, base, edit, renamed, failed, fmt, blame>>

Staged(t) ==
    /\ pc[t] = "staging"
    /\ Pending(t) \subseteq tmp[t]
    /\ pc' = [pc EXCEPT ![t] = "renaming"]
    /\ UNCHANGED <<disk, lock, base, edit, tmp, renamed, failed, outcome, fmt, blame>>

\* write, second phase: the next staged file is renamed into place.
RenameFile(t) ==
    /\ pc[t] = "renaming"
    /\ \E p \in Path :
         /\ IsFirst(p, tmp[t])
         /\ disk' = [disk EXCEPT ![p] = edit[t][p]]
         /\ tmp' = [tmp EXCEPT ![t] = @ \ {p}]
         /\ renamed' = [renamed EXCEPT ![t] = @ \union {p}]
    /\ UNCHANGED <<lock, pc, base, edit, failed, outcome, fmt, blame>>

\* (mutant of RenameFails) the failure is reported and nothing is put back.
RenameFailsForGood(t) ==
    /\ pc[t] = "renaming"
    /\ tmp[t] # {}
    /\ tmp' = [tmp EXCEPT ![t] = {}]
    /\ EndWith(t, "failed")
    /\ UNCHANGED <<disk, lock, base, edit, renamed, failed, fmt, blame>>

RenameFails(t) ==
    /\ pc[t] = "renaming"
    /\ tmp[t] # {}
    /\ pc' = [pc EXCEPT ![t] = "rollback"]
    /\ UNCHANGED <<disk, lock, base, edit, tmp, renamed, failed, outcome, fmt, blame>>

Written(t) ==
    /\ pc[t] = "renaming"
    /\ tmp[t] = {}
    /\ EndWith(t, "committed")
    /\ UNCHANGED <<disk, lock, base, edit, tmp, renamed, failed, fmt, blame>>

\* (mutants of RestoreFile) a file the change created is left where it is; and
\* only the files which were renamed are gone through.
RestoreFileKeeps(t) ==
    /\ pc[t] = "rollback"
    /\ \E p \in Path :
         /\ IsFirst(p, tmp[t] \union renamed[t])
         /\ tmp' = [tmp EXCEPT ![t] = @ \ {p}]
         /\ renamed' = [renamed EXCEPT ![t] = @ \ {p}]
         /\ disk' = IF p \in renamed[t] /\ base[t][p] # Absent
                    THEN [disk EXCEPT ![p] = base[t][p]] ELSE disk
    /\ UNCHANGED <<lock, pc, base, edit, failed, outcome, fmt, blame>>

RestoreFileRenamed(t) ==
    /\ pc[t] = "rollback"
    /\ \E p \in Path :
         /\ IsFirst(p, renamed[t])
         /\ renamed' = [renamed EXCEPT ![t] = @ \ {p}]
         /\ disk' = [disk EXCEPT ![p] = base[t][p]]
    /\ UNCHANGED <<lock, pc, base, edit, tmp, failed, outcome, fmt, blame>>

\* rollback of the next file: a staged one loses its temporary file (whether
\* or not that worked), a renamed one gets back the bytes Begin read, or is
\* removed where there were none.
RestoreFile(t) ==
    /\ pc[t] = "rollback"
    /\ \E p \in Path :
         /\ IsFirst(p, tmp[t] \union renamed[t])
         /\ tmp' = [tmp EXCEPT ![t] = @ \ {p}]
         /\ renamed' = [renamed EXCEPT ![t] = @ \ {p}]
         /\ disk' = IF p \in renamed[t] THEN [disk EXCEPT ![p] = base[t][p]]
                                        ELSE disk
    /\ UNCHANGED <<lock, pc, base, edit, failed, outcome, fmt, blame>>

\* The restoring rename or removal failed: the file is named in the error and
\* the rollback goes on to the next.
RestoreFails(t) ==
    /\ pc[t] = "rollback"
    /\ \E p \in renamed[t] :
         /\ IsFirst(p, tmp[t] \union renamed[t])
         /\ renamed' = [renamed EXCEPT ![t] = @ \ {p}]
         /\ failed' = [failed EXCEPT ![t] = @ \union {p}]
    /\ UNCHANGED <<disk, lock, pc, base, edit, tmp, outcome, fmt, blame>>

RolledBack(t) ==
    /\ pc[t] = "rollback"
    /\ tmp[t] \union renamed[t] = {}
    /\ EndWith(t, IF failed[t] = {} THEN "failed" ELSE "rollbackError")
    /\ UNCHANGED <<disk, lock, base, edit, tmp, renamed, failed, fmt>>
    /\ BlameIfBroken("rollback")

\* finish: the lock file is removed, or would not come off, and the call
\* returns either way.
Release(t) ==
    /\ pc[t] = "releasing"
    /\ lock' \in {NoOne, t}
    /\ pc' = [pc EXCEPT ![t] = "idle"]
    /\ tmp' = [tmp EXCEPT ![t] = {}]
    /\ Forget(t)
    /\ UNCHANGED <<disk, fmt, blame>>

(***************************************************************************)
(* Everything which is not a transaction.                                  *)
(***************************************************************************)

\* The process is killed.  Its lock file and its temporary files stay.
Crash(t) ==
    /\ Crashes
    /\ Running(t)
    /\ pc' = [pc EXCEPT ![t] = "dead"]
    /\ Forget(t)
    /\ UNCHANGED <<disk, lock, tmp, fmt>>
    /\ BlameIfBroken("crash")

\* Somebody who has made sure that the process which left the lock file is
\* not running removes it.
ClearLock ==
    /\ lock # NoOne
    /\ ~Running(lock)
    /\ lock' = NoOne
    /\ UNCHANGED <<disk, txVars, fmt, blame>>

\* A new command runs in place of a killed one.  Temporary files which were
\* left behind are not entity files, and nothing ever looks at them.
Restart(t) ==
    /\ pc[t] = "dead"
    /\ lock # t
    /\ pc' = [pc EXCEPT ![t] = "idle"]
    /\ tmp' = [tmp EXCEPT ![t] = {}]
    /\ UNCHANGED <<disk, lock, base, edit, renamed, failed, outcome, fmt, blame>>

\* Somebody edits a file between one command and the next.
HandEdit ==
    /\ Hands
    /\ \A t \in Proc : ~Running(t)
    /\ \E p \in Path, c \in OnDisk :
         disk' = [disk EXCEPT ![p] = c]
    /\ UNCHANGED <<lock, txVars, fmt>>
    /\ BlameIfBroken("hand")

\* Formatter.format, up to its comparison: the file is read, and there is
\* something to write only if it is not what it would print to.
FmtRead(f) ==
    /\ fmt[f] = FmtIdle
    /\ \E p \in Path :
         /\ disk[p] \in Content
         /\ Printed(disk[p]) # disk[p]
         /\ fmt' = [fmt EXCEPT ![f] = [path |-> p, src |-> disk[p]]]
    /\ UNCHANGED <<disk, lock, txVars, blame>>

\* replace: the printing of what was read is renamed over what is there now.
FmtWrite(f) ==
    /\ fmt[f] # FmtIdle
    /\ disk' = [disk EXCEPT ![fmt[f].path] = Printed(fmt[f].src)]
    /\ fmt' = [fmt EXCEPT ![f] = FmtIdle]
    /\ blame' = IF blame = "none" /\ disk[fmt[f].path] # fmt[f].src
                THEN "stale" ELSE blame
    /\ UNCHANGED <<lock, txVars>>

\* (mutant of FmtFails) the file was being written in place, and is empty.
FmtFailsInPlace(f) ==
    /\ fmt[f] # FmtIdle
    /\ disk' = [disk EXCEPT ![fmt[f].path] = Empty]
    /\ fmt' = [fmt EXCEPT ![f] = FmtIdle]
    /\ UNCHANGED <<lock, txVars, blame>>

\* replace could not write it, or the formatter was killed.
FmtFails(f) ==
    /\ fmt[f] # FmtIdle
    /\ fmt' = [fmt EXCEPT ![f] = FmtIdle]
    /\ UNCHANGED <<disk, lock, txVars, blame>>

-----------------------------------------------------------------------------
\* The steps of one call of the write path which take it nearer its end.
Progress(t) ==
    \/ Acquired(t) \/ AcquireFails(t)
    \/ ReadFile(t) \/ Opened(t) \/ BeginRefuses(t)
    \/ CloseTx(t) \/ CommitRefuses(t) \/ DryRun(t) \/ Prepare(t)
    \/ StageFile(t) \/ StageFails(t) \/ Staged(t)
    \/ RenameFile(t) \/ RenameFails(t) \/ Written(t)
    \/ RestoreFile(t) \/ RestoreFails(t) \/ RolledBack(t)
    \/ Release(t)

TxStep(t) == Acquire(t) \/ Mutate(t) \/ Progress(t) \/ Crash(t) \/ Restart(t)

FmtStep(f) == FmtRead(f) \/ FmtWrite(f) \/ FmtFails(f)

Next ==
    \/ \E t \in Proc : TxStep(t)
    \/ \E f \in Formatter : FmtStep(f)
    \/ ClearLock
    \/ HandEdit

Spec == Init /\ [][Next]_vars

\* A command which was not killed goes on: it makes finitely many mutations and
\* then closes or commits, and none of its steps waits for another process.
Fairness == \A t \in Proc : WF_vars(Progress(t))

FairSpec == Spec /\ Fairness

-----------------------------------------------------------------------------
(***************************************************************************)
(* Safety.                                                                 *)
(***************************************************************************)

\* At most one process is between Begin's acquire and the end of its call,
\* and it is the one the lock file was created by: a stuck lock, a killed
\* process's lock and its removal never let a second one in.
OneWriter == \A t \in Proc : Running(t) => lock = t

\* Each outcome, against the tree Begin read and the tree on disk.
ToldTheTruth(t) ==
    /\ outcome[t] = "committed" => disk = After(t) /\ Loads(disk)
    /\ outcome[t] \in {"closed", "dryrun", "failed"} => disk = base[t]
    /\ outcome[t] = "refused" => \A p \in Path : base[t][p] \in {disk[p], Unreadable}
    /\ outcome[t] = "rollbackError" =>
         \A p \in Path :
             disk[p] = IF p \in failed[t] THEN edit[t][p] ELSE base[t][p]

\* What a caller is about to be told is what happened to the tree: a commit
\* landed in every file, a refusal, a dry run, a close and a failed write left
\* every file as Begin read it, and a RollbackError names the files which hold
\* what the failed change wrote, everything else having been restored.
OutcomeIsTrue == \A t \in Proc : pc[t] = "releasing" => ToldTheTruth(t)

\* Between the changes the tree loads, unless a hand edit, a process killed in
\* its renames or a rollback which failed made it unloadable: no sequence of
\* commits, refusals and failures does.
TreeLoads == AtRest => (Loads(disk) <=> blame = "none")

\* The same with formatters, which take no lock: what they can break, they
\* break by writing over a file which changed after they read it.  A formatter
\* which writes over what it read is harmless at any point of a transaction.
LoadsUnlessBlamed == AtRest /\ blame = "none" => Loads(disk)

\* What decision 0016 promises: the tree is always loadable, or it was made
\* unloadable by hand.
BrokenOnlyByHand == AtRest /\ ~Loads(disk) => blame = "hand"

\* The part of that promise which is about formatters.
FormattersBreakNothing == AtRest /\ blame = "stale" => Loads(disk)

\* A file is only ever replaced by a transaction which read the bytes it is
\* replacing: no committed change is lost to a later one.
NoLostUpdate ==
    [][\A t \in Proc, p \in Path :
           pc[t] = "renaming" /\ disk'[p] # disk[p] => disk[p] = base[t][p]]_vars

\* No change to a tree which does not load reaches its renames: what somebody
\* has to repair is still what they broke, however many commands ran over it.
BrokenTreeLeftAlone == [][AtRest /\ ~Loads(disk) => AtRest']_vars

(***************************************************************************)
(* The inductive invariants behind them.                                   *)
(***************************************************************************)

\* What a transaction holds in each phase, whoever else writes the files:
\* only files it touched and which changed are staged, renamed or failed.
StageInv(t) ==
    /\ pc[t] \in {"idle", "locking", "dead"} => base[t] = Nothing
    /\ pc[t] \in {"idle", "locking", "dead", "reading"} => edit[t] = NoEdits
    /\ pc[t] \in {"idle", "locking", "reading", "open"} => tmp[t] = {}
    /\ pc[t] \in {"idle", "locking", "dead", "reading", "open", "staging"} =>
         renamed[t] = {}
    /\ pc[t] \notin {"rollback", "releasing"} => failed[t] = {}
    /\ pc[t] \in {"open", "staging", "renaming", "rollback"} => base[t] \in Trees
    /\ pc[t] \in {"staging", "renaming", "rollback"} =>
         tmp[t] \union renamed[t] \union failed[t] \subseteq Pending(t)

\* Types and mutual exclusion need no more than that.
LockInv == TypeOK /\ OneWriter /\ \A t \in Proc : StageInv(t)

\* Where no formatter runs, nothing changes on disk under a transaction: what
\* it has read is what is there, until its own renames, during which the disk
\* is the old tree with the new contents in exactly the files it knows of.
DiskInv(t) ==
    /\ pc[t] = "reading" =>
         \A p \in Path : base[t][p] \in {disk[p], Unread, Unreadable}
    /\ pc[t] \in {"open", "staging"} => base[t] = disk
    /\ pc[t] \in {"open", "staging", "renaming", "rollback"} => Loads(base[t])
    /\ pc[t] \in {"staging", "renaming"} => Loads(Proposed(t))
    /\ pc[t] = "renaming" =>
         /\ tmp[t] \union renamed[t] = Pending(t)
         /\ tmp[t] \cap renamed[t] = {}
    /\ pc[t] \in {"renaming", "rollback"} =>
         /\ blame = "none"
         /\ renamed[t] \cap failed[t] = {}
         /\ \A p \in Path :
              disk[p] = IF p \in renamed[t] \union failed[t] THEN edit[t][p]
                                                            ELSE base[t][p]

IInv ==
    /\ LockInv
    /\ \A t \in Proc : DiskInv(t)
    /\ OutcomeIsTrue
    /\ TreeLoads

\* Where formatters run, the disk drifts under a transaction: a file which is
\* not yet renamed holds what Begin read of it, or the printing of that, until
\* a formatter is to blame for more.
Reprints(old, new) == new = old \/ (old \in Content /\ new = Printed(old))

DriftInv(t) ==
    /\ pc[t] \in {"staging", "renaming"} => Loads(Proposed(t))
    /\ pc[t] = "renaming" => tmp[t] \union renamed[t] = Pending(t)
    /\ blame = "none" =>
         \A p \in Path :
           /\ pc[t] = "reading" =>
                base[t][p] \in {Unread, Unreadable} \/ Reprints(base[t][p], disk[p])
           /\ pc[t] \in {"open", "staging"} => Reprints(base[t][p], disk[p])
           /\ pc[t] = "renaming" =>
                IF p \in renamed[t] THEN disk[p] = edit[t][p]
                                   ELSE Reprints(base[t][p], disk[p])

DInv ==
    /\ LockInv
    /\ \A t \in Proc : DriftInv(t)
    /\ LoadsUnlessBlamed

(***************************************************************************)
(* Liveness.                                                               *)
(***************************************************************************)

\* Every call comes back, or its process is killed: nothing in the write path
\* waits for the lock, for another process or for a file.
CallReturns == \A t \in Proc : Running(t) ~> ~Running(t)
=============================================================================
