# A verification of dfcad

`dfcad` is a data-first CAD engine: a model is a tree of text files (entity
files, `.dfc`, and append-only observation logs, `.dfo`), a Go library loads it
into a graph, answers questions about it, and changes it through transactions.
Nothing runs in the background: every command is a process which loads, answers
or writes, and exits. What several of them share is the files: the entity files,
the lock file in the model root, the observation files and the cache of derived
geometry in the build directory.

This directory models the parts where those processes, or the steps of one of
them, can go wrong in an order nobody wrote a test for. All paths below are
relative to the repository.

## 1. The system

| Component | State | Operations | What makes it correct |
|---|---|---|---|
| **Write path** (`write.go`, `cmd/dfcad/author.go`) | the lock file; per transaction the bytes read, the trees mutated, the temporary files, what was renamed | `Begin`, `Insert`/`Replace`/`Remove`, `Commit`, `DryRun`, `Close`; inside: `acquire`, `read`, `prepare`, `write`, `rollback`, `finish` | one writer; a change lands in every file or in none; the tree always loads; what the caller is told is what happened |
| **Formatter** (`format.go`, `print.go`, `cmd/dfcad/fmt.go`) | none; per file the bytes read | `Format` of a tree: read, print, compare, replace | changes spelling and nothing else; never loses somebody's change |
| **Loading** (`graph.go`, `load.go`, `read.go` and the passes) | the graph, immutable once loaded, and its digest | `LoadGraph`: registry, nodes, topology, claims, frames, boundaries | reports every problem; the graph is of the bytes it digested |
| **Derived cache** (`cache.go`, `surface.go`) | files named by digest and question | `Derive`, `SurfaceWithin`, `Lookup`, `Store`, `Prune` | advisory: never changes an answer |
| **Linked observations** (`link.go`, `membership.go`) | per graph: bytes per file, log per set of links | `Observations`, `AllObservations`, `ObservationsWithin` | a file is read once per process; what could not be read is reported |
| **Observation logs** (`observation.go`) | records and retirements in file order | parse, `ValidateObservations`, `ValidateAppendOnly`, `Current` | nothing ever written is lost; a record is retired once, later, by name |
| **Authoring and batches** (`author.go`, `record.go`, `batch.go`, `declare.go`, `geometry.go`, `route.go`, `retire.go`, `assume.go`) | the transaction's trees, beside the graph as `Begin` found it | `AddNode`, `Retire`, `AddClaim`, `Supersede`, `DeprecateClaim`, `SetEdges`, `Apply`, `Assume`, ... | ids are never reused; history is never edited; a batch is one change |
| **Claims** (`claim.go`, `supersede.go`, `resolve.go`, `conflict.go`) | claims by id and by pair, the supersession graph | `Live`, `Current`, `History`, resolution, conflicts | chains terminate; one answer, whatever the order of files |
| **Registry** (`registry.go`, `spec.go`, ...) | declarations | lookups | closed vocabularies |
| **Frames, budgets** (`frame.go`, `budget.go`) | a tree of frames | carrying a position, combining errors | no cycles; a budget counts a systematic source once |
| **Topology and boundaries** (`node.go`, `topology.go`, `assemble.go`, `boundary.go`, ...) | nodes, edges, loops, rings | assembling rings | simple cycles, no dangling references |
| **Geometry** (`measure.go`, `overlay.go`, `arc.go`, `contain.go`, `buildable.go`, ...) | none | areas, offsets, containment | refuses rather than guesses |
| **Checks and rules** (`check.go`, `checks.go`, `assert.go`, `invariant.go`, `run.go`) | none | run assertions over a graph | a closed set, every one answered |
| **Review** (`review.go`, `revision.go`, `diff.go`) | a temporary directory | compare with the merge base in git | the base is a real ancestor |
| **Artefacts and export** (`epoch.go`, `cmd/dfcad/export.go`, `ifc/`, `gml/`) | one file per export | `place` by temporary file and rename | keyed by the digest of the source |
| **Command line** (`cmd/dfcad`) | none | flags, rendering, exit codes | an answer or a refusal |

**Who meets whom.** Writers exclude one another by creating the lock file and
never wait: the loser is refused. Readers and the formatter take no lock, so
they meet a writer in the middle of its renames. Every load accumulates a digest
of exactly the bytes it read, and that digest is the only thing the cache is
keyed by, so processes which loaded different trees share one directory. A
surface asks for footprints, which is itself a cached question, then gathers
every observation file, then the region's own, and is stored under a key which
was computed before any of that.

**What is hard.** A multi-file change is a sequence of renames without a
journal: failures are rolled back, kills are not. A rollback can fail halfway.
The formatter's read and its rename are two steps with no lock around them. An
entry of the cache can be read, discarded, replaced and pruned by four processes
at once. A question nests two others, each with its own reports, and only a
clean one may be kept. A process holds bytes, logs and a digest of files which
somebody edits meanwhile. Every authoring operation of a batch consults the
graph as it was before the batch, and some the batch so far. Chains of
retractions, of frames and of edges are walked in models which need not have
loaded. Append-only, review and unchanged are judged between two revisions,
while what they promise is about all of them. `PROJECT.json` lists each such
hazard at its line with the properties which watch it.

## 2. The modules

| Module | What it is |
|---|---|
| `ModelTx` | the write path by any number of processes, with formatters and hand edits |
| `AtomicModel` | what the write path promises, with nothing of how |
| `ModelTxRefinement` | the mapping of the first onto the second |
| `DerivedCache` | digests, the derived cache and the observation store, by any number of processes |
| `Authoring` | batches of operations on the entities, claims and frames of one model |
| `Ledger` | what authoring promises a reader, with nothing of how |
| `AuthoringLedger` | the mapping of the first onto the second |
| `Drawing` | vertices, edges, loops and scaffolded rooms, in batches |
| `Supersession` | walking what replaced what: cycles, `Current`, `History` |
| `Resolution` | which claim answers a question, and the register of conflicts |
| `Frames`, `Budgets` | routes between frames, and the errors met along them |
| `Rings` | assembling loops and runs from edges |
| `LineDiff` | the diff a dry run prints |
| `Review` | comparing a change with its merge base, over many changes |
| `ObservationLog` | the append-only log over its revisions |
| `Publishing` | exports to a destination, by processes which may be killed |
| `ModelTxProofs`, `DerivedCacheProofs`, `ClaimsProofs`, `FramesProofs`, `AuthoringProofs`, `OutlineProofs`, `LineDiffProofs`, `RevisionProofs` | theorems |
| `MCModelTx`, `MCRefinement`, `MCDerivedCache`, `MCAuthoring`, `MCAnswers`, `MCReview` | instances for TLC |

### ModelTx

`disk` is the entity files and `lock` the lock file. A process walks through
`pc`: *idle*, *locking* (the file exists, the pid is being written), *reading*
(`Tx.read`, file by file, any of which may be unreadable), *open*, *staging*
(`write`'s first loop), *renaming* (its second), *rollback*, *releasing*
(`finish`), *idle*; or *dead*, from anywhere, by `Crash`. `base` is `staged.src`
and `existed`, `edit` is `staged.file` and `touched`, `tmp`, `renamed` and
`failed` are `pending.tmp`, `pending.renamed` and `RollbackError.Failed`.
`outcome` is what the call is about to return, and `blame` is history: who last
made a tree which does not load.

*Every system call which can fail can fail*: writing the pid, reading a file,
staging, renaming, putting back, removing the lock (whose failure `Commit`
deliberately drops).

*Data.* A file's bytes are one value. What a tree of forms means is the constant
operator `Loads`, and what a file prints to is `Printed`. The assumptions say
what the code guarantees of them: printing is idempotent, preserves what loads,
and an empty file contributes nothing. For TLC a file holds `def` (defines a
thing, canonically), `Def` (defines it, spelled otherwise), `use` (refers to
it), `bad` (does not parse) or nothing, so that moving a definition from one
file to another is a two-file change whose halves both fail to load: the
smallest model in which atomicity matters. Forms within a file, effects, diffs,
diagnostics and the creation of directories are left out.

*Hands.* `HandEdit` happens only while no transaction runs. An editor which
saves over a running transaction takes no lock, exactly as the formatter takes
none, and the formatter's runs show what that does.

### AtomicModel and the refinement

`AtomicModel` holds the model for one caller at a time and changes a loadable
tree into another loadable tree in one step (`Land`), or not at all
(`Decline`). It has two exits, each a step of its own: `Tear`, when a call says
that it could not put everything back, and `Kill`; each leaves every file with
its old or its new content. `ModelTxRefinement` maps a transaction between its
first rename and its end to the tree it began with, so a change lands when the
last file has. `WritesAreAtomic` is `AtomicModel`'s specification under that
mapping.

### DerivedCache

A process starts, loads (`LoadPart` for each file, from a tree edited
meanwhile, `Loaded` fixing the digest), asks and exits. A question goes through
*look* (`fetch`: `Hit`, `Miss`, `Spoiled`), *discard*, *derive* and *storing*;
one about a surface goes through those as a surface, then again as the footprint
of its region (`DeriveRegion`, or a refusal), and then *gather*: every linked
file (`GatherAll`), then the region's own (`GatherCited`, `Graph.cites`), file
by file (`LinkBroken`, `ReadBefore`, `ReadObservations`, `ReadFails`), before
`DeriveSurface`. `content` and `logs` are the two maps of `observationStore`.
The environment edits entity files and observation files, damages entries, moves
one to another's path, and prunes.

A digest is named by the bytes it is of: the encoding is length-prefixed, hence
injective, and SHA-256 is taken not to collide. A derived value is named by what
it was computed from, which is what a stale one is told by. `Derives`, `Sound`
and `Enough` say whether deriving footprints, parsing a file and interpolating
reports anything. An entry of another version verifies under no key: it is a
`Damaged` one. Geometry and the refusal of an interpolation method nobody
implements are left out. `Derive`, `SurfaceWithin` and `Prune` are the library's
interface, which no command of `cmd/dfcad` calls yet.

### Authoring, Ledger and AuthoringLedger

`graph` is the model on disk and what `Begin` loaded of it, `forms` the trees the
transaction holds, by id: the lock keeps other writers away, so disk and graph
are one variable. `Entities`, `Free`, `Live` and `ClaimOf` say of each question
which of the two it is asked of, as the code does: `Supersede` looks for the
claim to replace in the graph, a minted id is looked for in both, a reference to
redirect in the graph and then in its form. `Loads` is the conjunction of the
rules of the load which a batch can break, one operator per rule, and `Commit`
is enabled where it holds. Refused operations end a batch (`Refuse`), as the
commands do. Of the seven relations `redirect` rewrites, three are kept: one
which holds one id, one which holds many and one which a retirement writes.
Vertices, loops and scaffolding are `Drawing`'s; classifying, declaring routes
and assumptions are left out: they add forms, or are made of these operations.

`Ledger` is a history which only grows: entities, retirements, claims and
retractions are sets, ids are issued once, a claim is retracted once, and
following replacements ends. A claim is *the place it stands at*, since many
claims have no id. `KeepsALedger` is `Ledger`'s specification under the mapping.

### Drawing

`graph` and `forms` are as in `Authoring`, with the three geometric families and
nothing else. `AddVertex`, `AddEdge`, `AddLoop` and `SetEdges` are one action
each. A scaffold is many, one per corner (`Snap` or `Mint`) and per wall
(`Wall`), and `WriteLoop`; `batch.run` is the `scaffolder`. What matters is which
questions are asked of what: the vertex a corner lands on, of an index of
`graph` and of what this scaffold minted (`Landing`, `vertexIndex.nearest`); the
edge between two vertices and whether an id is taken, of `forms` (`Between`,
`Unheld`). Points are values with a table of distances (`Gap`), so that being
close need not be transitive, and neither the metric nor rounding is modelled.
`by` and `corners` mark what was written with the operation it is of and the
corners it was for, which the code prints and does not keep: the properties are
about them. `Commit` asks nothing of the outcome, because `Loads`, that the load
has nothing to say of it, is part of what is shown.

`WallsAreShared` is four things about the model and about the trees of a batch
at every point: it loads (`Loads`); a scaffold draws no second edge between two
vertices (`OneWallEach`); the loop it wrote goes round its corners, each at its
own vertex within the tolerance, and comes back (`RoomsAreAsAsked`); and one
which snaps mints nothing within the tolerance of what the model held when the
batch began, or of a corner of its own (`NoSlivers`).

### The questions

`Supersession` takes a walk one claim at a time, over every model of three
claims, sound or not; `work` is the loop's locals (`seen`, the path, the stack
of `History`'s recursion). `Leads` is the reference: membership of every closed
set, not a second walk. `Resolution` decides by the figure a claim's accuracy
combines to; how many terms it has is `Budgets`' affair, which leaves squares
unrooted so that no rounding is modelled. `Frames` is the walk to a root, the
meeting of two and the budget of what lies between, over every registry, rooted
or not. `Rings` assembles an edge at a time; which corners are close is given,
need not be transitive, and only those of the loop itself are merged; and from
which end a broken traversal goes on is a choice, because distances decide it.
`LineDiff` compares two texts (`sides`): `search` is the search by depth and the
walk back along its trace, `diff` the script and its hunks; `Trim`, `Deepen`,
`WalkBack`, `Script` and `Cut` are its steps, an edit at a time.

### Review, ObservationLog, Publishing

`Review` keeps a merge base and a head. Edits of the write path and of an editor
change the head; `Merge` is enabled where no finding is a failure, and makes the
head the next base, so that what one review lets through is what the next
compares with. What the write path does to claims is `Survey`, `Supersede` and
`DeprecateClaim`; the last retracts in favour of any claim there is, of whatever
question, and may leave its own without an answer (`record.go:1081`), which the
review then finds. `change.ordinary` is true while nothing else was done since
the base. `ObservationLog` proposes anything as the next revision and takes
what `ValidateAppendOnly` and the load accept; a record is named by where it
stands, the file and the line, so that the log is a set of places and its order
is theirs. Who asks both of every revision is the caller's affair. No revision
writes an id twice: `runReview` loads both before it compares them, and the load
refuses one which does (`claimLoader.identify`). In `Publishing` a digest is the
bytes it is of; a run reads file by file while the tree is edited, compares,
writes a temporary file and renames it, and may be killed anywhere.

## 3. The runs

All finish within five minutes with two workers.

| Run | Instance | Shows |
|---|---|---|
| `tx_safety` | 2 writers, 3 files, all 5 contents, kills, hand edits | `TypeOK`, `OneWriter`, `OutcomeIsTrue`, `TreeLoads`, `NoLostUpdate`, `BrokenTreeLeftAlone`, `WritesAreAtomic` |
| `tx_fmt` | 2 writers, 1 formatter, 2 files, fair | `LoadsUnlessBlamed`, `CallReturns` |
| `tx_fmt_race` | the same | `FormattersBreakNothing` **is violated** |
| `tx_crash` | 1 writer, 2 files, kills | `BrokenOnlyByHand` **is violated** |
| `cache_footprints` | 2 processes, 2 files, edits, damage, one misplaced entry, prune | `EntriesAreSound`, `AnswersAreDerived` |
| `cache_surface` | 1 process at a time, 2 observation files asked of by two links and by the model, of which the region links to one; edits; fair | `TypeOK`, `OneReadPerFile`, `QuestionsAreAnswered` |
| `cache_stale` | 1 process at a time, 1 observation file | `SurfacesAreFresh` **is violated** |
| `cache_unread` | 1 process, 2 files in 2 overlapping link sets, edits | `UnreadFilesAreReported` **is violated** |
| `authoring` | 2 models, 3 operations in all batches together, ordinals to 3 | `TypeOK`, `KeepsALedger`, `CorrectionsSpoilNothing`, `FramesFollowTheirClaims`, `CorrectionsReplace`, `RetiringRedirects` |
| `authoring_frames` | the same | `FramesNameAssertedClaims` **is violated** |
| `answers` | one behaviour is about one question; see below; fair walks | the properties of the modules of drawing, questions, review, logs and exports |
| `review_unchanged` | 1 wall of 2 corners, up to 3 claims and 2 edits | `UnchangedIsSilent` **is violated** |

`answers` asks every question in one run, because each is small. It shows, of

* 3 claims of 2 ids, every way they may be retracted in favour of each other or
  of an id nobody wrote: `EveryCycleIsReported`, `CurrentIsWhereItLeads`,
  `LoadedClaimsHaveACurrent`, `HistoryIsWhatLedHere`, `WalksEnd`;
* 3 claims under 2 questions, one of which tolerates no tie: `TheBestAnswers`,
  `EveryDisputeIsRegistered`, `AnswersChangeForCause`;
* 4 frames in every arrangement, cycles and undeclared parents included, with
  three ways of having been measured: `RoutesPassWhatDiffers`, `ErrorsCountOnce`;
* loops of up to 4 edges over 4 corners, where what is out of order is told from
  what has a gap: `AssembledIsARing`;
* 3 lists of corners on a line of points, a tolerance several of them are
  within, an id an author may take from the minted ones, from an empty model and
  from one with a wall, 3 operations in 2 batches: `WallsAreShared`;
* every two texts of up to 5 lines of two letters, with a depth of 4 edits and a
  line of context: `ScriptsAreShortest`, `PatchesApply`;
* reviews of up to 3 edits to up to 3 claims, with and without an id, one
  boundary, two policies:
  `OrdinaryWorkOnlySilences`, by which the write path's own work is found where
  it left a question without an answer and nowhere else, and `MergesLoseNothing`, each part of which is asked
  where the policy rules the kind it is of a failure;
* 2 observation files of up to 2 lines: `EvidenceStands`, `AppendsAreLegal`;
* 2 exports of a tree of one file: `ArtefactsAreOfTheirTree`. That an export may
  read several files of a tree which is being edited is in the theorem alone.

**Bounds.** Two writers are enough for every race of the lock, because a third
has nobody else to meet than the holder; the proofs hold for any number. Three
files let a failure fall before, between and after renames, and let a rollback
fail in the middle; two are enough for half a change. Two processes of the cache
are enough for one to act between two steps of the other; a process which exits
and starts again stands for the ones which come later. `MaxMisplaced` bounds how
many entries are out of place at once: 1, and 0 in `cache_surface`, where what
verifies is the question of `cache_footprints` and the state space is that of
the nesting. Three operations let one batch do what a second undoes, or one
operation of a batch invalidate what the next two asked of the graph; the two
models begin with what would take more (a correction and a retirement already
made, one not). Three claims are a chain with a middle, a fork, a cycle of three
and a cycle with a tail; four frames are two which meet below a root they share.
A depth of 4 edits is below the distance of many texts of five lines, at it for
others and above it for the rest. Symmetry is used only where no liveness is
checked.

**Fairness.** Weak fairness of each process's own progress, and of nothing else:
a command which was not killed keeps computing, none of its steps waits for
another process, and the operating system schedules it. In `answers` that is the
walk of one process over a model in memory. Nobody is assumed to remove a lock,
to restart a killed process, to mutate or to ask. A call which finds a lock
nobody removes is refused, and so returns: `CallReturns` would not notice an exit
which left the lock file behind, nor would `OneWriter`.

### What the violated properties say

* `BrokenOnlyByHand` (`write.go:1048`): decision 0016 says "The tree is always
  loadable, or it was made unloadable by hand" and that "Crash safety comes for
  free with the rename, including for the multi-file case". A kill between two
  renames leaves half of a change. `TreeLoads` is what does hold, and
  `AtomicModel!Kill` says exactly how much is lost. (The same decision says the
  engine needs "no lock file"; `write.go` has one.)
* `FormattersBreakNothing` (`format.go:164`): `dfcad fmt` reads a file, and
  renames its printing of it over whatever is there by then, without the lock.
* `SurfacesAreFresh` (`surface.go:1717`): the observation files are in neither
  the digest nor the `SurfaceKey`, so a surface outlives the survey it is of.
* `UnreadFilesAreReported` (`link.go:471`): a path which could not be read is
  remembered as read and empty; the next link set which shares it is told
  nothing.
* `FramesNameAssertedClaims` (`record.go:1113`): a claim may be retracted in
  favour of one which is itself retracted, and a frame which named it is pointed
  there (`record.go:1181`), although the comment above says that re-pointing is
  what keeps a frame from reading "a value the model now says is wrong".
  `FramesFollowTheirClaims` is what does hold.
* `UnchangedIsSilent` (`review.go:825`): of two claims without an id, of one
  subject, predicate, source, method and date, the index keeps the last, and the
  first is found to differ from it in a model compared with itself.
  `OrdinaryWorkOnlySilences` says what holds where no two claims share a fingerprint.

### Met on the way, without a run

* Retiring A in favour of B and B in favour of A in one batch is accepted
  (`author.go:682`, `retire.go:164`), though `docs/machine-output.md:3758` says
  that a replacement which is itself retired is refused. `Authoring` does it.
* `Apply` returns at the first failure with the earlier operations' forms
  mutated (`batch.go:491`). Commands close the transaction; the library would
  commit half of a batch for a caller which asked.
* An export goes to a directory named for the tree alone
  (`cmd/dfcad/export.go:794`, `map.go:500`), while its flags change what is
  drawn, so two runs with different flags replace one another's artefact
  (against decision 0021). `ArtefactsAreOfTheirTree` asks about equal drawings.
* Two rooms scaffolded in one batch do not share the corners they have in common
  (`geometry.go:1050` indexes the graph as `Begin` loaded it), although
  `geometry.go:848` says that a second room which shares a wall with the first
  shares its two corners and the edge: the second mints vertices where the
  first's are, the slivers the comment is about. `NoSlivers` leaves out exactly
  the vertices of an earlier operation of the same batch. Over two batches it is
  as the comment says.
* A retraction which leaves a subject and predicate with no live claim "is
  permitted and reported" (`record.go:1081`). `leftAsserted` asks that of the
  graph `Begin` loaded (`record.go:1246`): of two retractions in one batch which
  take a question's last two live claims, each finds the other still live and
  neither reports. The review does find it (`review.go:673`), which is the half
  `OrdinaryWorkOnlySilences` is about; notices are not modelled.
* A review does not find that a claim without an id was removed, nor that an id
  was given to a claim about something else: what `MergesLoseNothing` says of
  answers and corners is about claims which wrote one id and are of one question
  in both revisions (`SameClaim`).

## 4. The proofs

For every number of processes and files and every content, under the named
assumptions on the constants, which TLC evaluates in the runs.

**ModelTxProofs.** `TypeCorrect`, `MutualExclusion` and `LockInvariant` hold of
the whole specification, formatters, hands and kills included, by `LockInv`:
`OneWriter` is not inductive without knowing what each phase has in hand
(`StageInv`), since it is `Pending` which keeps the files staged and renamed
among the files edited. Where no formatter runs (`Formatter = {}`, which the
violated run shows to be needed), `IInv` adds `DiskInv`: what was read is what
is on disk until the transaction's own renames, during which the disk is the old
tree with the new content in exactly the files it knows of. From it follow
`Truthfulness`, `Loadability`, `LostUpdates`, `BrokenTrees` and, step by step
under the refinement mapping, `Atomicity`. `AfterLoads` is where the printing
assumption is used: the tree `write` leaves differs from the one `prepare`
interpreted only in absent files and empty ones. `FormattersAreBlamed` is about
the whole specification again, formatters included: `DInv` asks of a
transaction no more than that what it read *reprints* to what is on disk
(`DriftInv`), which a formatter which wrote what it had read keeps, and any
other write of a formatter takes the blame for.

**DerivedCacheProofs.** `CacheInv` strengthens `EntriesAreSound`: an entry is
sound under the key *inside* it wherever it lies (`EntriesStaySound`), because a
misplaced entry can be moved back; and each process asks of a whole graph under
the digest of that graph or none, and stores only what it derived from it
without a report (`RunInv`). `CacheTypes`, `CacheIsSound` and `CacheIsAdvisory`
follow, for any number of misplaced entries. `CacheReadsOnce` has an invariant
of its own, `ReadsInv`: every log a process gathered, and the one it is
gathering, holds of a file what the process holds of it or nothing.

**AuthoringProofs.** `AuthoringTypes`, `AuthoringMints`, `AuthoringFollows`,
`AuthoringReplaces`, `AuthoringRedirects` and `AuthoringKeepsALedger`, for every
set of ids and predicates, every loadable model to begin with and batches of any
length. What carries them is growth: an operation leaves forms which include
everything the forms before it said (`Grown`, one lemma per operation), so the
answers it took from the graph Begin loaded were not undone by the operations
before it, and a commit adds. The rules of the load (`Loads`) then give what the
ledger asks of a state: that a retracted claim leads to an asserted one is the
absence of cycles in `Replacements`, read backwards (`LedgerEnds`). `Follows` is
the invariant about the frame: along a batch it is where the claim it named
leads in the forms, which retractions in any order keep because a set closed
under the later replacements is closed under the earlier ones (`ClosedBefore`).
`AuthoringMints` goes through the rules of the load one by one (`AmendedLoads`):
the id is new, so what it names and what named others is found where it was
(`OneClaimOf`), the frame is pointed at a claim of the same predicate, and a
circle of replacements would have to pass through the new claim, which has none.
`CorrectInv` counts corrections: in a batch which wrote claims by superseding
alone, a question has none, or it had one asserted claim in the graph, which
says as often as there were corrections that it was replaced; more than once the
load refuses. `RedirectInv` says who still names a node the batch retired:
nobody, unless the batch retired another too.

**OutlineProofs, drawing.** `DrawingTypes` and `RoomsShareWalls`, for every set of points
and table of distances which is symmetric and zero from a point to itself, any
tolerance, lists of corners and sound models to begin with, and batches of any
length (`DrawingConstants`, which each theorem assumes). Forms are only added,
so each part of `Sound` is asked again of what was added last: one lemma per
family (`OneVertexMore`, `OneEdgeMore`, `OneLoopMore`, `OneLoopAgain`), and one
which says that a loop which went round its corners still does when there is
more beside it (`StillGoesRound`). `WallsAreShared` is not inductive without
`RunInv`: what a scaffold half way has settled (`Settled`), and that the index
lacks only vertices of earlier operations of the batch (`Indexed`), which is
what `NoSlivers` needs of it.

**ClaimsProofs.** Of `Supersession`: `CurrentIsRight`, `LoadedIsAnswered`,
`HistoryIsRight`, `CyclesAreReported` and `SupersessionTypes`, for models of any
length. `WorkInv` types the walk. `CurrentInv`: everything passed has been left by its replacement
and leads from the claim asked about, so an end which nothing replaces is where
every closed set leads. `HistoryInv`: what has been seen leads to the claim asked
about, and a claim whose replacement has been seen is seen, or is still ahead of
the call on the stack which looks along it; with an empty stack that is closure.
`CycleInv`: what the search for cycles is done with is closed under replacement
and every cycle within it is reported, as a ring which goes round (`Circle`);
what it is walking is a chain of claims it had not met (`Chain`), so where the
walk comes back to its own path is a cycle, and all of it. `CyclesAreReported`
follows when every claim has been walked from.

Of `Resolution`: `ResolveIsRight`, `DisputesAreRegistered` and `AnswersStand`,
for every number of claims and questions. The state is only typed (`ClaimsInv`);
the argument is about `Narrow`: a claim which beats the other rankable ones is
alone in `Smallest` or alone in `MostRecent` of it (`BeatingAnswers`), and one
alone in either beats them (`ResolvedBeats`). That a finite set of figures has a
smallest is `SomeSmallest`.

**FramesProofs.** `RoutesAreRight`, for any finite set of frames and any registry
of them, rooted or not. The walk to a root is a recursive function: that one
exists, and that `Ancestry` is its value, is shown from walks of finitely many
steps (`AncestryClimbs`), and what it has at each step is an induction stated of
a set of naturals (`AllNaturals`), which needs no operator as a parameter.
`WalkInv`: it has passed frames above the one it left, each the parent of the one
before and none twice, and is at the parent of the last; so it ends within as
many steps as there are frames and one, and where it ends in no error what it
passed is closed under parents, hence all there is above (`AncestryIs`). Two such
chains part below the first frame of the one the other passes (`ChainsPart`: a
frame they shared earlier would lie above itself), and the steps of the route are
what is on either side.

`ErrorsAreCountedOnce`, for any claims with any terms besides. The code adds the
errors of a route in the order it reads them and the property speaks of sums over
sets, so the argument has three parts. *Sums*: the folds of the community
modules are the values of recursive functions of a finite set, which are shown
to exist (`FoldsAre`, by sets of one member fewer) and, of naturals, to come to
the same whichever member is taken first (`AnyOrder`); from there on `Sum` is
used by its splitting alone. *Budgets*: `Tallies` relates the terms of a budget
to the terms the claims state. Each source in each unit has one term, at the
greatest any claim states it; and where all is in one unit, the squares and the
systematic magnitudes sum to those of what is stated. A term contributed is of a
source there is a term for (`OldErrorTallies`) or of none (`NewErrorTallies`),
and both keep it. It is not enough to relate the totals: which term a later one
is folded into is what decides them. `Accounts` adds the claims, and every one
which is added keeps it (`AddedAccounts`), read before or not. *Worth*: what is
told of a budget, known or why not, depends only on the claims it accounts for
(`CombinedIs`), equals the reference (`ReferenceIs`) and grows with them
(`TotalGrows`). A route and the one back read the same claims, and one by way of
a third frame reads at least those: what two frames differ in is within what
each and the third do.

**OutlineProofs, rings.** `LoopsAssembleAsRings` and `RingsTypes`, for every set of edges
and vertices and whichever corners are close (`RingConstants`). Merging corners
is a fold over a set of pairs; each pair merged leaves the classes of being close
through any number of the pairs so far (`UniteMerges`), so in whatever order it
takes them the fold ends with those of all (`SameIsMerges`). A loop is then its
edge ends and the corner of each, and a chain the ends its edges are walked from.
The code's three questions become statements about chains: no three ends meet and
the edges do not fall apart exactly where some order of them makes a chain, since
a longest chain which has not passed them all goes on at one of its ends
(`ChainsGrow`); every end meets another exactly where it also comes back
(`RoundsArePaired`, `PairedChainsComeBack`). `RingsInv` says of a walk that each
step goes from one end of its edge to the other, that without a break each begins
where the last ended, and that with one the edges make no chain as listed
(`Walked`). The last is where the choice of the first step matters: along edges
which do make a chain as listed, a walk whose first step meets the second edge
meets every other, whatever way round each was drawn (`NothingBreaks`).

**LineDiffProofs.** `ScriptsShortest` and `HunksPatch`, for texts of any length
over any lines, any depth and any context (`DiffConstants`). `Fewest` is the table of edits between the
beginnings of two texts, built from the lines which match alone; it grows by at
most one with a line more, and not at all along a diagonal of lines which match.
`Searching`: what is kept of each depth and diagonal is as far as that many edits
reach, no less and no further (`Furthest`), and what has not ended is further
apart than the edits made. Reading the furthest places of one edit fewer keeps
it, because a place out of their reach takes an edit more whichever line is
dropped. `WalkingBack`: the walk is at a furthest place of the edits it has
left, and its pairs leave as many lines of the rest as the edits it has undone,
so at the beginning they leave exactly `Fewest`. Trimming takes nothing from it
(`Trimmed`), and a script which keeps pairs in order reads as the one text and
as the other and changes every line it does not keep. `Comparing` is one such
fact for each stage. The giving up is in it too: past the depth no pair is kept,
and the script still reads as both. Then the hunks, whatever the script was:
what a script reads is what its parts read one after another (`PartsRead`), so
that the counts kept as hunks are cut are how much of each text lies before an
edit (`LinesToIs`), and the lines a header names are what the edits between read
(`SliceIs`). Hunks are stretches of the script in order and apart, because two
changes which share no hunk are more than two lots of context from each other
(`HunksGrow`); every change is in one, because the last one ends a hunk
(`HunksCover`). So between two hunks the texts read alike, and what a reader
copies from the one is what the other has there. That texts which are the same
have no hunk is where the two theorems meet: they are no edits apart, and their
script has no more than that.

**RevisionProofs.** `LogsKeepEvidence` and `LogsGoOn`, for every number of files
and set of records. `LogInv` is that the log loads, which is used as
`Unambiguous`: the load asks about the *first* record to write an id and the
first to retire it, and where it accepts they are the only ones. Nothing then
has to be said of which is first in the next revision, where records have been
added before some and after others, and a new record stands alone under its id.
`OrdinaryWorkPasses` and `MergesAreSafe`, for every model, policy and number of
edits, from revisions which write no id twice (`ReviewConstants`); `ReviewTypes`
asks besides that those revisions are within the bound on claims. `ReviewInv`:
no id is ever written twice, and while a change is the write path's alone the
head says all the base says and where it said it, what it retracted is retracted
in favour of a claim which is there, and what was drawn again was measured again
(`Ordinary`, one lemma per operation). What a claim was is then what stands in
its place (`WasIs`), every finding but one contradicts a part of it, and that one
is that nothing answers any more. Of a merge only the ids are used:
they pair the claims of the two revisions (`WasTheSame`), and what the merge
would lose is a finding which the policy rules a failure. `ExportsAreWhole` and
`PublishingTypes`, for every number of runs, files and drawings, kills included:
`PubInv` says what is in each run's own temporary file at each step, that
whatever lies at a destination is whole and of the tree the destination is named
for, and that a run which ended found or left its artefact there. The last part
needs that under one digest every run makes one artefact.

**Only model-checked:** `CallReturns`, `QuestionsAreAnswered` and `WalksEnd`
(liveness under fairness is beyond the prover). `MCAnswers!TypeOK` puts the
types of the components together for its run; each part of it is a theorem about
its component (`SupersessionTypes`, `ResolutionTypes`, `FramesTypes`,
`RingsTypes`, `DiffTypes`, `ReviewTypes`, `ObservationTypes`, `DrawingTypes`,
`PublishingTypes`), and that they share a run is not.

## 5. Not modelled, and the plan

Most of the repository's lines are outside: numeric geometry, triangulation and
interpolation compute with floating point and stay with its own tests; the
writers of IFC and GML, rendering, wording and the fields of forms are
formatting; flags and exit codes are a shell around the calls modelled here; the
checks are pure functions of a loaded graph over that geometry; `.dagger` is
generated code. A reader which loads while a commit renames can see half of it;
no code promises otherwise, and what it derives is keyed by what it read.

What is left, in this order:

1. Assumptions and declared routes, as sequences of the operations `Authoring`
   has, and the boundary a scaffold relates its loop to.
2. The registry's declarations, as what may be declared and then referred to
   within one batch.
