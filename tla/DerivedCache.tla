---------------------------- MODULE DerivedCache ----------------------------
(***************************************************************************)
(* What is derived from a model and kept: the digest a load accumulates    *)
(* over the entity files it reads (cache.go, graph.go), the cache of       *)
(* derived footprints and surfaces keyed by it (cache.go, surface.go), and *)
(* the store each process reads the linked observation files through       *)
(* (link.go).  Processes share the cache directory and the source tree,    *)
(* which is edited under them; each has a graph and a store of its own.    *)
(*                                                                         *)
(* A digest is named by the bytes it is of: the encoding is injective and  *)
(* the hash is taken not to collide.  What a derivation computes is named  *)
(* by what it reads.                                                       *)
(***************************************************************************)
EXTENDS Naturals, FiniteSets

CONSTANTS
    Run,            \* processes which load the model and ask about it
    NumParts,       \* how many entity files the model has
    Bytes,          \* what the bytes of one entity file can be
    NumFiles,       \* how many observation files the model links to
    Shots,          \* what the bytes of one observation file can be
    LinkSets,       \* the sets of observation files one entity links to
    Cited,          \* the files the region of a surface links to itself
    Against,        \* tolerances and position predicates to derive against
    MaxMisplaced,   \* bound: how many entries are out of place at once
    Kinds,          \* what is derived: "footprints", and "surface" or not
    Derives(_, _),  \* whether footprints of a tree derive without diagnostics
    Sound(_),       \* whether an observation file reads without diagnostics
    Enough(_),      \* whether a surface of the shots has no diagnostics
    Unread,         \* not read yet
    Unreadable,     \* could not be read
    Unknown,        \* the zero Digest
    Missing,        \* no observation file at a path
    Nil,            \* the content of an observation file which was not read
    NoEntry,        \* nothing at an entry's path
    Damaged,        \* an entry which does not verify
    None            \* no answer, no result, no question

Part == 1 .. NumParts           \* entity files, in walk order
File == 1 .. NumFiles           \* observation files, in lexical order
Trees == [Part -> Bytes]
Graphs == [Part -> Bytes \union {Unreadable}]

\* The link sets a process can gather: one entity's, or every entity's.
Gatherable == LinkSets \union {Cited, File}

ASSUME CacheAssumption ==
    /\ NumParts \in Nat /\ NumFiles \in Nat /\ MaxMisplaced \in Nat
    /\ LinkSets \subseteq SUBSET File
    /\ Cited \subseteq File
    /\ Kinds \in {{"footprints"}, {"footprints", "surface"}}
    /\ {Unread, Unreadable} \cap Bytes = {} /\ Unread # Unreadable
    /\ Unknown \notin [Part -> Bytes]
    /\ {Unread, Missing, Nil} \cap Shots = {}
    /\ Unread # Missing /\ Unread # Nil /\ Missing # Nil

ASSUME DerivationAssumption ==
    /\ \A g \in Graphs, a \in Against : Derives(g, a) \in BOOLEAN
    /\ \A s \in Shots : Sound(s) \in BOOLEAN
    /\ \A s \in [File -> Shots \union {Nil}] : Enough(s) \in BOOLEAN

VARIABLES
    tree,       \* the entity files on disk
    obs,        \* the observation files on disk
    cache,      \* the cache directory: what is at the path of each Key
    pc,         \* what each process is doing
    read,       \* the bytes its graph is built from
    digest,     \* Graph.digest
    ask,        \* the question it is answering
    kind,       \* which entry it is looking up, deriving or storing
    clean,      \* whether the answer so far carries no diagnostic
    content,    \* observationStore.content
    logs,       \* observationStore.logs
    job,        \* the link set being gathered
    answer      \* the last answer it gave

graphVars == <<read, digest>>
storeVars == <<content, logs, job>>
vars == <<tree, obs, cache, pc, graphVars, ask, kind, clean, storeVars, answer>>

-----------------------------------------------------------------------------
Questions == [kind : Kinds, against : Against]

\* Key and SurfaceKey.  Nothing of an observation file is in either.
Keys == [kind : Kinds, against : Against, digest : Trees]

\* What was derived, by what it was derived from.
FromFiles == [File -> Shots \union {Nil}]
Values == [kind : Kinds, against : Against, graph : Graphs,
           shots : FromFiles \union {None}]

Entries == [key : Keys, value : Values]

Answers == [to : Questions, value : Values, clean : BOOLEAN]

Logs == [shots : FromFiles, clean : BOOLEAN]

Jobs == [links : Gatherable, left : SUBSET File, shots : FromFiles, clean : BOOLEAN]

ASSUME EntryAssumption ==
    /\ {NoEntry, Damaged} \cap Entries = {}
    /\ None \notin Questions \union FromFiles

NotRead == [f \in File |-> Unread]
NotGathered == [L \in Gatherable |-> None]
NothingRead == [p \in Part |-> Unread]

Phases == {"off", "loading", "ready", "look", "discard", "derive", "storing",
           "gather"}

TypeOK ==
    /\ tree \in Trees
    /\ obs \in [File -> Shots \union {Missing}]
    /\ cache \in [Keys -> Entries \union {NoEntry, Damaged}]
    /\ pc \in [Run -> Phases]
    /\ read \in [Run -> [Part -> Bytes \union {Unread, Unreadable}]]
    /\ digest \in [Run -> Trees \union {Unknown}]
    /\ ask \in [Run -> Questions \union {None}]
    /\ kind \in [Run -> Kinds]
    /\ clean \in [Run -> BOOLEAN]
    /\ content \in [Run -> [File -> Shots \union {Unread, Nil}]]
    /\ logs \in [Run -> [Gatherable -> Logs \union {None}]]
    /\ job \in [Run -> Jobs \union {None}]
    /\ answer \in [Run -> Answers \union {None}]

-----------------------------------------------------------------------------
IsFirst(p, S) == p \in S /\ \A q \in S : p <= q

\* The key of what process r is looking up, which it has only where its graph
\* has a digest.
KeyOf(r) == [kind |-> kind[r], against |-> ask[r].against, digest |-> digest[r]]

Cacheable(r) == digest[r] # Unknown

\* (mutant of Verifies) the key inside an entry is not looked at.
VerifiesAnywhere(entry, key) == entry \in Entries

\* decodeEntry and decodeSurfaceEntry: an entry verifies only against the key
\* it was written under.
Verifies(entry, key) == entry \in Entries /\ entry.key = key

\* What deriving from the graph in hand gives.
Derived(r) ==
    [kind    |-> kind[r],
     against |-> ask[r].against,
     graph   |-> read[r],
     shots   |-> IF kind[r] = "surface" THEN logs[r][File].shots ELSE None]

\* What a refused region leaves, which is nothing of the observation files.
NoSurface(r) ==
    [kind |-> "footprints", against |-> ask[r].against, graph |-> read[r], shots |-> None]

\* The question is answered: the process has value, and diagnostics if ~sure.
Finish(r, value, sure) ==
    /\ pc' = [pc EXCEPT ![r] = "ready"]
    /\ ask' = [ask EXCEPT ![r] = None]
    /\ answer' = [answer EXCEPT ![r] = [to |-> ask[r], value |-> value, clean |-> sure]]

\* Footprints are in hand.  They are the answer, or the first half of a
\* surface, whose shots are gathered next unless the region is one no shot can
\* be placed in: not derived, covering no area or in no plane.
HaveFootprints(r, value, sure) ==
    \/ /\ \/ ask[r].kind = "footprints" /\ Finish(r, value, sure)
          \/ ask[r].kind = "surface" /\ Finish(r, value, FALSE)
       /\ UNCHANGED <<kind, clean>>
    \/ /\ ask[r].kind = "surface"
       /\ pc' = [pc EXCEPT ![r] = "gather"]
       /\ kind' = [kind EXCEPT ![r] = "surface"]
       /\ clean' = [clean EXCEPT ![r] = sure]
       /\ UNCHANGED <<ask, answer>>

\* The value is in hand, from the cache or from a derivation.
Have(r, value, sure) ==
    \/ /\ kind[r] = "footprints"
       /\ HaveFootprints(r, value, sure)
    \/ /\ kind[r] = "surface"
       /\ Finish(r, value, sure)
       /\ UNCHANGED <<kind, clean>>

-----------------------------------------------------------------------------
Init ==
    /\ tree \in Trees
    /\ obs \in [File -> Shots]
    /\ cache = [k \in Keys |-> NoEntry]
    /\ pc = [r \in Run |-> "off"]
    /\ read = [r \in Run |-> NothingRead]
    /\ digest = [r \in Run |-> Unknown]
    /\ ask = [r \in Run |-> None]
    /\ kind = [r \in Run |-> "footprints"]
    /\ clean = [r \in Run |-> TRUE]
    /\ content = [r \in Run |-> NotRead]
    /\ logs = [r \in Run |-> NotGathered]
    /\ job = [r \in Run |-> None]
    /\ answer = [r \in Run |-> None]

(***************************************************************************)
(* LoadGraph.                                                              *)
(***************************************************************************)

Start(r) ==
    /\ pc[r] = "off"
    /\ pc' = [pc EXCEPT ![r] = "loading"]
    /\ UNCHANGED <<tree, obs, cache, graphVars, ask, kind, clean, storeVars, answer>>

\* readTree's next file, whose bytes go to the graph and to its digest.
LoadPart(r) ==
    /\ pc[r] = "loading"
    /\ \E p \in Part :
         /\ IsFirst(p, {q \in Part : read[r][q] = Unread})
         /\ \E src \in {tree[p], Unreadable} :
               read' = [read EXCEPT ![r][p] = src]
    /\ UNCHANGED <<tree, obs, cache, pc, digest, ask, kind, clean, storeVars, answer>>

\* (mutant of Loaded) the digest is DigestOf the tree, once it has been read.
LoadedThenDigested(r) ==
    /\ pc[r] = "loading"
    /\ \A p \in Part : read[r][p] # Unread
    /\ digest' = [digest EXCEPT ![r] = tree]
    /\ pc' = [pc EXCEPT ![r] = "ready"]
    /\ UNCHANGED <<tree, obs, cache, read, ask, kind, clean, storeVars, answer>>

\* treeDigest.digest: the digest of what was read, or the zero one where a
\* file could not be.
Loaded(r) ==
    /\ pc[r] = "loading"
    /\ \A p \in Part : read[r][p] # Unread
    /\ digest' = [digest EXCEPT ![r] = IF read[r] \in Trees THEN read[r] ELSE Unknown]
    /\ pc' = [pc EXCEPT ![r] = "ready"]
    /\ UNCHANGED <<tree, obs, cache, read, ask, kind, clean, storeVars, answer>>

(***************************************************************************)
(* Graph.Derive and Graph.SurfaceWithin.                                   *)
(***************************************************************************)

Ask(r) ==
    /\ pc[r] = "ready"
    /\ \E q \in Questions :
         /\ ask' = [ask EXCEPT ![r] = q]
         /\ kind' = [kind EXCEPT ![r] = q.kind]
    /\ clean' = [clean EXCEPT ![r] = TRUE]
    /\ answer' = [answer EXCEPT ![r] = None]
    /\ pc' = [pc EXCEPT ![r] = "look"]
    /\ UNCHANGED <<tree, obs, cache, graphVars, storeVars>>

\* fetch: the entry verifies against the key it was asked for under.
Hit(r) ==
    /\ pc[r] = "look"
    /\ Cacheable(r)
    /\ Verifies(cache[KeyOf(r)], KeyOf(r))
    /\ Have(r, cache[KeyOf(r)].value, TRUE)
    /\ UNCHANGED <<tree, obs, cache, graphVars, storeVars>>

\* fetch: no digest to ask under, or nothing there.
Miss(r) ==
    /\ pc[r] = "look"
    /\ Cacheable(r) => cache[KeyOf(r)] = NoEntry
    /\ pc' = [pc EXCEPT ![r] = "derive"]
    /\ UNCHANGED <<tree, obs, cache, graphVars, ask, kind, clean, storeVars, answer>>

\* fetch: something is there which could not be read or does not verify.
Spoiled(r) ==
    /\ pc[r] = "look"
    /\ Cacheable(r)
    /\ cache[KeyOf(r)] # NoEntry
    /\ pc' = [pc EXCEPT ![r] = "discard"]
    /\ UNCHANGED <<tree, obs, cache, graphVars, ask, kind, clean, storeVars, answer>>

\* (mutant of Discard) the lookup is made again once the entry was discarded.
DiscardAndLookAgain(r) ==
    /\ pc[r] = "discard"
    /\ cache' \in {cache, [cache EXCEPT ![KeyOf(r)] = NoEntry]}
    /\ pc' = [pc EXCEPT ![r] = "look"]
    /\ UNCHANGED <<tree, obs, graphVars, ask, kind, clean, storeVars, answer>>

\* discard removes whatever is at the path by now, or does not manage to.
Discard(r) ==
    /\ pc[r] = "discard"
    /\ cache' \in {cache, [cache EXCEPT ![KeyOf(r)] = NoEntry]}
    /\ pc' = [pc EXCEPT ![r] = "derive"]
    /\ UNCHANGED <<tree, obs, graphVars, ask, kind, clean, storeVars, answer>>

\* Graph.derive.  Only footprints derived without a diagnostic are stored.
DeriveFootprints(r) ==
    /\ pc[r] = "derive"
    /\ kind[r] = "footprints"
    /\ \/ /\ Derives(read[r], ask[r].against)
          /\ Cacheable(r)
          /\ pc' = [pc EXCEPT ![r] = "storing"]
          /\ UNCHANGED <<ask, kind, clean, answer>>
       \/ /\ ~(Derives(read[r], ask[r].against) /\ Cacheable(r))
          /\ HaveFootprints(r, Derived(r), Derives(read[r], ask[r].against))
    /\ UNCHANGED <<tree, obs, cache, graphVars, storeVars>>

\* Graph.surface begins with the footprint of the region, which it derives
\* through the cache in turn, unless there is no such region or tolerance.
DeriveRegion(r) ==
    /\ pc[r] = "derive"
    /\ kind[r] = "surface"
    /\ kind' = [kind EXCEPT ![r] = "footprints"]
    /\ \/ /\ pc' = [pc EXCEPT ![r] = "look"]
          /\ UNCHANGED <<ask, answer>>
       \/ Finish(r, NoSurface(r), FALSE)
    /\ UNCHANGED <<tree, obs, cache, graphVars, clean, storeVars>>

\* The shots of every linked file are gathered, and the region's own are told
\* from the rest (Graph.cites, which drops what is reported of them): the surface is interpolated,
\* and is stored where nothing was reported on the way.
DeriveSurface(r) ==
    /\ pc[r] = "gather"
    /\ job[r] = None
    /\ ask[r] # None
    /\ logs[r][File] # None
    /\ Cited # {} => logs[r][Cited] # None
    /\ LET sure == /\ clean[r]
                   /\ logs[r][File].clean
                   /\ Enough(logs[r][File].shots)
       IN \/ /\ sure
             /\ Cacheable(r)
             /\ pc' = [pc EXCEPT ![r] = "storing"]
             /\ UNCHANGED <<ask, answer>>
          \/ /\ ~(sure /\ Cacheable(r))
             /\ Finish(r, Derived(r), sure)
    /\ UNCHANGED <<tree, obs, cache, graphVars, kind, clean, storeVars>>

\* put's rename.
Store(r) ==
    /\ pc[r] = "storing"
    /\ cache' = [cache EXCEPT ![KeyOf(r)] = [key |-> KeyOf(r), value |-> Derived(r)]]
    /\ Have(r, Derived(r), TRUE)
    /\ UNCHANGED <<tree, obs, graphVars, storeVars>>

\* Any step of put failed, the directory having been pruned from under it for
\* one: nothing is stored and the answer is the same.
StoreFails(r) ==
    /\ pc[r] = "storing"
    /\ Have(r, Derived(r), TRUE)
    /\ UNCHANGED <<tree, obs, cache, graphVars, storeVars>>

(***************************************************************************)
(* observationStore.gather.                                                *)
(***************************************************************************)

\* Graph.Observations of an entity.
AskObservations(r) ==
    /\ pc[r] = "ready"
    /\ \E L \in LinkSets :
         /\ logs[r][L] = None
         /\ job' = [job EXCEPT ![r] =
                      [links |-> L, left |-> L, shots |-> [f \in File |-> Nil],
                       clean |-> TRUE]]
    /\ pc' = [pc EXCEPT ![r] = "gather"]
    /\ UNCHANGED <<tree, obs, cache, graphVars, ask, kind, clean, content, logs, answer>>

\* Graph.AllObservations, within a surface.
GatherAll(r) ==
    /\ pc[r] = "gather"
    /\ job[r] = None
    /\ ask[r] # None
    /\ logs[r][File] = None
    /\ job' = [job EXCEPT ![r] =
                 [links |-> File, left |-> File, shots |-> [f \in File |-> Nil],
                  clean |-> TRUE]]
    /\ UNCHANGED <<tree, obs, cache, pc, graphVars, ask, kind, clean, content, logs, answer>>

\* Graph.cites, of the region itself.
GatherCited(r) ==
    /\ pc[r] = "gather"
    /\ job[r] = None
    /\ ask[r] # None
    /\ logs[r][File] # None
    /\ Cited # {} /\ logs[r][Cited] = None
    /\ job' = [job EXCEPT ![r] =
                 [links |-> Cited, left |-> Cited, shots |-> [f \in File |-> Nil],
                  clean |-> TRUE]]
    /\ UNCHANGED <<tree, obs, cache, pc, graphVars, ask, kind, clean, content, logs, answer>>

\* The bytes of file f are parsed into the log.
Parsed(r, f, src) ==
    job' = [job EXCEPT ![r].left = @ \ {f},
                       ![r].shots[f] = src,
                       ![r].clean = @ /\ (src = Nil \/ Sound(src))]

Reported(r, f) ==
    job' = [job EXCEPT ![r].left = @ \ {f}, ![r].clean = FALSE]

Gathering(r, f) ==
    /\ pc[r] = "gather"
    /\ job[r] # None
    /\ IsFirst(f, job[r].left)

\* checkObservationLink finds no file, which is reported.
LinkBroken(r) ==
    /\ \E f \in File :
         /\ Gathering(r, f)
         /\ obs[f] = Missing
         /\ Reported(r, f)
    /\ UNCHANGED <<tree, obs, cache, pc, graphVars, ask, kind, clean, content, logs, answer>>

\* (mutant of ReadBefore) the file is read again.
ReadAgain(r) ==
    /\ \E f \in File :
         /\ Gathering(r, f)
         /\ obs[f] # Missing
         /\ content[r][f] # Unread
         /\ Parsed(r, f, obs[f])
    /\ UNCHANGED <<tree, obs, cache, pc, graphVars, ask, kind, clean, content, logs, answer>>

\* bytes: the file was read before, or could not be and is held as nothing.
ReadBefore(r) ==
    /\ \E f \in File :
         /\ Gathering(r, f)
         /\ obs[f] # Missing
         /\ content[r][f] # Unread
         /\ Parsed(r, f, content[r][f])
    /\ UNCHANGED <<tree, obs, cache, pc, graphVars, ask, kind, clean, content, logs, answer>>

\* (mutant of ReadObservations) whether the file is there is not looked at.
ReadUnchecked(r) ==
    /\ \E f \in File :
         /\ Gathering(r, f)
         /\ content[r][f] = Unread
         /\ content' = [content EXCEPT ![r][f] = obs[f]]
         /\ Parsed(r, f, obs[f])
    /\ UNCHANGED <<tree, obs, cache, pc, graphVars, ask, kind, clean, logs, answer>>

\* bytes: the file is read, and held from here on.
ReadObservations(r) ==
    /\ \E f \in File :
         /\ Gathering(r, f)
         /\ obs[f] # Missing
         /\ content[r][f] = Unread
         /\ content' = [content EXCEPT ![r][f] = obs[f]]
         /\ Parsed(r, f, obs[f])
    /\ UNCHANGED <<tree, obs, cache, pc, graphVars, ask, kind, clean, logs, answer>>

\* The read failed: this is reported, and the path is remembered as read.
ReadFails(r) ==
    /\ \E f \in File :
         /\ Gathering(r, f)
         /\ obs[f] # Missing
         /\ content[r][f] = Unread
         /\ content' = [content EXCEPT ![r][f] = Nil]
         /\ Reported(r, f)
    /\ UNCHANGED <<tree, obs, cache, pc, graphVars, ask, kind, clean, logs, answer>>

\* The log is held from here on, with what was reported of it.
Gathered(r) ==
    /\ pc[r] = "gather"
    /\ job[r] # None
    /\ job[r].left = {}
    /\ logs' = [logs EXCEPT ![r][job[r].links] =
                  [shots |-> job[r].shots, clean |-> job[r].clean]]
    /\ job' = [job EXCEPT ![r] = None]
    /\ pc' = [pc EXCEPT ![r] = IF ask[r] = None THEN "ready" ELSE "gather"]
    /\ UNCHANGED <<tree, obs, cache, graphVars, ask, kind, clean, content, answer>>

(***************************************************************************)
(* Everything else which happens to a process and to the files.            *)
(***************************************************************************)

\* The process ends, wherever it is.  A temporary file of put's is not an
\* entry and is left.
Exit(r) ==
    /\ pc[r] # "off"
    /\ pc' = [pc EXCEPT ![r] = "off"]
    /\ read' = [read EXCEPT ![r] = NothingRead]
    /\ digest' = [digest EXCEPT ![r] = Unknown]
    /\ ask' = [ask EXCEPT ![r] = None]
    /\ kind' = [kind EXCEPT ![r] = "footprints"]
    /\ clean' = [clean EXCEPT ![r] = TRUE]
    /\ content' = [content EXCEPT ![r] = NotRead]
    /\ logs' = [logs EXCEPT ![r] = NotGathered]
    /\ job' = [job EXCEPT ![r] = None]
    /\ answer' = [answer EXCEPT ![r] = None]
    /\ UNCHANGED <<tree, obs, cache>>

memory == <<pc, graphVars, ask, kind, clean, storeVars, answer>>

EditTree ==
    /\ \E p \in Part, b \in Bytes : tree' = [tree EXCEPT ![p] = b]
    /\ UNCHANGED <<obs, cache, memory>>

\* A survey is added to, corrected, moved away or put back.
EditObservations ==
    /\ \E f \in File, s \in Shots \union {Missing} : obs' = [obs EXCEPT ![f] = s]
    /\ UNCHANGED <<tree, cache, memory>>

\* An entry is damaged: put does not flush what it renames, and nothing
\* protects a build output.
Damage ==
    /\ \E k \in Keys :
         /\ cache[k] # NoEntry
         /\ cache' = [cache EXCEPT ![k] = Damaged]
    /\ UNCHANGED <<tree, obs, memory>>

Misplaced == {k \in Keys : cache[k] \in Entries /\ cache[k].key # k}

\* An entry is moved or copied by hand to the path of another.
Misplace ==
    /\ Cardinality(Misplaced) < MaxMisplaced
    /\ \E k, l \in Keys :
         /\ cache[k] # NoEntry
         /\ cache' = [cache EXCEPT ![l] = cache[k]]
    /\ UNCHANGED <<tree, obs, memory>>

\* Prune's RemoveAll of a revision, or of the cache directory, reaches an entry.
Prune ==
    /\ \E k \in Keys :
         /\ cache[k] # NoEntry
         /\ cache' = [cache EXCEPT ![k] = NoEntry]
    /\ UNCHANGED <<tree, obs, memory>>

-----------------------------------------------------------------------------
\* The steps of a load, of a question or of a gathering.
Progress(r) ==
    \/ LoadPart(r) \/ Loaded(r)
    \/ Hit(r) \/ Miss(r) \/ Spoiled(r) \/ Discard(r)
    \/ DeriveFootprints(r) \/ DeriveRegion(r) \/ DeriveSurface(r)
    \/ Store(r) \/ StoreFails(r)
    \/ GatherAll(r) \/ GatherCited(r) \/ LinkBroken(r) \/ ReadBefore(r) \/ ReadObservations(r)
    \/ ReadFails(r) \/ Gathered(r)

RunStep(r) == Start(r) \/ Ask(r) \/ AskObservations(r) \/ Progress(r) \/ Exit(r)

Environment == EditTree \/ EditObservations \/ Damage \/ Misplace \/ Prune

Next == (\E r \in Run : RunStep(r)) \/ Environment

Spec == Init /\ [][Next]_vars

\* A process which was not killed computes: nothing in it waits.
Fairness == \A r \in Run : WF_vars(Progress(r))

FairSpec == Spec /\ Fairness

-----------------------------------------------------------------------------
(***************************************************************************)
(* Properties.                                                             *)
(***************************************************************************)

\* A value which may be handed out without a diagnostic.
IsClean(value) ==
    /\ Derives(value.graph, value.against)
    /\ value.kind = "surface" => value.shots # None /\ Enough(value.shots)

Describes(key, value) ==
    /\ value.kind = key.kind
    /\ value.against = key.against
    /\ value.graph = key.digest
    /\ IsClean(value)

\* An entry which verifies where it is found was derived, without a diagnostic,
\* from a tree with the digest and under the parameters it is found under.
EntriesAreSound ==
    \A k \in Keys : Verifies(cache[k], k) => Describes(k, cache[k].value)

AnswerIsDerived(r) ==
    answer[r] # None =>
        LET a == answer[r]
        IN  /\ a.value.graph = read[r]
            /\ a.value.against = a.to.against
            /\ a.clean => a.value.kind = a.to.kind /\ IsClean(a.value)
            /\ a.to.kind = "footprints" => a.clean = Derives(read[r], a.to.against)

\* The cache is advisory: footprints are those of the bytes the process loaded,
\* with the diagnostics deriving them would report, whatever the cache holds
\* and whatever became of the tree since.  A surface stands on the same bytes.
AnswersAreDerived == \A r \in Run : AnswerIsDerived(r)

\* A process reads an observation file once: two logs it gathered hold the same
\* records of a file they share, however the file was edited in between.
OneReadPerFile ==
    \A r \in Run : \A L, M \in Gatherable : \A f \in L \cap M :
        logs[r][L] # None /\ logs[r][M] # None =>
            \/ logs[r][L].shots[f] = logs[r][M].shots[f]
            \/ Nil \in {logs[r][L].shots[f], logs[r][M].shots[f]}

(***************************************************************************)
(* The inductive invariant behind EntriesAreSound and AnswersAreDerived.   *)
(***************************************************************************)

\* Wherever it was moved to, an entry is sound under the key it was written
\* under: it can be moved back.
EntriesStaySound ==
    \A k \in Keys : cache[k] \in Entries => Describes(cache[k].key, cache[k].value)

\* A process asks of a whole graph, under the digest of that graph or none,
\* and stores only what it derived from it without a diagnostic.
RunInv(r) ==
    /\ pc[r] \in {"off", "loading"} => digest[r] = Unknown /\ answer[r] = None
    /\ pc[r] \notin {"off", "loading"} => read[r] \in Graphs
    /\ digest[r] # Unknown => digest[r] = read[r]
    /\ pc[r] \in {"off", "loading", "ready"} => ask[r] = None
    /\ pc[r] \in {"look", "discard", "derive", "storing"} =>
         /\ ask[r] # None
         /\ kind[r] \in {"footprints", ask[r].kind}
    /\ pc[r] \in {"discard", "storing"} => digest[r] # Unknown
    /\ pc[r] = "gather" /\ ask[r] # None =>
         /\ ask[r].kind = "surface"
         /\ kind[r] = "surface"
         /\ clean[r] => Derives(read[r], ask[r].against)
    /\ pc[r] = "storing" =>
         /\ Derives(read[r], ask[r].against)
         /\ kind[r] = "surface" =>
              /\ logs[r][File] # None
              /\ Enough(logs[r][File].shots)
    /\ ask[r] # None => answer[r] = None

CacheInv ==
    /\ TypeOK
    /\ EntriesStaySound
    /\ AnswersAreDerived
    /\ \A r \in Run : RunInv(r)

\* A question is answered, whatever state the cache and the files are in, or
\* the process was killed.
QuestionsAreAnswered == \A r \in Run : ask[r] # None ~> ask[r] = None

\* What surface.go says of the cache: without it, SurfaceWithin would return the
\* same.  Gathered now, a file's shots are the ones the process holds, or the
\* ones on disk.
SurfacesAreFresh ==
    [][\A r \in Run :
         /\ answer'[r] \notin {None, answer[r]}
         /\ answer'[r].to.kind = "surface"
         /\ answer'[r].clean
         => \A f \in File :
              answer'[r].value.shots[f] =
                  IF content[r][f] = Unread THEN obs[f] ELSE content[r][f]]_vars

\* What link.go says of a file which could not be read: it is reported once per
\* link set, so a log without a diagnostic holds every file of its set.
UnreadFilesAreReported ==
    \A r \in Run, L \in Gatherable :
        logs[r][L] # None /\ logs[r][L].clean =>
            \A f \in L : logs[r][L].shots[f] # Nil
=============================================================================
