------------------------- MODULE DerivedCacheProofs -------------------------
(***************************************************************************)
(* Proofs about DerivedCache for every number of processes, of entity      *)
(* files and of observation files, and every derivation.                   *)
(***************************************************************************)
EXTENDS DerivedCache, TLAPS

LEMMA CacheInit == Init => CacheInv
BY CacheAssumption, EntryAssumption
DEF Init, CacheInv, TypeOK, EntriesStaySound, AnswersAreDerived,
    AnswerIsDerived, RunInv,
    Trees, Phases, NothingRead, NotRead, NotGathered, Entries

-----------------------------------------------------------------------------
(* What the helpers return.                                                *)

\* A process which is asked something and has a digest has a key.
LEMMA KeyIsKey ==
    ASSUME CacheInv, NEW r \in Run, ask[r] # None, digest[r] # Unknown
    PROVE  /\ KeyOf(r) \in Keys
           /\ KeyOf(r).kind = kind[r]
           /\ KeyOf(r).against = ask[r].against
           /\ KeyOf(r).digest = read[r]
BY DEF CacheInv, TypeOK, RunInv, KeyOf, Keys, Questions

LEMMA DerivedIsValue ==
    ASSUME CacheInv, NEW r \in Run, pc[r] \notin {"off", "loading"}, ask[r] # None,
           kind[r] = "surface" => logs[r][File] # None
    PROVE  /\ Derived(r) \in Values
           /\ Derived(r).kind = kind[r]
           /\ Derived(r).against = ask[r].against
           /\ Derived(r).graph = read[r]
           /\ Derived(r).shots = IF kind[r] = "surface" THEN logs[r][File].shots ELSE None
<1>1. ask[r] \in Questions /\ read[r] \in Graphs /\ kind[r] \in Kinds
  BY DEF CacheInv, TypeOK, RunInv
<1>2. kind[r] = "surface" => logs[r][File].shots \in FromFiles
  BY DEF CacheInv, TypeOK, Gatherable, Logs
<1>3. QED
  BY <1>1, <1>2 DEF Derived, Values, Questions

\* What an entry served to a process holds.
LEMMA ServedIsValue ==
    ASSUME CacheInv, NEW r \in Run, ask[r] # None, digest[r] # Unknown,
           Verifies(cache[KeyOf(r)], KeyOf(r))
    PROVE  /\ cache[KeyOf(r)].value \in Values
           /\ cache[KeyOf(r)].value.kind = kind[r]
           /\ cache[KeyOf(r)].value.against = ask[r].against
           /\ cache[KeyOf(r)].value.graph = read[r]
           /\ IsClean(cache[KeyOf(r)].value)
<1>1. KeyOf(r) \in Keys
  BY KeyIsKey
<1>2. cache[KeyOf(r)].value \in Values
  BY DEF Verifies, Entries
<1>3. QED
  BY <1>1, <1>2, KeyIsKey DEF CacheInv, EntriesStaySound, Verifies, Describes

\* What Have gives the process which has a value: it has finished, or it goes
\* on to the shots of a surface.
LEMMA HaveGives ==
    ASSUME CacheInv, NEW r \in Run, pc[r] \in {"look", "derive", "storing"},
           NEW value \in Values, NEW sure \in BOOLEAN, Have(r, value, sure)
    PROVE  \/ /\ \/ Finish(r, value, sure)
                 \/ kind[r] = "footprints" /\ ask[r].kind = "surface" /\ Finish(r, value, FALSE)
              /\ UNCHANGED <<kind, clean>>
           \/ /\ ask[r].kind = "surface"
              /\ pc' = [pc EXCEPT ![r] = "gather"]
              /\ kind' = [kind EXCEPT ![r] = "surface"]
              /\ clean' = [clean EXCEPT ![r] = sure]
              /\ UNCHANGED <<ask, answer>>
BY DEF Have, HaveFootprints

-----------------------------------------------------------------------------
(* The types.                                                              *)

LEMMA HaveTypes ==
    ASSUME CacheInv, NEW r \in Run, pc[r] \in {"look", "derive", "storing"},
           NEW value \in Values, NEW sure \in BOOLEAN, Have(r, value, sure)
    PROVE  /\ pc' \in [Run -> Phases]
           /\ ask' \in [Run -> Questions \union {None}]
           /\ kind' \in [Run -> Kinds]
           /\ clean' \in [Run -> BOOLEAN]
           /\ answer' \in [Run -> Answers \union {None}]
<1>1. ask[r] \in Questions
  BY DEF CacheInv, TypeOK, RunInv
<1>2. ASSUME NEW told \in BOOLEAN, Finish(r, value, told), UNCHANGED <<kind, clean>>
      PROVE  /\ pc' \in [Run -> Phases]
             /\ ask' \in [Run -> Questions \union {None}]
             /\ kind' \in [Run -> Kinds]
             /\ clean' \in [Run -> BOOLEAN]
             /\ answer' \in [Run -> Answers \union {None}]
  <2>1. [to |-> ask[r], value |-> value, clean |-> told] \in Answers
    BY <1>1 DEF Answers
  <2>2. QED
    BY <1>2, <2>1 DEF CacheInv, TypeOK, Finish, Phases
<1>3. CASE /\ ask[r].kind = "surface"
           /\ pc' = [pc EXCEPT ![r] = "gather"]
           /\ kind' = [kind EXCEPT ![r] = "surface"]
           /\ clean' = [clean EXCEPT ![r] = sure]
           /\ UNCHANGED <<ask, answer>>
  <2>1. "surface" \in Kinds
    BY <1>1, <1>3 DEF Questions
  <2>2. QED
    BY <1>3, <2>1 DEF CacheInv, TypeOK, Phases
<1>4. CASE Finish(r, value, sure) /\ UNCHANGED <<kind, clean>>
  BY <1>2, <1>4
<1>5. CASE Finish(r, value, FALSE) /\ UNCHANGED <<kind, clean>>
  BY <1>2, <1>5
<1>6. \/ Finish(r, value, sure) /\ UNCHANGED <<kind, clean>>
      \/ ask[r].kind = "surface" /\ Finish(r, value, FALSE) /\ UNCHANGED <<kind, clean>>
      \/ /\ ask[r].kind = "surface"
         /\ pc' = [pc EXCEPT ![r] = "gather"]
         /\ kind' = [kind EXCEPT ![r] = "surface"]
         /\ clean' = [clean EXCEPT ![r] = sure]
         /\ UNCHANGED <<ask, answer>>
  BY HaveGives
<1>7. QED  BY <1>3, <1>4, <1>5, <1>6

LEMMA TypeLoad ==
    ASSUME CacheInv, NEW r \in Run, Start(r) \/ LoadPart(r) \/ Loaded(r) \/ Exit(r)
    PROVE  TypeOK'
<1> USE DEF CacheInv, TypeOK, graphVars, storeVars, Phases
<1>1. CASE Start(r)
  BY <1>1 DEF Start
<1>2. CASE LoadPart(r)
  <2>1. PICK p \in Part : \E src \in {tree[p], Unreadable} :
            read' = [read EXCEPT ![r][p] = src]
    BY <1>2 DEF LoadPart
  <2>2. {tree[p], Unreadable} \subseteq Bytes \union {Unreadable}
    BY DEF Trees
  <2>3. read' \in [Run -> [Part -> Bytes \union {Unread, Unreadable}]]
    BY <2>1, <2>2
  <2>4. QED  BY <1>2, <2>3 DEF LoadPart
<1>3. CASE Loaded(r)
  BY <1>3 DEF Loaded
<1>4. CASE Exit(r)
  BY <1>4, CacheAssumption DEF Exit, NothingRead, NotRead, NotGathered
<1>5. QED  BY <1>1, <1>2, <1>3, <1>4

LEMMA TypeAsk ==
    ASSUME CacheInv, NEW r \in Run,
           \/ Ask(r) \/ Hit(r) \/ Miss(r) \/ Spoiled(r) \/ Discard(r)
           \/ DeriveFootprints(r) \/ DeriveRegion(r) \/ DeriveSurface(r)
           \/ Store(r) \/ StoreFails(r)
    PROVE  TypeOK'
<1> USE DEF CacheInv, TypeOK, graphVars, storeVars
<1>1. CASE Ask(r)
  BY <1>1 DEF Ask, Questions, Phases
<1>2. CASE Hit(r)
  <2>1. /\ pc[r] = "look" /\ digest[r] # Unknown /\ ask[r] # None
        /\ Verifies(cache[KeyOf(r)], KeyOf(r))
        /\ Have(r, cache[KeyOf(r)].value, TRUE)
    BY <1>2 DEF Hit, Cacheable, RunInv
  <2>2. cache[KeyOf(r)].value \in Values
    BY <2>1, ServedIsValue
  <2>3. QED
    BY <1>2, <2>1, <2>2, HaveTypes DEF Hit
<1>3. CASE Miss(r) \/ Spoiled(r)
  BY <1>3 DEF Miss, Spoiled, Phases
<1>4. CASE Discard(r)
  <2>1. /\ ask[r] # None /\ digest[r] # Unknown
    BY <1>4 DEF Discard, RunInv
  <2>2. cache' \in [Keys -> Entries \union {NoEntry, Damaged}]
    BY <1>4, <2>1, KeyIsKey DEF Discard
  <2>3. QED  BY <1>4, <2>2 DEF Discard, Phases
<1>5. CASE DeriveFootprints(r)
  <2>1. /\ pc[r] = "derive" /\ kind[r] = "footprints" /\ ask[r] # None
        /\ read[r] \in Graphs /\ ask[r].against \in Against
    BY <1>5 DEF DeriveFootprints, RunInv, Questions
  <2>2. Derived(r) \in Values /\ Derives(read[r], ask[r].against) \in BOOLEAN
    BY <2>1, DerivedIsValue, DerivationAssumption
  <2>3. CASE /\ pc' = [pc EXCEPT ![r] = "storing"]
             /\ UNCHANGED <<ask, kind, clean, answer>>
    BY <1>5, <2>3 DEF DeriveFootprints, Phases
  <2>4. CASE HaveFootprints(r, Derived(r), Derives(read[r], ask[r].against))
    <3>1. Have(r, Derived(r), Derives(read[r], ask[r].against))
      BY <2>1, <2>4 DEF Have
    <3>2. QED  BY <1>5, <2>1, <2>2, <3>1, HaveTypes DEF DeriveFootprints
  <2>5. QED  BY <1>5, <2>3, <2>4 DEF DeriveFootprints
<1>6. CASE DeriveRegion(r)
  <2>1. ask[r] \in Questions /\ read[r] \in Graphs /\ "footprints" \in Kinds
    BY <1>6, CacheAssumption DEF DeriveRegion, RunInv
  <2>2. [to |-> ask[r], value |-> NoSurface(r), clean |-> FALSE] \in Answers
    BY <2>1 DEF Answers, NoSurface, Values, Questions
  <2>3. UNCHANGED <<tree, obs, cache, read, digest, clean, content, logs, job>>
    BY <1>6 DEF DeriveRegion
  <2>4. kind' \in [Run -> Kinds]
    BY <1>6, <2>1 DEF DeriveRegion
  <2>5. /\ pc' \in [Run -> Phases]
        /\ ask' \in [Run -> Questions \union {None}]
        /\ answer' \in [Run -> Answers \union {None}]
    <3>1. CASE pc' = [pc EXCEPT ![r] = "look"] /\ UNCHANGED <<ask, answer>>
      BY <3>1 DEF Phases
    <3>2. CASE Finish(r, NoSurface(r), FALSE)
      BY <3>2, <2>2 DEF Finish, Phases
    <3>3. QED  BY <1>6, <3>1, <3>2 DEF DeriveRegion
  <2>6. QED  BY <2>3, <2>4, <2>5
<1>7. CASE DeriveSurface(r)
  <2>1. /\ pc[r] = "gather" /\ kind[r] = "surface" /\ ask[r] # None
        /\ logs[r][File] # None
    BY <1>7 DEF DeriveSurface, RunInv
  <2>2. Derived(r) \in Values /\ ask[r] \in Questions
    BY <2>1, DerivedIsValue
  <2>3. logs[r][File].shots \in FromFiles /\ logs[r][File].clean \in BOOLEAN
    BY <2>1 DEF Gatherable, Logs
  <2> DEFINE sure == clean[r] /\ logs[r][File].clean /\ Enough(logs[r][File].shots)
  <2>4. sure \in BOOLEAN
    BY <2>3, DerivationAssumption DEF FromFiles
  <2>5. [to |-> ask[r], value |-> Derived(r), clean |-> sure] \in Answers
    BY <2>2, <2>4 DEF Answers
  <2>6. UNCHANGED <<tree, obs, cache, graphVars, kind, clean, storeVars>>
    BY <1>7 DEF DeriveSurface
  <2>7. \/ pc' = [pc EXCEPT ![r] = "storing"] /\ UNCHANGED <<ask, answer>>
        \/ Finish(r, Derived(r), sure)
    BY <1>7 DEF DeriveSurface
  <2> HIDE DEF sure
  <2>8. /\ pc' \in [Run -> Phases]
        /\ ask' \in [Run -> Questions \union {None}]
    BY <2>7 DEF Finish, Phases
  <2>9. answer' \in [Run -> Answers \union {None}]
    BY <2>5, <2>7 DEF Finish
  <2>10. QED
    BY <2>6, <2>8, <2>9
<1>8. CASE Store(r) \/ StoreFails(r)
  <2>1. /\ pc[r] = "storing" /\ ask[r] # None /\ digest[r] # Unknown
        /\ kind[r] = "surface" => logs[r][File] # None
        /\ Have(r, Derived(r), TRUE)
    BY <1>8 DEF Store, StoreFails, RunInv
  <2>2. Derived(r) \in Values /\ KeyOf(r) \in Keys
    BY <2>1, DerivedIsValue, KeyIsKey
  <2>3. [key |-> KeyOf(r), value |-> Derived(r)] \in Entries
    BY <2>2 DEF Entries
  <2>4. cache' \in [Keys -> Entries \union {NoEntry, Damaged}]
    BY <1>8, <2>2, <2>3 DEF Store, StoreFails
  <2>5. QED
    BY <1>8, <2>1, <2>2, <2>4, HaveTypes DEF Store, StoreFails
<1>9. QED
  BY <1>1, <1>2, <1>3, <1>4, <1>5, <1>6, <1>7, <1>8

LEMMA TypeContent ==
    ASSUME NEW before \in [Run -> [File -> Shots \union {Unread, Nil}]],
           NEW r \in Run, NEW f \in File, NEW src \in Shots \union {Nil}, NEW after,
           after \in {before, [before EXCEPT ![r][f] = src]}
    PROVE  after \in [Run -> [File -> Shots \union {Unread, Nil}]]
<1>1. [before[r] EXCEPT ![f] = src] \in [File -> Shots \union {Unread, Nil}]
  OBVIOUS
<1>2. [before EXCEPT ![r][f] = src] \in [Run -> [File -> Shots \union {Unread, Nil}]]
  BY <1>1
<1>3. QED  BY <1>2

LEMMA TypeGather ==
    ASSUME CacheInv, NEW r \in Run,
           \/ AskObservations(r) \/ GatherAll(r) \/ GatherCited(r) \/ LinkBroken(r) \/ ReadBefore(r)
           \/ ReadObservations(r) \/ ReadFails(r) \/ Gathered(r)
    PROVE  TypeOK'
<1> USE DEF CacheInv, TypeOK, graphVars, storeVars
<1>1. CASE AskObservations(r)
  <2>1. PICK L \in LinkSets :
            job' = [job EXCEPT ![r] =
                      [links |-> L, left |-> L, shots |-> [f \in File |-> Nil],
                       clean |-> TRUE]]
    BY <1>1 DEF AskObservations
  <2>2. [links |-> L, left |-> L, shots |-> [f \in File |-> Nil], clean |-> TRUE] \in Jobs
    BY CacheAssumption DEF Jobs, Gatherable, FromFiles
  <2>3. QED  BY <1>1, <2>1, <2>2 DEF AskObservations, Phases
<1>2. CASE GatherAll(r)
  <2>1. [links |-> File, left |-> File, shots |-> [f \in File |-> Nil], clean |-> TRUE] \in Jobs
    BY DEF Jobs, Gatherable, FromFiles
  <2>2. QED  BY <1>2, <2>1 DEF GatherAll
<1>7. CASE GatherCited(r)
  <2>1. [links |-> Cited, left |-> Cited, shots |-> [f \in File |-> Nil], clean |-> TRUE] \in Jobs
    BY CacheAssumption DEF Jobs, Gatherable, FromFiles
  <2>2. QED  BY <1>7, <2>1 DEF GatherCited
<1>3. CASE LinkBroken(r) \/ ReadFails(r)
  <2>1. PICK f \in File :
            /\ job[r] # None
            /\ Reported(r, f)
            /\ content' \in {content, [content EXCEPT ![r][f] = Nil]}
    BY <1>3 DEF LinkBroken, ReadFails, Gathering
  <2>2. job[r] \in Jobs
    BY <2>1
  <2>3. job' = [job EXCEPT ![r] = [job[r] EXCEPT !.left = @ \ {f}, !.clean = FALSE]]
    BY <2>1, <2>2 DEF Reported, Jobs
  <2>4. [job[r] EXCEPT !.left = @ \ {f}, !.clean = FALSE] \in Jobs
    BY <2>2 DEF Jobs
  <2>5. job' \in [Run -> Jobs \union {None}]
    BY <2>3, <2>4
  <2>6. content' \in [Run -> [File -> Shots \union {Unread, Nil}]]
    <3>1. content \in [Run -> [File -> Shots \union {Unread, Nil}]]
      OBVIOUS
    <3> QED  BY ONLY <3>1, <2>1, r \in Run, TypeContent
  <2>7. UNCHANGED <<tree, obs, cache, pc, read, digest, ask, kind, clean, logs, answer>>
    BY <1>3 DEF LinkBroken, ReadFails
  <2>8. QED  BY <2>5, <2>6, <2>7
<1>4. CASE ReadBefore(r) \/ ReadObservations(r)
  <2>1. PICK f \in File :
            /\ job[r] # None
            /\ obs[f] # Missing
            /\ \/ /\ ReadBefore(r)
                  /\ content[r][f] # Unread
                  /\ Parsed(r, f, content[r][f])
               \/ /\ ReadObservations(r)
                  /\ content' = [content EXCEPT ![r][f] = obs[f]]
                  /\ Parsed(r, f, obs[f])
    BY <1>4 DEF ReadBefore, ReadObservations, Gathering
  <2>2. PICK src \in Shots \union {Nil} :
            /\ Parsed(r, f, src)
            /\ content' \in {content, [content EXCEPT ![r][f] = src]}
    <3>1. obs[f] \in Shots
      BY <2>1
    <3>2. content[r][f] # Unread => content[r][f] \in Shots \union {Nil}
      OBVIOUS
    <3>3. ReadBefore(r) => content' = content
      BY DEF ReadBefore
    <3>4. QED  BY <2>1, <3>1, <3>2, <3>3
  <2>3. job[r] \in Jobs
    BY <2>1
  <2> DEFINE fine == job[r].clean /\ (src = Nil \/ Sound(src))
  <2>4. fine \in BOOLEAN
    BY <2>3 DEF Jobs
  <2>5. job' = [job EXCEPT ![r] = [job[r] EXCEPT !.left = @ \ {f}, !.shots[f] = src,
                                                 !.clean = fine]]
    BY <2>2, <2>3 DEF Parsed, Jobs
  <2> HIDE DEF fine
  <2>6. [job[r] EXCEPT !.left = @ \ {f}, !.shots[f] = src, !.clean = fine] \in Jobs
    BY <2>3, <2>4 DEF Jobs, FromFiles
  <2>7. job' \in [Run -> Jobs \union {None}]
    BY <2>5, <2>6
  <2>8. content' \in [Run -> [File -> Shots \union {Unread, Nil}]]
    <3>1. content \in [Run -> [File -> Shots \union {Unread, Nil}]]
      OBVIOUS
    <3> QED  BY ONLY <3>1, <2>2, r \in Run, TypeContent
  <2>9. UNCHANGED <<tree, obs, cache, pc, read, digest, ask, kind, clean, logs, answer>>
    BY <1>4 DEF ReadBefore, ReadObservations
  <2>10. QED  BY <2>7, <2>8, <2>9
<1>5. CASE Gathered(r)
  <2>1. job[r] \in Jobs
    BY <1>5 DEF Gathered
  <2>2. [shots |-> job[r].shots, clean |-> job[r].clean] \in Logs /\ job[r].links \in Gatherable
    BY <2>1 DEF Jobs, Logs
  <2>3. logs' \in [Run -> [Gatherable -> Logs \union {None}]]
    BY <1>5, <2>2 DEF Gathered
  <2>4. QED  BY <1>5, <2>3 DEF Gathered, Phases
<1>6. QED  BY <1>1, <1>2, <1>3, <1>4, <1>5, <1>7

LEMMA TypeEnvironment ==
    ASSUME CacheInv, Environment
    PROVE  TypeOK'
<1> USE DEF CacheInv, TypeOK, memory, graphVars, storeVars
<1>1. CASE EditTree
  BY <1>1 DEF EditTree, Trees
<1>2. CASE EditObservations
  BY <1>2 DEF EditObservations
<1>3. CASE Damage \/ Misplace \/ Prune
  BY <1>3 DEF Damage, Misplace, Prune
<1>4. QED  BY <1>1, <1>2, <1>3 DEF Environment

-----------------------------------------------------------------------------
(* The entries.                                                            *)

\* What a process stores is sound under the key it stores it under.
LEMMA StoredIsSound ==
    ASSUME CacheInv, NEW r \in Run, pc[r] = "storing"
    PROVE  /\ KeyOf(r) \in Keys
           /\ Derived(r) \in Values
           /\ Describes(KeyOf(r), Derived(r))
<1>1. /\ ask[r] # None /\ digest[r] # Unknown
      /\ Derives(read[r], ask[r].against)
      /\ kind[r] = "surface" => /\ logs[r][File] # None
                                /\ Enough(logs[r][File].shots)
  BY DEF CacheInv, RunInv
<1>2. kind[r] = "surface" => logs[r][File].shots # None
  BY <1>1, EntryAssumption DEF CacheInv, TypeOK, Gatherable, Logs
<1>3. QED
  BY <1>1, <1>2, KeyIsKey, DerivedIsValue DEF Describes, IsClean

LEMMA EntriesStep ==
    ASSUME CacheInv, [Next]_vars
    PROVE  EntriesStaySound'
<1> USE DEF EntriesStaySound
<1>1. CASE UNCHANGED cache
  BY <1>1 DEF CacheInv, Describes, IsClean
<1>2. ASSUME NEW r \in Run, Discard(r)
      PROVE  EntriesStaySound'
  BY <1>2, KeyIsKey, EntryAssumption DEF Discard, CacheInv, TypeOK, RunInv
<1>3. ASSUME NEW r \in Run, Store(r)
      PROVE  EntriesStaySound'
  <2>1. cache' = [cache EXCEPT ![KeyOf(r)] = [key |-> KeyOf(r), value |-> Derived(r)]]
    BY <1>3 DEF Store
  <2>2. KeyOf(r) \in Keys /\ Describes(KeyOf(r), Derived(r))
    BY <1>3, StoredIsSound DEF Store
  <2>3. QED
    BY <2>1, <2>2 DEF CacheInv, TypeOK
<1>4. CASE Damage \/ Prune
  BY <1>4, EntryAssumption DEF Damage, Prune, CacheInv, TypeOK
<1>5. CASE Misplace
  BY <1>5 DEF Misplace, CacheInv, TypeOK
<1>6. QED
  BY <1>1, <1>2, <1>3, <1>4, <1>5
  DEF Next, RunStep, Progress, Environment, vars, Start, Ask, AskObservations, LoadPart,
      Loaded, Hit, Miss, Spoiled, DeriveFootprints, DeriveRegion, DeriveSurface,
      StoreFails, GatherAll, GatherCited, LinkBroken, ReadBefore, ReadObservations, ReadFails,
      Gathered, Exit, EditTree, EditObservations

-----------------------------------------------------------------------------
(* The processes and their answers.                                        *)

\* What a process does with a value which is the one it is after.
LEMMA HaveKeeps ==
    ASSUME CacheInv, NEW r \in Run, pc[r] \in {"look", "derive", "storing"},
           NEW value \in Values, NEW sure \in BOOLEAN, Have(r, value, sure),
           value.kind = kind[r], value.against = ask[r].against, value.graph = read[r],
           sure => IsClean(value),
           kind[r] = "footprints" => sure = Derives(read[r], ask[r].against),
           UNCHANGED <<read, digest, logs>>
    PROVE  RunInv(r)' /\ AnswerIsDerived(r)'
<1>1. /\ ask[r] \in Questions /\ kind[r] \in {"footprints", ask[r].kind}
      /\ digest[r] # Unknown => digest[r] = read[r]
      /\ read[r] \in Graphs
      /\ answer[r] = None
  BY DEF CacheInv, TypeOK, RunInv
<1>2. r \in DOMAIN pc /\ r \in DOMAIN ask /\ r \in DOMAIN answer
      /\ r \in DOMAIN kind /\ r \in DOMAIN clean
  BY DEF CacheInv, TypeOK
<1>3. ASSUME NEW told \in BOOLEAN, Finish(r, value, told), UNCHANGED <<kind, clean>>,
             told = sure \/ (~told /\ ask[r].kind = "surface")
      PROVE  RunInv(r)' /\ AnswerIsDerived(r)'
  <2>1. /\ pc'[r] = "ready" /\ ask'[r] = None
        /\ answer'[r] = [to |-> ask[r], value |-> value, clean |-> told]
    BY <1>2, <1>3 DEF Finish
  <2>2. RunInv(r)'
    BY <1>1, <2>1 DEF RunInv
  <2>3. told => sure /\ kind[r] = ask[r].kind
    <3>1. pc' # [pc EXCEPT ![r] = "gather"]
      BY <1>2, <2>1
    <3>2. kind[r] = "footprints" => ask[r].kind = "footprints" \/ ~told
      <4>1. ask[r].kind # "footprints" /\ kind[r] = "footprints" => Finish(r, value, FALSE)
        BY <3>1 DEF Have, HaveFootprints
      <4>2. Finish(r, value, FALSE) => ~told
        BY <1>2, <2>1 DEF Finish
      <4>3. QED  BY <4>1, <4>2
    <3>3. QED  BY <1>1, <1>3, <3>2
  <2>4. ask[r].kind = "footprints" => told = Derives(read[r], ask[r].against)
    BY <1>1, <1>3
  <2>5. QED
    BY <1>1, <2>1, <2>2, <2>3, <2>4 DEF AnswerIsDerived, IsClean
<1>4. CASE /\ ask[r].kind = "surface"
           /\ pc' = [pc EXCEPT ![r] = "gather"]
           /\ kind' = [kind EXCEPT ![r] = "surface"]
           /\ clean' = [clean EXCEPT ![r] = sure]
           /\ UNCHANGED <<ask, answer>>
  <2>1. pc'[r] = "gather" /\ kind'[r] = "surface" /\ clean'[r] = sure
    BY <1>2, <1>4
  <2>2. sure => Derives(read[r], ask[r].against)
    BY DEF IsClean
  <2>3. QED
    BY <1>1, <1>4, <2>1, <2>2 DEF RunInv, AnswerIsDerived
<1>5. CASE Finish(r, value, sure) /\ UNCHANGED <<kind, clean>>
  BY <1>3, <1>5
<1>6. CASE ask[r].kind = "surface" /\ Finish(r, value, FALSE) /\ UNCHANGED <<kind, clean>>
  BY <1>3, <1>6
<1>7. \/ Finish(r, value, sure) /\ UNCHANGED <<kind, clean>>
      \/ ask[r].kind = "surface" /\ Finish(r, value, FALSE) /\ UNCHANGED <<kind, clean>>
      \/ /\ ask[r].kind = "surface"
         /\ pc' = [pc EXCEPT ![r] = "gather"]
         /\ kind' = [kind EXCEPT ![r] = "surface"]
         /\ clean' = [clean EXCEPT ![r] = sure]
         /\ UNCHANGED <<ask, answer>>
  BY HaveGives
<1>8. QED  BY <1>4, <1>5, <1>6, <1>7

LEMMA LoadKeeps ==
    ASSUME CacheInv, NEW r \in Run, Start(r) \/ LoadPart(r) \/ Loaded(r) \/ Exit(r)
    PROVE  RunInv(r)' /\ AnswerIsDerived(r)'
<1> USE DEF CacheInv, TypeOK, graphVars, storeVars, AnswerIsDerived
<1>1. CASE Start(r)
  BY <1>1 DEF Start, RunInv
<1>2. CASE LoadPart(r)
  BY <1>2 DEF LoadPart, RunInv
<1>3. CASE Loaded(r)
  <2>1. read[r] \in Graphs
    BY <1>3 DEF Loaded, Graphs
  <2>2. digest'[r] \in {read[r], Unknown} /\ pc'[r] = "ready"
    BY <1>3 DEF Loaded
  <2>3. ask[r] = None /\ answer[r] = None
    BY <1>3 DEF Loaded, RunInv
  <2>4. UNCHANGED <<read, ask, answer>>
    BY <1>3 DEF Loaded
  <2>5. QED  BY <2>1, <2>2, <2>3, <2>4 DEF RunInv
<1>4. CASE Exit(r)
  BY <1>4 DEF Exit, RunInv
<1>5. QED  BY <1>1, <1>2, <1>3, <1>4

LEMMA AskKeeps ==
    ASSUME CacheInv, NEW r \in Run,
           \/ Ask(r) \/ Hit(r) \/ Miss(r) \/ Spoiled(r) \/ Discard(r)
    PROVE  RunInv(r)' /\ AnswerIsDerived(r)'
<1>1. CASE Ask(r)
  <2>1. PICK q \in Questions :
            /\ ask' = [ask EXCEPT ![r] = q]
            /\ kind' = [kind EXCEPT ![r] = q.kind]
    BY <1>1 DEF Ask
  <2>2. pc'[r] = "look" /\ ask'[r] = q /\ kind'[r] = q.kind /\ answer'[r] = None
    BY <1>1, <2>1 DEF Ask, CacheInv, TypeOK
  <2>3. q # None
    BY EntryAssumption
  <2>4. QED
    BY <1>1, <2>2, <2>3 DEF Ask, CacheInv, RunInv, AnswerIsDerived, graphVars
<1>2. CASE Hit(r)
  <2>1. /\ pc[r] = "look" /\ digest[r] # Unknown /\ ask[r] # None
        /\ Verifies(cache[KeyOf(r)], KeyOf(r))
        /\ Have(r, cache[KeyOf(r)].value, TRUE)
        /\ UNCHANGED <<read, digest, logs>>
    BY <1>2 DEF Hit, Cacheable, CacheInv, RunInv, graphVars, storeVars
  <2>2. Derives(read[r], ask[r].against)
    BY <2>1, ServedIsValue DEF IsClean
  <2>3. QED
    BY <2>1, <2>2, ServedIsValue, HaveKeeps
<1>3. CASE Miss(r) \/ Spoiled(r) \/ Discard(r)
  BY <1>3 DEF Miss, Spoiled, Discard, Cacheable, CacheInv, TypeOK, RunInv, AnswerIsDerived,
              graphVars, storeVars
<1>4. QED  BY <1>1, <1>2, <1>3

LEMMA DeriveKeeps ==
    ASSUME CacheInv, NEW r \in Run,
           \/ DeriveFootprints(r) \/ DeriveRegion(r) \/ DeriveSurface(r)
           \/ Store(r) \/ StoreFails(r)
    PROVE  RunInv(r)' /\ AnswerIsDerived(r)'
<1>1. CASE DeriveFootprints(r)
  <2>1. /\ pc[r] = "derive" /\ kind[r] = "footprints" /\ ask[r] # None
        /\ read[r] \in Graphs /\ ask[r] \in Questions /\ answer[r] = None
        /\ digest[r] # Unknown => digest[r] = read[r]
        /\ UNCHANGED <<read, digest, logs>>
    BY <1>1 DEF DeriveFootprints, CacheInv, TypeOK, RunInv, graphVars, storeVars
  <2> DEFINE sure == Derives(read[r], ask[r].against)
  <2>2. sure \in BOOLEAN
    BY <2>1, DerivationAssumption DEF Questions
  <2>3. CASE /\ sure
             /\ digest[r] # Unknown
             /\ pc' = [pc EXCEPT ![r] = "storing"]
             /\ UNCHANGED <<ask, kind, clean, answer>>
    BY <2>1, <2>3 DEF CacheInv, TypeOK, RunInv, AnswerIsDerived
  <2>4. CASE HaveFootprints(r, Derived(r), sure)
    <3>1. Have(r, Derived(r), sure)
      BY <2>1, <2>4 DEF Have
    <3>2. /\ Derived(r) \in Values /\ Derived(r).kind = kind[r]
          /\ Derived(r).against = ask[r].against /\ Derived(r).graph = read[r]
      BY <2>1, DerivedIsValue
    <3>3. sure => IsClean(Derived(r))
      BY <2>1, <3>2 DEF IsClean
    <3>4. QED
      BY <2>1, <2>2, <3>1, <3>2, <3>3, HaveKeeps
  <2>5. QED  BY <1>1, <2>3, <2>4 DEF DeriveFootprints, Cacheable
<1>2. CASE DeriveRegion(r)
  <2>1. /\ pc[r] = "derive" /\ kind[r] = "surface" /\ ask[r] # None /\ answer[r] = None
        /\ ask[r].kind = "surface" /\ kind'[r] = "footprints"
        /\ read[r] \in Graphs
        /\ digest[r] # Unknown => digest[r] = read[r]
        /\ UNCHANGED <<read, digest>>
    BY <1>2 DEF DeriveRegion, CacheInv, TypeOK, RunInv, graphVars
  <2>2. CASE pc' = [pc EXCEPT ![r] = "look"] /\ UNCHANGED <<ask, answer>>
    BY <2>1, <2>2 DEF CacheInv, TypeOK, RunInv, AnswerIsDerived
  <2>3. CASE Finish(r, NoSurface(r), FALSE)
    <3>1. /\ pc'[r] = "ready" /\ ask'[r] = None
          /\ answer'[r] = [to |-> ask[r], value |-> NoSurface(r), clean |-> FALSE]
      BY <2>3 DEF Finish, CacheInv, TypeOK
    <3>2. NoSurface(r).graph = read[r] /\ NoSurface(r).against = ask[r].against
      BY DEF NoSurface
    <3>3. /\ ~answer'[r].clean /\ answer'[r].to.kind # "footprints"
          /\ answer'[r].value.graph = read'[r]
          /\ answer'[r].value.against = answer'[r].to.against
      BY <2>1, <3>1, <3>2
    <3>4. AnswerIsDerived(r)'
      BY <3>3 DEF AnswerIsDerived
    <3>5. RunInv(r)'
      BY <2>1, <3>1 DEF RunInv
    <3>6. QED  BY <3>4, <3>5
  <2>4. QED  BY <1>2, <2>2, <2>3 DEF DeriveRegion
<1>3. CASE DeriveSurface(r)
  <2>1. /\ pc[r] = "gather" /\ kind[r] = "surface" /\ ask[r] # None
        /\ ask[r].kind = "surface" /\ logs[r][File] # None /\ answer[r] = None
        /\ clean[r] => Derives(read[r], ask[r].against)
        /\ read[r] \in Graphs
        /\ digest[r] # Unknown => digest[r] = read[r]
    BY <1>3 DEF DeriveSurface, CacheInv, RunInv
  <2>2. UNCHANGED <<read, digest, kind, clean, logs>>
    BY <1>3 DEF DeriveSurface, graphVars, storeVars
  <2> DEFINE sure == clean[r] /\ logs[r][File].clean /\ Enough(logs[r][File].shots)
  <2>3. CASE /\ sure /\ digest[r] # Unknown
             /\ pc' = [pc EXCEPT ![r] = "storing"]
             /\ UNCHANGED <<ask, answer>>
    BY <2>1, <2>2, <2>3 DEF CacheInv, TypeOK, RunInv, AnswerIsDerived
  <2>4. CASE Finish(r, Derived(r), sure)
    <3>1. /\ pc'[r] = "ready" /\ ask'[r] = None
          /\ answer'[r] = [to |-> ask[r], value |-> Derived(r), clean |-> sure]
      BY <2>4 DEF Finish, CacheInv, TypeOK
    <3>2. /\ Derived(r).kind = "surface" /\ Derived(r).against = ask[r].against
          /\ Derived(r).graph = read[r] /\ Derived(r).shots = logs[r][File].shots
      BY <2>1, DerivedIsValue
    <3>3. logs[r][File].shots # None
      BY <2>1, EntryAssumption DEF CacheInv, TypeOK, Gatherable, Logs
    <3>4. sure => IsClean(Derived(r))
      BY <2>1, <3>2, <3>3 DEF IsClean
    <3>5. RunInv(r)'
      BY <2>1, <2>2, <3>1 DEF RunInv
    <3> HIDE DEF sure
    <3>6. QED
      BY <2>1, <2>2, <3>1, <3>2, <3>4, <3>5 DEF AnswerIsDerived, IsClean
  <2>5. QED  BY <1>3, <2>3, <2>4 DEF DeriveSurface, Cacheable
<1>4. CASE Store(r) \/ StoreFails(r)
  <2>1. /\ pc[r] = "storing" /\ ask[r] # None
        /\ Derives(read[r], ask[r].against)
        /\ kind[r] = "surface" => logs[r][File] # None
        /\ Have(r, Derived(r), TRUE)
        /\ UNCHANGED <<read, digest, logs>>
    BY <1>4 DEF Store, StoreFails, CacheInv, RunInv, graphVars, storeVars
  <2>2. /\ Derived(r) \in Values /\ Derived(r).kind = kind[r]
        /\ Derived(r).against = ask[r].against /\ Derived(r).graph = read[r]
    BY <2>1, DerivedIsValue
  <2>3. IsClean(Derived(r))
    BY <2>1, StoredIsSound DEF Describes
  <2>4. QED
    BY <2>1, <2>2, <2>3, HaveKeeps
<1>5. QED  BY <1>1, <1>2, <1>3, <1>4

LEMMA GatherKeeps ==
    ASSUME CacheInv, NEW r \in Run,
           \/ AskObservations(r) \/ GatherAll(r) \/ GatherCited(r) \/ LinkBroken(r) \/ ReadBefore(r)
           \/ ReadObservations(r) \/ ReadFails(r) \/ Gathered(r)
    PROVE  RunInv(r)' /\ AnswerIsDerived(r)'
<1> USE DEF AnswerIsDerived, graphVars, storeVars
<1>1. CASE AskObservations(r)
  <2>1. pc[r] = "ready" /\ pc'[r] = "gather"
    BY <1>1 DEF AskObservations, CacheInv, TypeOK
  <2>2. UNCHANGED <<read, digest, ask, kind, clean, logs, answer>>
    BY <1>1 DEF AskObservations
  <2>3. QED  BY <2>1, <2>2 DEF CacheInv, RunInv, AnswersAreDerived
<1>2. CASE Gathered(r)
  <2>1. pc[r] = "gather" /\ pc'[r] = IF ask[r] = None THEN "ready" ELSE "gather"
    BY <1>2 DEF Gathered, CacheInv, TypeOK
  <2>2. UNCHANGED <<read, digest, ask, kind, clean, answer>>
    BY <1>2 DEF Gathered
  <2>3. QED  BY <2>1, <2>2 DEF CacheInv, RunInv, AnswersAreDerived
<1>3. CASE GatherAll(r) \/ GatherCited(r) \/ LinkBroken(r) \/ ReadBefore(r) \/ ReadObservations(r) \/ ReadFails(r)
  <2>1. UNCHANGED <<pc, read, digest, ask, kind, clean, logs, answer>>
    BY <1>3 DEF GatherAll, GatherCited, LinkBroken, ReadBefore, ReadObservations, ReadFails
  <2>2. QED  BY <2>1 DEF CacheInv, RunInv, AnswersAreDerived
<1>4. QED  BY <1>1, <1>2, <1>3

\* What a step of another process leaves alone.
LEMMA OthersKeep ==
    ASSUME CacheInv, NEW r \in Run, NEW q \in Run, RunStep(q), q # r
    PROVE  RunInv(r)' /\ AnswerIsDerived(r)'
<1>1. /\ pc'[r] = pc[r] /\ read'[r] = read[r] /\ digest'[r] = digest[r]
      /\ ask'[r] = ask[r] /\ kind'[r] = kind[r] /\ clean'[r] = clean[r]
      /\ logs'[r] = logs[r] /\ answer'[r] = answer[r]
  <2> USE DEF CacheInv, TypeOK, graphVars, storeVars
  <2>1. CASE Start(q) \/ LoadPart(q) \/ Loaded(q) \/ Exit(q)
    BY <2>1 DEF Start, LoadPart, Loaded, Exit
  <2>2. CASE Ask(q) \/ Hit(q) \/ Miss(q) \/ Spoiled(q) \/ Discard(q)
    BY <2>2 DEF Ask, Hit, Miss, Spoiled, Discard, Have, HaveFootprints, Finish
  <2>3. CASE DeriveFootprints(q) \/ DeriveRegion(q) \/ DeriveSurface(q)
    BY <2>3 DEF DeriveFootprints, DeriveRegion, DeriveSurface, HaveFootprints, Finish
  <2>4. CASE Store(q) \/ StoreFails(q)
    BY <2>4 DEF Store, StoreFails, Have, HaveFootprints, Finish
  <2>5. CASE AskObservations(q) \/ Gathered(q)
    BY <2>5 DEF AskObservations, Gathered
  <2>6. CASE \/ GatherAll(q) \/ GatherCited(q) \/ LinkBroken(q) \/ ReadBefore(q) \/ ReadObservations(q)
             \/ ReadFails(q)
    BY <2>6 DEF GatherAll, GatherCited, LinkBroken, ReadBefore, ReadObservations, ReadFails
  <2>7. QED
    BY <2>1, <2>2, <2>3, <2>4, <2>5, <2>6 DEF RunStep, Progress
<1>2. QED
  BY <1>1 DEF CacheInv, RunInv, AnswersAreDerived, AnswerIsDerived

LEMMA CacheNext == CacheInv /\ [Next]_vars => CacheInv'
<1> SUFFICES ASSUME CacheInv, [Next]_vars
             PROVE  CacheInv'
  OBVIOUS
<1>1. EntriesStaySound'
  BY EntriesStep
<1>2. ASSUME NEW q \in Run, RunStep(q)
      PROVE  TypeOK' /\ \A r \in Run : RunInv(r)' /\ AnswerIsDerived(r)'
  <2>1. TypeOK' /\ RunInv(q)' /\ AnswerIsDerived(q)'
    BY <1>2, TypeLoad, TypeAsk, TypeGather, LoadKeeps, AskKeeps, DeriveKeeps, GatherKeeps
    DEF RunStep, Progress
  <2>2. ASSUME NEW r \in Run, q # r
        PROVE  RunInv(r)' /\ AnswerIsDerived(r)'
    BY <1>2, <2>2, OthersKeep
  <2>3. QED  BY <2>1, <2>2
<1>3. ASSUME Environment
      PROVE  TypeOK' /\ \A r \in Run : RunInv(r)' /\ AnswerIsDerived(r)'
  <2>1. UNCHANGED memory
    BY <1>3 DEF Environment, EditTree, EditObservations, Damage, Misplace, Prune
  <2>2. TypeOK'
    BY <1>3, TypeEnvironment
  <2>3. QED
    BY <2>1, <2>2
    DEF CacheInv, RunInv, AnswersAreDerived, AnswerIsDerived, memory, graphVars, storeVars
<1>4. ASSUME UNCHANGED vars
      PROVE  TypeOK' /\ \A r \in Run : RunInv(r)' /\ AnswerIsDerived(r)'
  BY <1>4
  DEF CacheInv, TypeOK, RunInv, AnswersAreDerived, AnswerIsDerived, vars, graphVars, storeVars
<1>5. TypeOK' /\ \A r \in Run : RunInv(r)' /\ AnswerIsDerived(r)'
  BY <1>2, <1>3, <1>4 DEF Next
<1>6. QED
  BY <1>1, <1>5 DEF CacheInv, AnswersAreDerived

LEMMA CacheInvariant == Spec => []CacheInv
BY CacheInit, CacheNext, PTL DEF Spec

-----------------------------------------------------------------------------
(* The theorems.                                                           *)

\* Every variable of DerivedCache has its type: the keys, the entries and the
\* logs are the ones cache.go, surface.go and link.go have.
THEOREM CacheTypes == Spec => []TypeOK
<1>1. CacheInv => TypeOK
  BY DEF CacheInv
<1>2. QED  BY CacheInvariant, <1>1, PTL

\* fetch serves only what was derived without a diagnostic, from a tree with
\* the digest and under the parameters of the question, however many processes
\* store, discard and prune, whatever of the tree is edited while it is loaded,
\* and however entries are damaged or moved about.
THEOREM CacheIsSound == Spec => []EntriesAreSound
<1>1. CacheInv => EntriesAreSound
  BY DEF CacheInv, EntriesStaySound, EntriesAreSound, Verifies
<1>2. QED  BY CacheInvariant, <1>1, PTL

\* Graph.Derive answers with the footprints of the bytes the process loaded, and
\* with diagnostics exactly where deriving them has some, whether or not there
\* is a cache: cache.go's promise that the cache is advisory.
THEOREM CacheIsAdvisory == Spec => []AnswersAreDerived
<1>1. CacheInv => AnswersAreDerived
  BY DEF CacheInv
<1>2. QED  BY CacheInvariant, <1>1, PTL

-----------------------------------------------------------------------------
(* The store: what a log holds of a file is what the process holds of it.  *)

\* A log a process gathered, or is gathering, holds of a file what was read of
\* it, which is held until the process ends, or nothing.
HoldsRead(r, shots) ==
    \A f \in File : shots[f] = Nil \/ (content[r][f] # Unread /\ shots[f] = content[r][f])
StoreInv(r) ==
    /\ \A L \in Gatherable : logs[r][L] # None => HoldsRead(r, logs[r][L].shots)
    /\ job[r] # None => HoldsRead(r, job[r].shots)
ReadsInv == \A r \in Run : StoreInv(r)

LEMMA StoreInit == Init => ReadsInv
BY DEF Init, ReadsInv, StoreInv, NotGathered

\* A process which gathers nothing keeps its store.
LEMMA StoreSame ==
    ASSUME NEW r \in Run, StoreInv(r), content'[r] = content[r], logs'[r] = logs[r],
           job'[r] = job[r]
    PROVE  StoreInv(r)'
BY DEF StoreInv, HoldsRead

\* A gathering begins with nothing of any file.
LEMMA StoreBegins ==
    ASSUME CacheInv, NEW r \in Run, StoreInv(r),
           AskObservations(r) \/ GatherAll(r) \/ GatherCited(r)
    PROVE  StoreInv(r)'
<1>1. content' = content /\ logs' = logs
  BY DEF AskObservations, GatherAll, GatherCited
<1>2. PICK L, left : job' = [job EXCEPT ![r] =
          [links |-> L, left |-> left, shots |-> [f \in File |-> Nil], clean |-> TRUE]]
  BY DEF AskObservations, GatherAll, GatherCited
<1>3. job'[r].shots = [f \in File |-> Nil]
  BY <1>2 DEF CacheInv, TypeOK
<1>4. QED  BY <1>1, <1>3 DEF StoreInv, HoldsRead

LEMMA StoreReports ==
    ASSUME CacheInv, NEW r \in Run, StoreInv(r), LinkBroken(r) \/ ReadFails(r)
    PROVE  StoreInv(r)'
<1>1. PICK f \in File :
          /\ job[r] # None /\ Reported(r, f)
          /\ \/ content' = content
             \/ content[r][f] = Unread /\ content' = [content EXCEPT ![r][f] = Nil]
  BY DEF LinkBroken, ReadFails, Gathering
<1>2. job[r] \in Jobs /\ logs' = logs
  BY <1>1 DEF CacheInv, TypeOK, LinkBroken, ReadFails
<1>3. job'[r].shots = job[r].shots
  BY <1>1, <1>2 DEF Reported, Jobs, CacheInv, TypeOK
<1>4. \A g \in File : content[r][g] # Unread => content'[r][g] = content[r][g]
  BY <1>1 DEF CacheInv, TypeOK
<1>5. QED  BY <1>1, <1>2, <1>3, <1>4 DEF StoreInv, HoldsRead

LEMMA StoreReads ==
    ASSUME CacheInv, NEW r \in Run, StoreInv(r), ReadBefore(r) \/ ReadObservations(r)
    PROVE  StoreInv(r)'
<1>1. PICK f \in File, src \in Shots \union {Nil} :
          /\ job[r] # None /\ Parsed(r, f, src)
          /\ \/ content' = content /\ content[r][f] # Unread /\ src = content[r][f]
             \/ content[r][f] = Unread /\ content' = [content EXCEPT ![r][f] = src]
  <2>0. /\ \A f \in File : content[r][f] \in Shots \union {Unread, Nil}
        /\ \A f \in File : obs[f] \in Shots \union {Missing}
    BY DEF CacheInv, TypeOK
  <2>1. CASE ReadBefore(r)
    <3>1. PICK f \in File : /\ job[r] # None /\ content[r][f] # Unread
                           /\ Parsed(r, f, content[r][f]) /\ content' = content
      BY <2>1 DEF ReadBefore, Gathering
    <3>2. QED  BY <2>0, <3>1
  <2>2. CASE ReadObservations(r)
    <3>1. PICK f \in File : /\ job[r] # None /\ content[r][f] = Unread /\ obs[f] # Missing
                           /\ Parsed(r, f, obs[f])
                           /\ content' = [content EXCEPT ![r][f] = obs[f]]
      BY <2>2 DEF ReadObservations, Gathering
    <3>2. QED  BY <2>0, <3>1
  <2>3. QED  BY <2>1, <2>2
<1>2. job[r] \in Jobs /\ logs' = logs
  BY <1>1 DEF CacheInv, TypeOK, ReadBefore, ReadObservations
<1>3. job[r].shots \in [File -> Shots \union {Nil}]
  BY <1>2 DEF Jobs, FromFiles
<1>4. job'[r].shots = [job[r].shots EXCEPT ![f] = src]
  BY <1>1, <1>2 DEF Parsed, Jobs, CacheInv, TypeOK
<1>5. content'[r][f] # Unread /\ content'[r][f] = src
  BY <1>1, CacheAssumption DEF CacheInv, TypeOK
<1>6. \A g \in File : content[r][g] # Unread => content'[r][g] = content[r][g]
  BY <1>1 DEF CacheInv, TypeOK
<1>7. HoldsRead(r, job[r].shots)
  BY <1>1 DEF StoreInv
<1>8. \A g \in File : \/ job'[r].shots[g] = Nil
                      \/ content'[r][g] # Unread /\ job'[r].shots[g] = content'[r][g]
  BY <1>3, <1>4, <1>5, <1>6, <1>7 DEF HoldsRead
<1>9. \A L \in Gatherable : logs[r][L] # None => HoldsRead(r, logs[r][L].shots)'
  BY <1>2, <1>6 DEF StoreInv, HoldsRead
<1>10. QED  BY <1>2, <1>8, <1>9 DEF StoreInv, HoldsRead

LEMMA StoreGathers ==
    ASSUME CacheInv, NEW r \in Run, StoreInv(r), Gathered(r)
    PROVE  StoreInv(r)'
<1> DEFINE log == [shots |-> job[r].shots, clean |-> job[r].clean]
<1>1. content' = content /\ job[r] # None /\ job' = [job EXCEPT ![r] = None]
      /\ logs' = [logs EXCEPT ![r][job[r].links] = log]
  BY DEF Gathered
<1>2. job'[r] = None
  BY <1>1 DEF CacheInv, TypeOK
<1>3. \A L \in Gatherable : logs'[r][L] = logs[r][L] \/ logs'[r][L] = log
  BY <1>1 DEF CacheInv, TypeOK
<1>4. log.shots = job[r].shots
  OBVIOUS
<1> HIDE DEF log
<1>5. QED  BY <1>1, <1>2, <1>3, <1>4 DEF StoreInv, HoldsRead

LEMMA StoreEnds ==
    ASSUME CacheInv, NEW r \in Run, Exit(r)
    PROVE  StoreInv(r)'
BY DEF Exit, CacheInv, TypeOK, StoreInv, NotGathered

\* What a step which reads no observation file leaves alone.
LEMMA StoreUntouched ==
    ASSUME NEW r \in Run,
           \/ Start(r) \/ LoadPart(r) \/ Loaded(r) \/ Ask(r)
           \/ Hit(r) \/ Miss(r) \/ Spoiled(r) \/ Discard(r)
           \/ DeriveFootprints(r) \/ DeriveRegion(r) \/ DeriveSurface(r)
           \/ Store(r) \/ StoreFails(r)
    PROVE  UNCHANGED storeVars
BY DEF Start, LoadPart, Loaded, Ask, Hit, Miss, Spoiled, Discard, DeriveFootprints,
       DeriveRegion, DeriveSurface, Store, StoreFails

\* A process reads into its own store.
LEMMA StoreOthers ==
    ASSUME CacheInv, NEW r \in Run, NEW q \in Run, RunStep(q), q # r
    PROVE  content'[r] = content[r] /\ logs'[r] = logs[r] /\ job'[r] = job[r]
<1>1. CASE UNCHANGED storeVars
  BY <1>1 DEF storeVars
<1>2. CASE AskObservations(q) \/ GatherAll(q) \/ GatherCited(q) \/ Gathered(q) \/ Exit(q)
  BY <1>2 DEF AskObservations, GatherAll, GatherCited, Gathered, Exit, CacheInv, TypeOK
<1>3. CASE LinkBroken(q) \/ ReadFails(q)
  BY <1>3 DEF LinkBroken, ReadFails, Reported, CacheInv, TypeOK
<1>4. CASE ReadBefore(q) \/ ReadObservations(q)
  BY <1>4 DEF ReadBefore, ReadObservations, Parsed, CacheInv, TypeOK
<1>5. QED  BY <1>1, <1>2, <1>3, <1>4, StoreUntouched DEF RunStep, Progress

LEMMA StoreNext == CacheInv /\ ReadsInv /\ [Next]_vars => ReadsInv'
<1> SUFFICES ASSUME CacheInv, ReadsInv, [Next]_vars, NEW r \in Run PROVE StoreInv(r)'
  BY DEF ReadsInv
<1>0. StoreInv(r)
  BY DEF ReadsInv
<1>1. CASE RunStep(r)
  <2>1. CASE UNCHANGED storeVars
    BY <1>0, <2>1, StoreSame DEF storeVars
  <2>2. CASE ~UNCHANGED storeVars
    <3>1. \/ AskObservations(r) \/ GatherAll(r) \/ GatherCited(r)
          \/ LinkBroken(r) \/ ReadFails(r) \/ ReadBefore(r) \/ ReadObservations(r)
          \/ Gathered(r) \/ Exit(r)
      BY <1>1, <2>2, StoreUntouched DEF RunStep, Progress
    <3>2. QED  BY <1>0, <3>1, StoreBegins, StoreReports, StoreReads, StoreGathers, StoreEnds
  <2>3. QED  BY <2>1, <2>2
<1>2. CASE \E q \in Run : q # r /\ RunStep(q)
  BY <1>0, <1>2, StoreOthers, StoreSame
<1>3. CASE Environment \/ UNCHANGED vars
  <2>1. UNCHANGED storeVars
    BY <1>3 DEF Environment, EditTree, EditObservations, Damage, Misplace, Prune, memory, vars
  <2>2. QED  BY <1>0, <2>1, StoreSame DEF storeVars
<1>4. QED  BY <1>1, <1>2, <1>3 DEF Next

\* A process reads an observation file once, whatever it gathers the file for
\* and however it is edited, moved away and put back in between: two logs it
\* holds agree on every file both have records of.
THEOREM CacheReadsOnce == Spec => []OneReadPerFile
<1>1. ReadsInv => OneReadPerFile
  <2> SUFFICES ASSUME ReadsInv, NEW r \in Run, NEW L \in Gatherable, NEW M \in Gatherable,
                      NEW f \in L \cap M, logs[r][L] # None, logs[r][M] # None
               PROVE  \/ logs[r][L].shots[f] = logs[r][M].shots[f]
                      \/ Nil \in {logs[r][L].shots[f], logs[r][M].shots[f]}
    BY DEF OneReadPerFile
  <2>1. f \in File
    BY CacheAssumption DEF Gatherable
  <2>2. HoldsRead(r, logs[r][L].shots) /\ HoldsRead(r, logs[r][M].shots)
    BY DEF ReadsInv, StoreInv
  <2>3. QED  BY <2>1, <2>2 DEF HoldsRead
<1>2. QED  BY StoreInit, StoreNext, CacheInvariant, <1>1, PTL DEF Spec
=============================================================================
