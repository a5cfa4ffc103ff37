--------------------------- MODULE RevisionProofs ---------------------------
(***************************************************************************)
(* Proofs about what one revision may do to the last: ObservationLog for   *)
(* every number of files and lines and every set of records, and Review    *)
(* for every model, policy and number of edits; and, at the end, about     *)
(* what is exported of one, which is Publishing.                           *)
(*                                                                         *)
(* A log is sound where no id is written twice, nothing is retired twice,  *)
(* and a retirement names something which stands before it: the first of   *)
(* those which write an id is then the only one.                           *)
(***************************************************************************)
EXTENDS ObservationLog, Review, Publishing, TLAPS

LogFiles == [1..Files -> Seq(Lines)]

(* What a sound log is, without asking which record is the first. *)
Unambiguous(revision) ==
    /\ \A f \in 1..Files : Terminated(revision[f])
    /\ \A p, q \in Log(revision) : RecordAt(revision, p).id = RecordAt(revision, q).id => p = q
    /\ \A p \in Log(revision) : RecordAt(revision, p).kind = "retire" =>
          /\ RecordAt(revision, p).names # RecordAt(revision, p).id
          /\ \E q \in Log(revision) :
                RecordAt(revision, q).id = RecordAt(revision, p).names /\ Before(q, p)
          /\ Retiring(revision, RecordAt(revision, p).names) = {p}

(* A place of the log is a line of a file which is a record. *)
LEMMA LogIs ==
    ASSUME NEW revision, NEW p
    PROVE  p \in Log(revision) <=>
              \E f \in 1..Files : \E i \in DOMAIN revision[f] :
                 p = <<f, i>> /\ revision[f][i].text # Comment
<1>1. ASSUME p \in Log(revision)
      PROVE  \E f \in 1..Files : \E i \in DOMAIN revision[f] :
                 p = <<f, i>> /\ revision[f][i].text # Comment
  <2>1. PICK f \in 1..Files : p \in {f} \X DOMAIN revision[f]
    BY <1>1 DEF Log
  <2>2. PICK i \in DOMAIN revision[f] : p = <<f, i>>
    BY <2>1
  <2>3. RecordAt(revision, p) # Comment
    BY <1>1 DEF Log
  <2>4. revision[f][i].text # Comment
    BY <2>2, <2>3 DEF RecordAt
  <2>5. QED  BY <2>2, <2>4
<1>2. ASSUME NEW f \in 1..Files, NEW i \in DOMAIN revision[f],
             p = <<f, i>>, revision[f][i].text # Comment
      PROVE  p \in Log(revision)
  <2>1. p \in {f} \X DOMAIN revision[f]
    BY <1>2
  <2>2. RecordAt(revision, p) # Comment
    BY <1>2 DEF RecordAt
  <2>3. QED  BY <2>1, <2>2 DEF Log
<1>3. QED  BY <1>1, <1>2

(* What stands at a place of the log is a record. *)
LEMMA LogTypes ==
    ASSUME NEW revision \in LogFiles, NEW p \in Log(revision)
    PROVE  /\ RecordAt(revision, p) \in Records
           /\ p[1] \in 1..Files /\ p[2] \in Nat
<1>1. PICK f \in 1..Files : \E i \in DOMAIN revision[f] :
                 p = <<f, i>> /\ revision[f][i].text # Comment
  BY LogIs
<1>2. PICK i \in DOMAIN revision[f] : p = <<f, i>> /\ revision[f][i].text # Comment
  BY <1>1
<1>3. revision[f] \in Seq(Lines)
  BY DEF LogFiles
<1>4. revision[f][i] \in Lines /\ i \in Nat
  BY <1>3
<1>5. revision[f][i].text \in Records
  BY <1>2, <1>4 DEF Lines
<1>6. p[1] = f /\ p[2] = i
  BY <1>2
<1>7. QED  BY <1>2, <1>4, <1>5, <1>6 DEF RecordAt

(* The earliest of one is that one; and what is earliest is one of them.   *)
LEMMA EarliestOfOne == ASSUME NEW p PROVE Earliest({p}) = {p}
BY DEF Earliest

LEMMA EarliestIsOne == ASSUME NEW where PROVE Earliest(where) \subseteq where
BY DEF Earliest

(* Whatever is retiring an id in a log which is sound is what retired it;  *)
(* and a log in which that is so is sound.                                 *)
LEMMA SoundIsUnambiguous ==
    ASSUME NEW revision, SoundLog(revision)
    PROVE  Unambiguous(revision)
<1>1. ASSUME NEW p \in Log(revision), NEW q \in Log(revision),
             RecordAt(revision, p).id = RecordAt(revision, q).id
      PROVE  p = q
  <2>1. /\ ById(revision, RecordAt(revision, p).id) = {p}
        /\ ById(revision, RecordAt(revision, q).id) = {q}
    BY DEF SoundLog
  <2>2. {p} = {q}
    BY <2>1, <1>1
  <2>3. QED  BY <2>2
<1>2. ASSUME NEW p \in Log(revision), RecordAt(revision, p).kind = "retire"
      PROVE  /\ RecordAt(revision, p).names # RecordAt(revision, p).id
             /\ \E q \in Log(revision) :
                   RecordAt(revision, q).id = RecordAt(revision, p).names /\ Before(q, p)
             /\ Retiring(revision, RecordAt(revision, p).names) = {p}
  <2> DEFINE names == RecordAt(revision, p).names
  <2>1. Retires(revision, p)
    BY <1>2 DEF SoundLog
  <2>2. names # RecordAt(revision, p).id /\ RetiredBy(revision, names) = {p}
    BY <2>1 DEF Retires
  <2>3. PICK q \in ById(revision, names) : Before(q, p)
    BY <2>1 DEF Retires
  <2>4. q \in Log(revision) /\ RecordAt(revision, q).id = names
    BY <2>3, EarliestIsOne DEF ById
  <2>5. ASSUME NEW r PROVE r \in Retiring(revision, names) <=> r \in {p}
    <3>1. ASSUME r \in Retiring(revision, names) PROVE r = p
      <4>1. /\ r \in Log(revision)
            /\ RecordAt(revision, r).kind = "retire" /\ RecordAt(revision, r).names = names
        BY <3>1 DEF Retiring
      <4>2. Retires(revision, r)
        BY <4>1 DEF SoundLog
      <4>3. RetiredBy(revision, RecordAt(revision, r).names) = {r}
        BY <4>2 DEF Retires
      <4>4. {r} = {p}
        BY <4>1, <4>3, <2>2
      <4>5. QED  BY <4>4
    <3>2. p \in Retiring(revision, names)
      BY <1>2 DEF Retiring
    <3>3. QED  BY <3>1, <3>2
  <2>6. Retiring(revision, names) = {p}
    BY <2>5
  <2> HIDE DEF names
  <2>7. QED  BY <2>2, <2>3, <2>4, <2>6 DEF names
<1>3. \A f \in 1..Files : Terminated(revision[f])
  BY DEF SoundLog
<1>4. QED  BY <1>1, <1>2, <1>3 DEF Unambiguous

LEMMA UnambiguousIsSound ==
    ASSUME NEW revision, Unambiguous(revision)
    PROVE  SoundLog(revision)
<1>1. ASSUME NEW p \in Log(revision)
      PROVE  ById(revision, RecordAt(revision, p).id) = {p}
  <2> DEFINE writers == {q \in Log(revision) : RecordAt(revision, q).id = RecordAt(revision, p).id}
  <2>1. \A q : q \in writers <=> q \in {p}
    BY DEF Unambiguous
  <2>2. writers = {p}
    BY <2>1
  <2>3. Earliest(writers) = {p}
    BY <2>2, EarliestOfOne
  <2>4. QED  BY <2>3 DEF ById
<1>2. ASSUME NEW p \in Log(revision), RecordAt(revision, p).kind = "retire"
      PROVE  Retires(revision, p)
  <2> DEFINE names == RecordAt(revision, p).names
  <2>1. names # RecordAt(revision, p).id /\ Retiring(revision, names) = {p}
    BY <1>2 DEF Unambiguous
  <2>2. PICK q \in Log(revision) : RecordAt(revision, q).id = names /\ Before(q, p)
    BY <1>2 DEF Unambiguous
  <2>3. q \in ById(revision, names)
    BY <1>1, <2>2
  <2>4. RetiredBy(revision, names) = {p}
    BY <2>1, EarliestOfOne DEF RetiredBy
  <2>5. QED  BY <2>1, <2>2, <2>3, <2>4 DEF Retires
<1>3. QED  BY <1>1, <1>2 DEF Unambiguous, SoundLog
-----------------------------------------------------------------------------
LogInv == files \in LogFiles /\ SoundLog(files)

LEMMA ContentsAreLines == Contents \subseteq Seq(Lines)
<1> SUFFICES ASSUME NEW c \in Contents PROVE c \in Seq(Lines)
  OBVIOUS
<1>1. PICK n \in 0..MaxLines : c \in [1..n -> Lines]
  BY DEF Contents
<1>2. QED  BY <1>1

LEMMA LogInitial == ObservationConstants /\ ObservationInit => LogInv
<1> SUFFICES ASSUME ObservationConstants, ObservationInit PROVE LogInv
  OBVIOUS
<1>1. files = [f \in 1..Files |-> <<>>]
  BY DEF ObservationInit
<1>2. files \in LogFiles
  BY <1>1 DEF LogFiles
<1>3. \A f \in 1..Files : DOMAIN files[f] = {}
  BY <1>1
<1>4. \A p : p \notin Log(files)
  BY <1>3, LogIs
<1>5. Unambiguous(files)
  BY <1>3, <1>4 DEF Unambiguous, Terminated
<1>6. QED  BY <1>2, <1>5, UnambiguousIsSound DEF LogInv

LEMMA LogNext == LogInv /\ [ObservationNext]_files => LogInv'
<1> SUFFICES ASSUME LogInv, [ObservationNext]_files PROVE LogInv'
  OBVIOUS
<1>1. CASE Revise
  <2>1. files' \in [1..Files -> Contents] /\ SoundLog(files')
    BY <1>1 DEF Revise, Accepted
  <2>2. files' \in LogFiles
    BY <2>1, ContentsAreLines DEF LogFiles
  <2>3. QED  BY <2>1, <2>2 DEF LogInv
<1>2. CASE UNCHANGED files
  BY <1>2 DEF LogInv
<1>3. QED  BY <1>1, <1>2 DEF ObservationNext

LEMMA LogInvariant == ASSUME ObservationConstants PROVE ObservationSpec => []LogInv
BY LogInitial, LogNext, PTL DEF ObservationSpec

(* Every revision of the log is of files whose every line but the last     *)
(* ends (ValidateAppendOnly, observation.go:1310).                         *)
THEOREM ObservationTypes == ASSUME ObservationConstants PROVE ObservationSpec => []ObservationTypeOK
<1>1. ObservationInit => ObservationTypeOK
  <2>1. <<>> \in Contents
    <3>1. <<>> \in [1..0 -> Lines] /\ 0 \in 0..MaxLines /\ DOMAIN <<>> = {}
      BY DEF ObservationConstants
    <3>2. QED  BY <3>1 DEF Contents
  <2>2. QED  BY <2>1 DEF ObservationInit, ObservationTypeOK
<1>2. ObservationTypeOK /\ [ObservationNext]_files => ObservationTypeOK'
  BY DEF ObservationTypeOK, ObservationNext, Revise
<1>3. QED  BY <1>1, <1>2, PTL DEF ObservationSpec

(* What is appended to keeps its records where they are. *)
LEMMA AppendedKeeps ==
    ASSUME NEW was \in LogFiles, NEW now \in LogFiles,
           \A f \in 1..Files : Appended(was[f], now[f]), NEW p \in Log(was)
    PROVE  p \in Log(now) /\ RecordAt(now, p) = RecordAt(was, p)
<1>1. PICK f \in 1..Files : \E i \in DOMAIN was[f] : p = <<f, i>> /\ was[f][i].text # Comment
  BY LogIs
<1>2. PICK i \in DOMAIN was[f] : p = <<f, i>> /\ was[f][i].text # Comment
  BY <1>1
<1>3. was[f] \in Seq(Lines) /\ now[f] \in Seq(Lines)
  BY DEF LogFiles
<1>4. i \in DOMAIN now[f] /\ now[f][i] = was[f][i]
  BY <1>3, Len(was[f]) <= Len(now[f]), was[f][i] = now[f][i] DEF Appended
<1>5. p \in Log(now)
  BY <1>2, <1>4, LogIs
<1>6. QED  BY <1>2, <1>4, <1>5 DEF RecordAt
-----------------------------------------------------------------------------
(* Every revision which is taken keeps the evidence and the decisions of   *)
(* the one before (ValidateAppendOnly, observation.go:1310, and            *)
(* validateRetirement, observation.go:1211).                               *)
LEMMA RevisionsKeepEvidence == LogInv /\ LogInv' /\ Revise => EvidenceStep
<1> SUFFICES ASSUME LogInv, LogInv', Revise PROVE EvidenceStep
  OBVIOUS
<1> DEFINE log == Log(files)
           next == Log(files')
<1>0. files \in LogFiles /\ files' \in LogFiles /\ Unambiguous(files) /\ Unambiguous(files')
  BY SoundIsUnambiguous DEF LogInv
<1>1. \A f \in 1..Files : Appended(files[f], files'[f])
  BY DEF Revise, Accepted
<1>2. ASSUME NEW p \in log PROVE p \in next /\ RecordAt(files', p) = RecordAt(files, p)
  BY <1>0, <1>1, AppendedKeeps
<1>3. ASSUME NEW p \in log, NEW q \in next, RecordAt(files, p) = RecordAt(files', q)
      PROVE  q = p
  BY <1>0, <1>2, <1>3 DEF Unambiguous
<1>4. Kept(files, log) \subseteq Kept(files', next)
  BY <1>2 DEF Kept
<1>5. ASSUME NEW p1 \in log, NEW p2 \in log, NEW q1 \in next, NEW q2 \in next,
             Before(p1, p2), RecordAt(files, p1) = RecordAt(files', q1),
             RecordAt(files, p2) = RecordAt(files', q2)
      PROVE  Before(q1, q2)
  BY <1>3, <1>5
<1>6. ASSUME NEW d \in Kept(files, log), d.kind = "retire"
      PROVE  Kept(files', RetiredBy(files', d.names)) = {d}
  <2>1. PICK p \in log : d = RecordAt(files, p)
    BY DEF Kept
  <2>2. p \in next /\ RecordAt(files', p) = d
    BY <2>1, <1>2
  <2>3. Retiring(files', d.names) = {p}
    BY <2>2, <1>6, <1>0 DEF Unambiguous
  <2>4. RetiredBy(files', d.names) = {p}
    BY <2>3, EarliestOfOne DEF RetiredBy
  <2>5. QED  BY <2>2, <2>4 DEF Kept
<1>7. ASSUME NEW r \in Kept(files, Current(files)), r \notin Kept(files', Current(files'))
      PROVE  \E d \in Kept(files', next) \ Kept(files, log) : d.kind = "retire" /\ d.names = r.id
  <2>1. PICK p \in Current(files) : r = RecordAt(files, p)
    BY DEF Kept
  <2>2. p \in log /\ r.kind = "obs" /\ RetiredBy(files, r.id) = {}
    BY <2>1 DEF Current
  <2>3. p \in next /\ RecordAt(files', p) = r
    BY <2>1, <2>2, <1>2
  <2>4. p \notin Current(files')
    BY <2>3, <1>7 DEF Kept
  <2>5. PICK q \in RetiredBy(files', r.id) : TRUE
    BY <2>2, <2>3, <2>4 DEF Current
  <2>6. q \in Retiring(files', r.id)
    BY <2>5, EarliestIsOne DEF RetiredBy
  <2> DEFINE d == RecordAt(files', q)
  <2>7. q \in next /\ d.kind = "retire" /\ d.names = r.id
    BY <2>6 DEF Retiring
  <2>8. d \notin Kept(files, log)
    <3>1. SUFFICES ASSUME d \in Kept(files, log) PROVE FALSE
      OBVIOUS
    <3>2. PICK q0 \in log : d = RecordAt(files, q0)
      BY <3>1 DEF Kept
    <3>3. Retiring(files, r.id) = {q0}
      BY <3>2, <2>7, <1>0 DEF Unambiguous
    <3>4. RetiredBy(files, r.id) = {q0}
      BY <3>3, EarliestOfOne DEF RetiredBy
    <3>5. QED  BY <3>4, <2>2
  <2>9. QED  BY <2>7, <2>8 DEF Kept
<1>8. QED  BY <1>4, <1>5, <1>6, <1>7 DEF EvidenceStep

(* Over any number of revisions nothing written is lost or moved, what was *)
(* retired stays retired by the same decision, and an observation stops    *)
(* counting only by a decision which was added (ValidateAppendOnly,        *)
(* observation.go:1310).                                                   *)
THEOREM LogsKeepEvidence ==
    ASSUME ObservationConstants PROVE ObservationSpec => EvidenceStands
<1>1. LogInv /\ LogInv' /\ [ObservationNext]_files => [EvidenceStep]_files
  BY RevisionsKeepEvidence DEF ObservationNext
<1>2. ObservationSpec => []LogInv
  BY LogInvariant
<1>3. QED  BY <1>1, <1>2, PTL DEF ObservationSpec, EvidenceStands
-----------------------------------------------------------------------------
(* A line appended to a file which loads adds its record below the others. *)
LEMMA WithAppends ==
    ASSUME LogInv, NEW f \in 1..Files, NEW r \in Records
    PROVE  /\ With(f, r) \in LogFiles
           /\ \A g \in 1..Files : Terminated(With(f, r)[g]) /\ Appended(files[g], With(f, r)[g])
           /\ With(f, r)[f] = Append(files[f], [text |-> r, ended |-> TRUE])
           /\ \A g \in 1..Files : g # f => With(f, r)[g] = files[g]
<1> DEFINE line == [text |-> r, ended |-> TRUE]
           fed == [i \in DOMAIN files[f] |-> [files[f][i] EXCEPT !.ended = TRUE]]
<1>1. \A g \in 1..Files : files[g] \in Seq(Lines) /\ Terminated(files[g])
  BY DEF LogInv, LogFiles, SoundLog
<1>2. ASSUME NEW i \in DOMAIN files[f] PROVE [files[f][i] EXCEPT !.ended = TRUE] = files[f][i]
  <2>1. files[f][i] \in Lines /\ files[f][i].ended
    BY <1>1 DEF Terminated
  <2>2. QED  BY <2>1 DEF Lines
<1>3. fed = files[f]
  <2>1. fed = [i \in DOMAIN files[f] |-> files[f][i]]
    BY <1>2
  <2>2. files[f] = [i \in DOMAIN files[f] |-> files[f][i]]
    BY <1>1
  <2>3. QED  BY <2>1, <2>2
<1>4. line \in Lines
  BY DEF Lines
<1>5. With(f, r) = [files EXCEPT ![f] = Append(fed, line)]
  BY DEF With
<1> HIDE DEF fed, line
<1>6. With(f, r) = [files EXCEPT ![f] = Append(files[f], line)]
  BY <1>3, <1>5
<1>7. files \in [1..Files -> Seq(Lines)]
  BY DEF LogInv, LogFiles
<1>8. Append(files[f], line) \in Seq(Lines)
  BY <1>1, <1>4
<1>9. /\ With(f, r)[f] = Append(files[f], line)
      /\ \A g \in 1..Files : g # f => With(f, r)[g] = files[g]
  BY <1>6, <1>7
<1>10. With(f, r) \in LogFiles
  BY <1>6, <1>7, <1>8 DEF LogFiles
<1>11. Terminated(Append(files[f], line)) /\ Appended(files[f], Append(files[f], line))
  <2>1. line.ended
    BY DEF line
  <2>2. QED  BY <1>1, <1>4, <2>1 DEF Terminated, Appended
<1>12. \A g \in 1..Files : Appended(files[g], files[g])
  BY <1>1 DEF Appended
<1>13. QED  BY <1>1, <1>9, <1>10, <1>11, <1>12 DEF line

(* Where its record stands. *)
LEMMA WithLog ==
    ASSUME ObservationConstants, LogInv, NEW f \in 1..Files, NEW r \in Records
    PROVE  \E new : /\ new = <<f, Len(files[f]) + 1>> /\ new \notin Log(files)
                    /\ \A p : p \in Log(With(f, r)) <=> p \in Log(files) \/ p = new
                    /\ RecordAt(With(f, r), new) = r
                    /\ \A p \in Log(files) : RecordAt(With(f, r), p) = RecordAt(files, p)
<1> DEFINE n == Len(files[f]) + 1
           new == <<f, n>>
           now == With(f, r)
           line == [text |-> r, ended |-> TRUE]
<1>0. r # Comment /\ files \in LogFiles /\ files[f] \in Seq(Lines)
  BY DEF ObservationConstants, LogInv, LogFiles
<1>1. /\ now \in LogFiles /\ now[f] = Append(files[f], line)
      /\ \A g \in 1..Files : g # f => now[g] = files[g]
      /\ \A g \in 1..Files : Appended(files[g], now[g])
  BY WithAppends
<1>2. n \in DOMAIN now[f] /\ now[f][n] = line /\ n \notin DOMAIN files[f]
      /\ \A i \in DOMAIN now[f] : i # n => i \in DOMAIN files[f] /\ now[f][i] = files[f][i]
  BY <1>0, <1>1
<1>3. now[f][n].text = r
  BY <1>2
<1> HIDE DEF n, now, line
<1>4. new \in Log(now) /\ RecordAt(now, new) = r
  <2>1. new \in Log(now)
    BY <1>0, <1>2, <1>3, LogIs
  <2>2. QED  BY <2>1, <1>3 DEF RecordAt
<1>5. new \notin Log(files)
  BY <1>2, LogIs
<1>6. \A p \in Log(files) : p \in Log(now) /\ RecordAt(now, p) = RecordAt(files, p)
  BY <1>0, <1>1, AppendedKeeps
<1>7. ASSUME NEW p \in Log(now), p # new PROVE p \in Log(files)
  <2>1. PICK g \in 1..Files : \E i \in DOMAIN now[g] : p = <<g, i>> /\ now[g][i].text # Comment
    BY LogIs
  <2>2. PICK i \in DOMAIN now[g] : p = <<g, i>> /\ now[g][i].text # Comment
    BY <2>1
  <2>3. i \in DOMAIN files[g] /\ now[g][i] = files[g][i]
    <3>1. CASE g = f
      <4>1. i # n
        BY <3>1, <2>2, <1>7
      <4>2. QED  BY <4>1, <3>1, <1>2
    <3>2. CASE g # f
      BY <3>2, <1>1
    <3>3. QED  BY <3>1, <3>2
  <2>4. QED  BY <2>2, <2>3, LogIs
<1>8. QED  BY <1>4, <1>5, <1>6, <1>7 DEF n, now

(* The log with it is sound where its id is held by nothing, and, of a     *)
(* retirement, where what it names stands before it and is not retired.    *)
LEMMA WithIsAccepted ==
    ASSUME ObservationConstants, LogInv, NEW f \in 1..Files, NEW r \in Records,
           \A p \in Log(files) : RecordAt(files, p).id # r.id,
           r.kind = "retire" =>
              /\ f = Files /\ Retiring(files, r.names) = {}
              /\ \E p \in Log(files) : RecordAt(files, p).id = r.names
    PROVE  Accepted(files, With(f, r))
<1> DEFINE now == With(f, r)
           log == Log(files)
<1>0. /\ files \in LogFiles /\ now \in LogFiles /\ Unambiguous(files)
      /\ \A g \in 1..Files : Terminated(now[g]) /\ Appended(files[g], now[g])
  BY WithAppends, SoundIsUnambiguous DEF LogInv
<1>1. PICK new : /\ new = <<f, Len(files[f]) + 1>> /\ new \notin log
                 /\ \A p : p \in Log(now) <=> p \in log \/ p = new
                 /\ RecordAt(now, new) = r
                 /\ \A p \in log : RecordAt(now, p) = RecordAt(files, p)
  BY WithLog
<1> HIDE DEF now
<1>2. ASSUME NEW p \in Log(now), NEW q \in Log(now), RecordAt(now, p).id = RecordAt(now, q).id
      PROVE  p = q
  <2>1. CASE p = new \/ q = new
    BY <2>1, <1>1, <1>2
  <2>2. CASE p \in log /\ q \in log
    BY <2>2, <1>0, <1>1, <1>2 DEF Unambiguous
  <2>3. QED  BY <2>1, <2>2, <1>1
<1>3. ASSUME NEW id
      PROVE  \A p : p \in Retiring(now, id) <=>
                      p \in Retiring(files, id) \/ (p = new /\ r.kind = "retire" /\ r.names = id)
  BY <1>1 DEF Retiring
<1>4. ASSUME NEW p \in log, RecordAt(now, p).kind = "retire"
      PROVE  /\ RecordAt(now, p).names # RecordAt(now, p).id
             /\ \E q \in Log(now) : RecordAt(now, q).id = RecordAt(now, p).names /\ Before(q, p)
             /\ Retiring(now, RecordAt(now, p).names) = {p}
  <2> DEFINE d == RecordAt(files, p)
  <2>1. RecordAt(now, p) = d /\ d.kind = "retire"
    BY <1>1, <1>4
  <2>2. /\ d.names # d.id /\ Retiring(files, d.names) = {p}
        /\ \E q \in log : RecordAt(files, q).id = d.names /\ Before(q, p)
    BY <2>1, <1>0 DEF Unambiguous
  <2>3. ~ (r.kind = "retire" /\ r.names = d.names)
    BY <2>2
  <2> HIDE DEF d
  <2>4. \A q : q \in Retiring(now, d.names) <=> q \in {p}
    BY <2>2, <2>3, <1>3
  <2>5. Retiring(now, d.names) = {p}
    BY <2>4
  <2>6. \E q \in Log(now) : RecordAt(now, q).id = d.names /\ Before(q, p)
    BY <2>2, <1>1
  <2>7. QED  BY <2>1, <2>2, <2>5, <2>6
<1>5. ASSUME r.kind = "retire"
      PROVE  /\ r.names # r.id
             /\ \E q \in Log(now) : RecordAt(now, q).id = r.names /\ Before(q, new)
             /\ Retiring(now, r.names) = {new}
  <2>1. PICK q \in log : RecordAt(files, q).id = r.names
    BY <1>5
  <2>2. r.names # r.id
    BY <2>1
  <2>3. Before(q, new)
    <3>1. PICK g \in 1..Files : \E i \in DOMAIN files[g] : q = <<g, i>> /\ files[g][i].text # Comment
      BY LogIs
    <3>2. PICK i \in DOMAIN files[g] : q = <<g, i>>
      BY <3>1
    <3>3. files[g] \in Seq(Lines) /\ files[f] \in Seq(Lines)
      BY <1>0 DEF LogFiles
    <3>4. i \in Nat /\ i <= Len(files[g]) /\ Len(files[f]) \in Nat
      BY <3>3
    <3>5. q[1] = g /\ q[2] = i /\ new[1] = f /\ new[2] = Len(files[f]) + 1
      BY <3>2, <1>1
    <3>6. f = Files /\ Files \in Nat
      BY <1>5 DEF ObservationConstants
    <3>7. CASE g = f
      BY <3>4, <3>5, <3>7 DEF Before
    <3>8. CASE g # f
      <4>1. g < f
        BY <3>6, <3>8
      <4>2. QED  BY <4>1, <3>5 DEF Before
    <3>9. QED  BY <3>7, <3>8
  <2>4. \A p : p \in Retiring(now, r.names) <=> p \in {new}
    BY <1>3, <1>5
  <2>5. Retiring(now, r.names) = {new}
    BY <2>4
  <2>6. q \in Log(now) /\ RecordAt(now, q).id = r.names
    BY <2>1, <1>1
  <2>7. QED  BY <2>2, <2>3, <2>5, <2>6
<1>6. ASSUME NEW p \in Log(now), RecordAt(now, p).kind = "retire"
      PROVE  /\ RecordAt(now, p).names # RecordAt(now, p).id
             /\ \E q \in Log(now) : RecordAt(now, q).id = RecordAt(now, p).names /\ Before(q, p)
             /\ Retiring(now, RecordAt(now, p).names) = {p}
  <2>1. CASE p \in log
    BY <2>1, <1>4, <1>6
  <2>2. CASE p = new
    BY <2>2, <1>1, <1>5, <1>6
  <2>3. QED  BY <2>1, <2>2, <1>1
<1>7. Unambiguous(now)
  BY <1>0, <1>2, <1>6 DEF Unambiguous
<1>8. SoundLog(now)
  BY <1>7, UnambiguousIsSound
<1>9. Accepted(files, now)
  BY <1>0, <1>8 DEF Accepted
<1>10. QED  BY <1>9 DEF now

(* No log reaches a state from which there is no legal way on: a new       *)
(* record can be appended to any file, and a decision about anything not   *)
(* retired to the last (ValidateAppendOnly, observation.go:1310;           *)
(* validateRetirement, observation.go:1211).                               *)
THEOREM LogsGoOn ==
    ASSUME ObservationConstants PROVE ObservationSpec => []AppendsAreLegal
<1>1. LogInv => AppendsAreLegal
  <2> SUFFICES ASSUME LogInv, NEW r \in Records,
                      r.id \notin {d.id : d \in Kept(files, Log(files))}
               PROVE  /\ r.kind = "obs" => \A f \in 1..Files : Accepted(files, With(f, r))
                      /\ /\ r.kind = "retire" /\ Retiring(files, r.names) = {}
                         /\ r.names \in {d.id : d \in Kept(files, Log(files))}
                         => Accepted(files, With(Files, r))
    BY DEF AppendsAreLegal
  <2>1. \A p \in Log(files) : RecordAt(files, p).id # r.id
    BY DEF Kept
  <2>2. ASSUME r.kind = "obs", NEW f \in 1..Files PROVE Accepted(files, With(f, r))
    BY <2>1, <2>2, WithIsAccepted
  <2>3. ASSUME r.kind = "retire", Retiring(files, r.names) = {},
               r.names \in {d.id : d \in Kept(files, Log(files))}
        PROVE  Accepted(files, With(Files, r))
    <3>1. PICK p \in Log(files) : RecordAt(files, p).id = r.names
      BY <2>3 DEF Kept
    <3>2. \E f \in 1..Files : TRUE
      BY <3>1, LogIs
    <3>3. Files \in 1..Files
      BY <3>2 DEF ObservationConstants
    <3>4. QED  BY <2>1, <2>3, <3>1, <3>3, WithIsAccepted
  <2>4. QED  BY <2>2, <2>3
<1>2. QED  BY <1>1, LogInvariant, PTL
-----------------------------------------------------------------------------
(* Review.  No id is written twice in a revision, and while a change is    *)
(* the write path's alone, the head is the base with more said below: what *)
(* was said is still said where it was, what was retracted since was in    *)
(* favour of a claim which is there, and a boundary drawn again was        *)
(* measured again.                                                         *)
ReviewTyped ==
    /\ base \in Revised /\ head \in Revised
    /\ change \in [edits : Nat, ordinary : BOOLEAN, policy : [FindingKinds -> Rulings]]

StillSays(was, now) ==
    /\ now.id = was.id /\ now.subject = was.subject /\ now.predicate = was.predicate
    /\ now.print = was.print /\ now.value = was.value
SaysMore(was, now) ==
    \A c \in DOMAIN was.claims : c \in DOMAIN now.claims /\ StillSays(was.claims[c], now.claims[c])

NothingGone == \A e \in Entities : head.held[e] = "absent" => base.held[e] = "absent"
Explained(c) == Holds(head, head.claims[c].by)
AllExplained ==
    \A c \in DOMAIN head.claims : head.claims[c].rank = "deprecated" =>
        \/ c \in DOMAIN base.claims /\ base.claims[c].rank = "deprecated"
        \/ Explained(c)
AllMeasured ==
    \A n \in Nodes : base.corners[n] # head.corners[n] =>
        \E v \in ToSet(head.corners[n]) : MeasuredAgain(v)
Ordinary == NothingGone /\ SaysMore(base, head) /\ AllExplained /\ AllMeasured

ReviewInv ==
    /\ ReviewTyped /\ IdsOnce(base) /\ IdsOnce(head)
    /\ change.ordinary => Ordinary

(* A revision's parts. *)
LEMMA RevisedIs ==
    ASSUME NEW model \in Revised
    PROVE  /\ model.claims \in Seq(StatedClaims) /\ Len(model.claims) \in Nat
           /\ DOMAIN model.claims = 1..Len(model.claims)
           /\ \A c \in DOMAIN model.claims : model.claims[c] \in StatedClaims
           /\ model.held \in [Entities -> {"live", "retired", "superseded", "absent"}]
           /\ model.corners \in [Nodes -> Seq(Vertices)]
BY DEF Revised

(* What an edit leaves of the change. *)
LEMMA EditedIs ==
    ASSUME ReviewTyped, NEW model \in Revised, NEW ordinary \in BOOLEAN, Edited(model, ordinary)
    PROVE  /\ ReviewTyped' /\ head' = model /\ base' = base
           /\ change'.ordinary <=> change.ordinary /\ ordinary
<1>1. head' = model /\ base' = base
  BY DEF Edited
<1> DEFINE both == change.ordinary /\ ordinary
<1>2. change' = [change EXCEPT !.edits = @ + 1, !.ordinary = both]
  BY DEF Edited
<1>3. change.edits \in Nat /\ change.ordinary \in BOOLEAN
  BY DEF ReviewTyped
<1>4. both \in BOOLEAN
  BY <1>3
<1> HIDE DEF both
<1>5. /\ change' \in [edits : Nat, ordinary : BOOLEAN, policy : [FindingKinds -> Rulings]]
      /\ change'.ordinary = both
  <2>1. change \in [edits : Nat, ordinary : BOOLEAN, policy : [FindingKinds -> Rulings]]
    BY DEF ReviewTyped
  <2>2. change.edits + 1 \in Nat
    BY <1>3
  <2> DEFINE more == change.edits + 1
  <2>3. change' = [change EXCEPT !.edits = more, !.ordinary = both]
    BY <1>2
  <2> HIDE DEF more
  <2>4. change' \in [edits : Nat, ordinary : BOOLEAN, policy : [FindingKinds -> Rulings]]
    BY <2>1, <2>2, <2>3, <1>4, Zenon DEF more
  <2>5. change'.ordinary = both
    BY <2>1, <2>3, Zenon
  <2>6. QED  BY <2>4, <2>5
<1>6. ReviewTyped'
  BY <1>1, <1>5 DEF ReviewTyped
<1>7. QED  BY <1>1, <1>5, <1>6 DEF both
-----------------------------------------------------------------------------
(* What each operation makes of the head.                                  *)
AppendsTo(claims0, claims1, new) ==
    /\ DOMAIN claims1 = 1..(Len(claims0) + 1)
    /\ claims1[Len(claims0) + 1] = new
    /\ \A c \in DOMAIN claims0 : c \in DOMAIN claims1

LEMMA SurveyIs ==
    ASSUME ReviewConstants, ReviewTyped, Survey
    PROVE  /\ ReviewTyped' /\ base' = base /\ (change'.ordinary <=> change.ordinary)
           /\ head'.held = head.held /\ head'.corners = head.corners
           /\ \E new \in StatedClaims :
                 /\ AppendsTo(head.claims, head'.claims, new)
                 /\ new.rank = "normal" /\ new.id \in Fresh \cup {NoReviewId}
                 /\ \A c \in DOMAIN head.claims : head'.claims[c] = head.claims[c]
<1>1. PICK s \in {e \in Surveyable : head.held[e] # "absent"}, p \in Predicates,
           i \in Fresh \cup {NoReviewId}, print \in Prints, v \in Values :
           Edited([head EXCEPT !.claims = Append(@, Surveyed(s, p, i, print, v))], TRUE)
  BY DEF Survey
<1> DEFINE new == Surveyed(s, p, i, print, v)
           model == [head EXCEPT !.claims = Append(@, new)]
<1>2. s \in Entities /\ i \in ReviewIds \cup {NoReviewId}
  BY DEF ReviewConstants, Fresh
<1>3. new \in StatedClaims /\ new.rank = "normal" /\ new.id = i
  BY <1>2 DEF Surveyed, StatedClaims
<1> HIDE DEF new
<1>4. head \in Revised /\ head.claims \in Seq(StatedClaims) /\ Len(head.claims) \in Nat
  BY RevisedIs DEF ReviewTyped
<1>5. Append(head.claims, new) \in Seq(StatedClaims)
  BY <1>3, <1>4
<1>6. /\ model \in Revised /\ model.claims = Append(head.claims, new)
      /\ model.held = head.held /\ model.corners = head.corners
  BY <1>4, <1>5 DEF Revised
<1>7. Edited(model, TRUE)
  BY <1>1 DEF new
<1> HIDE DEF model
<1>8. ReviewTyped' /\ base' = base /\ head' = model /\ (change'.ordinary <=> change.ordinary)
  BY <1>6, <1>7, EditedIs
<1>9. AppendsTo(head.claims, Append(head.claims, new), new)
  BY <1>3, <1>4 DEF AppendsTo
<1>10. \A c \in DOMAIN head.claims : Append(head.claims, new)[c] = head.claims[c]
  BY <1>4
<1>11. QED  BY <1>1, <1>3, <1>6, <1>8, <1>9, <1>10

LEMMA SupersedeIs ==
    ASSUME ReviewConstants, ReviewTyped, Supersede
    PROVE  /\ ReviewTyped' /\ base' = base /\ (change'.ordinary <=> change.ordinary)
           /\ head'.held = head.held /\ head'.corners = head.corners
           /\ \E c \in DOMAIN head.claims, new \in StatedClaims :
                 /\ AppendsTo(head.claims, head'.claims, new)
                 /\ new.rank = "normal" /\ new.id \in Fresh
                 /\ new.subject = head.claims[c].subject
                 /\ new.predicate = head.claims[c].predicate
                 /\ head'.claims[c] = [head.claims[c] EXCEPT !.rank = "deprecated", !.by = new.id]
                 /\ \A d \in DOMAIN head.claims : d # c => head'.claims[d] = head.claims[d]
<1>1. PICK c \in DOMAIN head.claims, i \in Fresh, print \in Prints, v \in Values :
          Edited([head EXCEPT !.claims =
                     Append([@ EXCEPT ![c].rank = "deprecated", ![c].by = i],
                            Surveyed(head.claims[c].subject, head.claims[c].predicate, i, print, v))], TRUE)
  BY DEF Supersede
<1> DEFINE new == Surveyed(head.claims[c].subject, head.claims[c].predicate, i, print, v)
           marked == [head.claims EXCEPT ![c].rank = "deprecated", ![c].by = i]
           model == [head EXCEPT !.claims = Append(marked, new)]
<1>2. i \in ReviewIds
  BY DEF Fresh
<1>3. head \in Revised /\ head.claims \in Seq(StatedClaims) /\ Len(head.claims) \in Nat
  BY RevisedIs DEF ReviewTyped
<1>4. head.claims[c] \in StatedClaims
  BY <1>3
<1>5. /\ new \in StatedClaims /\ new.rank = "normal" /\ new.id = i
      /\ new.subject = head.claims[c].subject /\ new.predicate = head.claims[c].predicate
  BY <1>2, <1>4 DEF Surveyed, StatedClaims
<1>6. [head.claims[c] EXCEPT !.rank = "deprecated", !.by = i] \in StatedClaims
  BY <1>2, <1>4 DEF StatedClaims
<1>7. marked = [head.claims EXCEPT ![c] = [head.claims[c] EXCEPT !.rank = "deprecated", !.by = i]]
  BY <1>3
<1>8. /\ marked \in Seq(StatedClaims) /\ Len(marked) = Len(head.claims)
      /\ marked[c] = [head.claims[c] EXCEPT !.rank = "deprecated", !.by = i]
      /\ \A d \in DOMAIN head.claims : d # c => marked[d] = head.claims[d]
  <2> DEFINE old == [head.claims[c] EXCEPT !.rank = "deprecated", !.by = i]
             s == head.claims
  <2>1. marked = [s EXCEPT ![c] = old] /\ old \in StatedClaims /\ s \in Seq(StatedClaims) /\ c \in DOMAIN s
    BY <1>3, <1>6, <1>7
  <2> HIDE DEF old, s, marked
  <2>2. /\ marked \in Seq(StatedClaims) /\ Len(marked) = Len(s) /\ marked[c] = old
        /\ \A d \in DOMAIN s : d # c => marked[d] = s[d]
    BY <2>1
  <2>3. QED  BY <2>2 DEF old, s
<1>9. Edited(model, TRUE)
  BY <1>1
<1> HIDE DEF new, marked
<1>10. Append(marked, new) \in Seq(StatedClaims)
  BY <1>5, <1>8
<1>11. /\ model \in Revised /\ model.claims = Append(marked, new)
       /\ model.held = head.held /\ model.corners = head.corners
  BY <1>3, <1>10 DEF Revised
<1> HIDE DEF model
<1>12. ReviewTyped' /\ base' = base /\ head' = model /\ (change'.ordinary <=> change.ordinary)
  BY <1>9, <1>11, EditedIs
<1>13. AppendsTo(head.claims, Append(marked, new), new)
  BY <1>3, <1>5, <1>8 DEF AppendsTo
<1>14. \A d \in DOMAIN head.claims : Append(marked, new)[d] = marked[d]
  BY <1>3, <1>5, <1>8
<1>15. /\ head'.claims[c] = [head.claims[c] EXCEPT !.rank = "deprecated", !.by = new.id]
       /\ \A d \in DOMAIN head.claims : d # c => head'.claims[d] = head.claims[d]
  BY <1>5, <1>8, <1>11, <1>12, <1>14
<1>16. AppendsTo(head.claims, head'.claims, new)
  BY <1>11, <1>12, <1>13
<1>17. QED  BY <1>5, <1>11, <1>12, <1>15, <1>16

LEMMA RetireIs ==
    ASSUME ReviewTyped, RetireNode
    PROVE  /\ ReviewTyped' /\ base' = base /\ (change'.ordinary <=> change.ordinary)
           /\ head'.claims = head.claims /\ head'.corners = head.corners
           /\ \A e \in Entities : head'.held[e] = "absent" => head.held[e] = "absent"
<1>1. PICK n \in Nodes, how \in {"retired", "superseded"} :
          head.held[n] = "live" /\ Edited([head EXCEPT !.held[n] = how], TRUE)
  BY DEF RetireNode
<1> DEFINE held == [head.held EXCEPT ![n] = how]
           model == [head EXCEPT !.held = held]
<1>2. head \in Revised /\ head.held \in [Entities -> {"live", "retired", "superseded", "absent"}]
  BY RevisedIs DEF ReviewTyped
<1>3. /\ held \in [Entities -> {"live", "retired", "superseded", "absent"}]
      /\ \A e \in Entities : held[e] = "absent" => head.held[e] = "absent"
  BY <1>1, <1>2
<1>4. Edited(model, TRUE)
  BY <1>1
<1> HIDE DEF held
<1>5. /\ model \in Revised /\ model.held = held
      /\ model.claims = head.claims /\ model.corners = head.corners
  BY <1>2, <1>3 DEF Revised
<1> HIDE DEF model
<1>6. ReviewTyped' /\ base' = base /\ head' = model /\ (change'.ordinary <=> change.ordinary)
  BY <1>4, <1>5, EditedIs
<1>7. QED  BY <1>3, <1>5, <1>6

LEMMA RecornerIs ==
    ASSUME ReviewTyped, Recorner
    PROVE  /\ ReviewTyped' /\ base' = base
           /\ head'.claims = head.claims /\ head'.held = head.held
           /\ \E n \in Nodes :
                 /\ \A m \in Nodes : m # n => head'.corners[m] = head.corners[m]
                 /\ change'.ordinary => /\ change.ordinary
                                        /\ \E v \in ToSet(head'.corners[n]) : MeasuredAgain(v)
<1>1. PICK n \in Nodes, a \in Vertices, b \in Vertices :
          Edited([head EXCEPT !.corners[n] = <<a, b>>], MeasuredAgain(a) \/ MeasuredAgain(b))
  BY DEF Recorner
<1> DEFINE corners == [head.corners EXCEPT ![n] = <<a, b>>]
           model == [head EXCEPT !.corners = corners]
           again == MeasuredAgain(a) \/ MeasuredAgain(b)
<1>2. head \in Revised /\ head.corners \in [Nodes -> Seq(Vertices)]
  BY RevisedIs DEF ReviewTyped
<1>3. <<a, b>> \in Seq(Vertices)
  OBVIOUS
<1>4. /\ corners \in [Nodes -> Seq(Vertices)] /\ corners[n] = <<a, b>>
      /\ \A m \in Nodes : m # n => corners[m] = head.corners[m]
  BY <1>2, <1>3
<1>5. Edited(model, again)
  BY <1>1
<1>6. a \in ToSet(<<a, b>>) /\ b \in ToSet(<<a, b>>)
  BY DEF ToSet
<1>7. again \in BOOLEAN
  BY DEF MeasuredAgain
<1>8. again => \E v \in ToSet(<<a, b>>) : MeasuredAgain(v)
  BY <1>6
<1> HIDE DEF corners, again
<1>9. /\ model \in Revised /\ model.corners = corners
      /\ model.claims = head.claims /\ model.held = head.held
  BY <1>2, <1>4 DEF Revised
<1> HIDE DEF model
<1>10. /\ ReviewTyped' /\ base' = base /\ head' = model
       /\ (change'.ordinary <=> change.ordinary /\ again)
  BY <1>5, <1>7, <1>9, EditedIs
<1>11. QED  BY <1>4, <1>8, <1>9, <1>10

(* What an editor does by hand makes a change not the write path's alone,  *)
(* and writes no id twice.                                                 *)
LEMMA RewriteIs ==
    ASSUME ReviewTyped, RewriteByHand
    PROVE  /\ ReviewTyped' /\ base' = base /\ ~change'.ordinary
           /\ DOMAIN head'.claims = DOMAIN head.claims
           /\ \A d \in DOMAIN head.claims : head'.claims[d].id = head.claims[d].id
<1>1. PICK c \in DOMAIN head.claims, v \in Values : Edited([head EXCEPT !.claims[c].value = v], FALSE)
  BY DEF RewriteByHand
<1> DEFINE s == head.claims
           new == [s[c] EXCEPT !.value = v]
           written == [s EXCEPT ![c] = new]
           model == [head EXCEPT !.claims = written]
<1>2. head \in Revised /\ s \in Seq(StatedClaims) /\ s[c] \in StatedClaims
  BY RevisedIs DEF ReviewTyped
<1>3. new \in StatedClaims /\ new.id = s[c].id
  BY <1>2 DEF StatedClaims
<1>4. Edited(model, FALSE)
  BY <1>1
<1> HIDE DEF new
<1>5. /\ written \in Seq(StatedClaims) /\ DOMAIN written = DOMAIN s
      /\ \A d \in DOMAIN s : written[d].id = s[d].id
  BY <1>2, <1>3
<1> HIDE DEF written
<1>6. model \in Revised /\ model.claims = written
  BY <1>2, <1>5 DEF Revised
<1> HIDE DEF model
<1>7. ReviewTyped' /\ base' = base /\ head' = model /\ ~change'.ordinary
  BY <1>4, <1>6, EditedIs
<1>8. QED  BY <1>5, <1>6, <1>7

(* A retraction, by whomever, leaves the rest as it was. *)
LEMMA RetractionIs ==
    ASSUME ReviewTyped, NEW c \in DOMAIN head.claims, NEW by \in ReviewIds \cup {NoReviewId},
           NEW ordinary \in BOOLEAN,
           Edited([head EXCEPT !.claims[c].rank = "deprecated", !.claims[c].by = by], ordinary)
    PROVE  /\ ReviewTyped' /\ base' = base
           /\ change'.ordinary <=> change.ordinary /\ ordinary
           /\ head'.held = head.held /\ head'.corners = head.corners
           /\ DOMAIN head'.claims = DOMAIN head.claims
           /\ head'.claims[c].by = by /\ StillSays(head.claims[c], head'.claims[c])
           /\ \A d \in DOMAIN head.claims : d # c => head'.claims[d] = head.claims[d]
<1> DEFINE s == head.claims
           new == [s[c] EXCEPT !.rank = "deprecated", !.by = by]
           written == [s EXCEPT ![c] = new]
           model == [head EXCEPT !.claims = written]
<1>1. head \in Revised /\ s \in Seq(StatedClaims) /\ s[c] \in StatedClaims
  BY RevisedIs DEF ReviewTyped
<1>2. new \in StatedClaims /\ new.by = by /\ StillSays(s[c], new)
  BY <1>1 DEF StatedClaims, StillSays
<1>3. model = [head EXCEPT !.claims[c].rank = "deprecated", !.claims[c].by = by]
  BY <1>1 DEF Revised
<1>4. Edited(model, ordinary)
  BY <1>3
<1> HIDE DEF new
<1>5. /\ written \in Seq(StatedClaims) /\ DOMAIN written = DOMAIN s /\ written[c] = new
      /\ \A d \in DOMAIN s : d # c => written[d] = s[d]
  BY <1>1, <1>2
<1> HIDE DEF written
<1>6. /\ model \in Revised /\ model.claims = written
      /\ model.held = head.held /\ model.corners = head.corners
  BY <1>1, <1>5 DEF Revised
<1> HIDE DEF model
<1>7. /\ ReviewTyped' /\ base' = base /\ head' = model
      /\ change'.ordinary <=> change.ordinary /\ ordinary
  BY <1>4, <1>6, EditedIs
<1>8. QED  BY <1>2, <1>5, <1>6, <1>7

LEMMA RetractIs ==
    ASSUME ReviewTyped, RetractByHand
    PROVE  /\ ReviewTyped' /\ base' = base /\ ~change'.ordinary
           /\ DOMAIN head'.claims = DOMAIN head.claims
           /\ \A d \in DOMAIN head.claims : head'.claims[d].id = head.claims[d].id
<1>1. PICK c \in DOMAIN head.claims, by \in ReviewIds \cup {NoReviewId} :
          Edited([head EXCEPT !.claims[c].rank = "deprecated", !.claims[c].by = by], FALSE)
  BY DEF RetractByHand
<1>2. /\ ReviewTyped' /\ base' = base /\ (change'.ordinary <=> change.ordinary /\ FALSE)
      /\ DOMAIN head'.claims = DOMAIN head.claims
      /\ StillSays(head.claims[c], head'.claims[c])
      /\ \A d \in DOMAIN head.claims : d # c => head'.claims[d] = head.claims[d]
  BY <1>1, RetractionIs
<1>3. QED  BY <1>2 DEF StillSays

LEMMA DeprecateIs ==
    ASSUME ReviewTyped, DeprecateClaim
    PROVE  /\ ReviewTyped' /\ base' = base /\ (change'.ordinary <=> change.ordinary)
           /\ head'.held = head.held /\ head'.corners = head.corners
           /\ DOMAIN head'.claims = DOMAIN head.claims
           /\ \E c \in DOMAIN head.claims :
                 /\ Holds(head, head'.claims[c].by)
                 /\ StillSays(head.claims[c], head'.claims[c])
                 /\ \A d \in DOMAIN head.claims : d # c => head'.claims[d] = head.claims[d]
<1>1. PICK c \in DOMAIN head.claims, by \in ReviewIds :
          /\ Holds(head, by)
          /\ Edited([head EXCEPT !.claims[c].rank = "deprecated", !.claims[c].by = by], TRUE)
  BY Zenon DEF DeprecateClaim
<1>2. /\ ReviewTyped' /\ base' = base /\ (change'.ordinary <=> change.ordinary /\ TRUE)
      /\ head'.held = head.held /\ head'.corners = head.corners
      /\ DOMAIN head'.claims = DOMAIN head.claims
      /\ head'.claims[c].by = by /\ StillSays(head.claims[c], head'.claims[c])
      /\ \A d \in DOMAIN head.claims : d # c => head'.claims[d] = head.claims[d]
  BY <1>1, RetractionIs
<1>3. QED  BY <1>1, <1>2

LEMMA RemoveAtIs ==
    ASSUME NEW S, NEW s \in Seq(S), NEW c \in DOMAIN s
    PROVE  /\ RemoveAt(s, c) \in Seq(S) /\ DOMAIN RemoveAt(s, c) = 1..(Len(s) - 1)
           /\ \A d \in 1..(Len(s) - 1) : RemoveAt(s, c)[d] = s[IF d < c THEN d ELSE d + 1]
<1> DEFINE n == Len(s)
           front == SubSeq(s, 1, c - 1)
           back == SubSeq(s, c + 1, n)
<1>1. n \in Nat /\ c \in 1..n
  OBVIOUS
<1>2. /\ front \in Seq(S) /\ Len(front) = c - 1
      /\ \A d \in 1..(c - 1) : front[d] = s[d]
  BY <1>1
<1>3. /\ back \in Seq(S) /\ Len(back) = n - c
      /\ \A d \in 1..(n - c) : back[d] = s[c + d]
  BY <1>1
<1>4. RemoveAt(s, c) = front \o back
  BY DEF RemoveAt
<1> HIDE DEF n, front, back
<1>5. front \o back \in Seq(S) /\ Len(front \o back) = n - 1
  <2>1. front \in Seq(S) /\ back \in Seq(S)
    BY <1>2, <1>3
  <2>2. front \o back \in Seq(S) /\ Len(front \o back) = Len(front) + Len(back)
    BY ONLY <2>1
  <2>3. (c - 1) + (n - c) = n - 1
    BY <1>1
  <2>4. QED  BY <2>2, <2>3, <1>2, <1>3
<1>6. ASSUME NEW d \in 1..(n - 1) PROVE (front \o back)[d] = s[IF d < c THEN d ELSE d + 1]
  <2>1. CASE d < c
    BY <2>1, <1>1, <1>2, <1>3
  <2>2. CASE ~(d < c)
    <3>1. (front \o back)[d] = back[d - (c - 1)]
      <4>1. d \in 1..(Len(front) + Len(back)) /\ d > Len(front)
        BY <2>2, <1>1, <1>2, <1>3
      <4>2. (front \o back)[d] = back[d - Len(front)]
        BY <4>1, <1>2, <1>3
      <4>3. QED  BY <4>2, <1>2
    <3>2. d - (c - 1) \in 1..(n - c) /\ c + (d - (c - 1)) = d + 1
      BY <2>2, <1>1
    <3>3. QED  BY <3>1, <3>2, <2>2, <1>3
  <2>3. QED  BY <2>1, <2>2
<1>7. DOMAIN (front \o back) = 1..(n - 1)
  BY <1>1, <1>5
<1>8. QED  BY <1>4, <1>5, <1>6, <1>7 DEF n

LEMMA DeleteIs ==
    ASSUME ReviewTyped, IdsOnce(head), DeleteByHand
    PROVE  ReviewTyped' /\ base' = base /\ ~change'.ordinary /\ IdsOnce(head')
<1>0. head \in Revised /\ head.claims \in Seq(StatedClaims)
  BY RevisedIs DEF ReviewTyped
<1>1. CASE \E c \in DOMAIN head.claims : Edited([head EXCEPT !.claims = RemoveAt(@, c)], FALSE)
  <2>1. PICK c \in DOMAIN head.claims : Edited([head EXCEPT !.claims = RemoveAt(@, c)], FALSE)
    BY <1>1
  <2> DEFINE s == head.claims
             left == RemoveAt(s, c)
             model == [head EXCEPT !.claims = left]
  <2>2. /\ left \in Seq(StatedClaims) /\ DOMAIN left = 1..(Len(s) - 1)
        /\ \A d \in 1..(Len(s) - 1) : left[d] = s[IF d < c THEN d ELSE d + 1]
    BY <1>0, RemoveAtIs
  <2>3. Edited(model, FALSE)
    BY <2>1
  <2> HIDE DEF left
  <2>4. model \in Revised /\ model.claims = left
    BY <1>0, <2>2 DEF Revised
  <2> HIDE DEF model
  <2>5. ReviewTyped' /\ base' = base /\ head' = model /\ ~change'.ordinary
    BY <2>3, <2>4, EditedIs
  <2>6. ASSUME NEW d \in DOMAIN left, NEW e \in DOMAIN left,
               left[d].id = left[e].id, left[d].id # NoReviewId
        PROVE  d = e
    <3> DEFINE at(k) == IF k < c THEN k ELSE k + 1
    <3>1. Len(s) \in Nat /\ c \in 1..Len(s) /\ DOMAIN s = 1..Len(s)
      BY <1>0
    <3>2. left[d] = s[at(d)] /\ left[e] = s[at(e)]
      BY <2>2, <2>6
    <3>3. at(d) \in DOMAIN s /\ at(e) \in DOMAIN s
      BY <3>1, <2>2, <2>6
    <3>4. at(d) = at(e)
      BY <3>2, <3>3, <2>6 DEF IdsOnce
    <3>5. QED  BY <3>1, <3>4, <2>2, <2>6
  <2>7. QED  BY <2>4, <2>5, <2>6 DEF IdsOnce
<1>2. CASE \E e \in Entities : Edited([head EXCEPT !.held[e] = "absent"], FALSE)
  <2>1. PICK e \in Entities : Edited([head EXCEPT !.held[e] = "absent"], FALSE)
    BY <1>2
  <2> DEFINE model == [head EXCEPT !.held[e] = "absent"]
  <2>2. model \in Revised /\ model.claims = head.claims
    BY <1>0 DEF Revised
  <2>3. Edited(model, FALSE)
    BY <2>1
  <2> HIDE DEF model
  <2>4. ReviewTyped' /\ base' = base /\ head' = model /\ ~change'.ordinary
    BY <2>2, <2>3, EditedIs
  <2>5. QED  BY <2>2, <2>4 DEF IdsOnce
<1>3. QED  BY <1>1, <1>2 DEF DeleteByHand
-----------------------------------------------------------------------------
(* A change which has changed nothing is ordinary. *)
LEMMA NothingIsOrdinary == ReviewTyped /\ head = base => Ordinary
<1> SUFFICES ASSUME ReviewTyped, head = base PROVE Ordinary
  OBVIOUS
<1>1. NothingGone /\ SaysMore(base, head)
  BY DEF NothingGone, SaysMore, StillSays
<1>2. AllExplained /\ AllMeasured
  BY DEF AllExplained, AllMeasured
<1>3. QED  BY <1>1, <1>2 DEF Ordinary

LEMMA ReviewInitial == ReviewConstants /\ ReviewInit => ReviewInv
<1> SUFFICES ASSUME ReviewConstants, ReviewInit PROVE ReviewInv
  OBVIOUS
<1>1. base \in Revised /\ head = base /\ IdsOnce(base)
  BY DEF ReviewConstants, ReviewInit
<1>2. PICK p \in Policies : change = [edits |-> 0, ordinary |-> TRUE, policy |-> p]
  BY DEF ReviewInit
<1>3. ReviewTyped
  BY <1>1, <1>2 DEF ReviewTyped, ReviewConstants
<1>4. QED  BY <1>1, <1>3, NothingIsOrdinary DEF ReviewInv

(* Where what is appended has an id nothing has, none is written twice.    *)
LEMMA IdsOnceAppended ==
    ASSUME NEW model \in Revised, NEW more, NEW new, IdsOnce(model),
           AppendsTo(model.claims, more.claims, new),
           \A c \in DOMAIN model.claims : more.claims[c].id = model.claims[c].id,
           new.id # NoReviewId => \A c \in DOMAIN model.claims : model.claims[c].id # new.id
    PROVE  IdsOnce(more)
<1> DEFINE n == Len(model.claims)
<1>1. n \in Nat /\ DOMAIN model.claims = 1..n
  BY RevisedIs
<1>2. DOMAIN more.claims = 1..(n + 1) /\ more.claims[n + 1] = new
  BY DEF AppendsTo
<1> HIDE DEF n
<1> SUFFICES ASSUME NEW c \in DOMAIN more.claims, NEW d \in DOMAIN more.claims,
                    more.claims[c].id = more.claims[d].id, more.claims[c].id # NoReviewId
             PROVE  c = d
  BY DEF IdsOnce
<1>3. CASE c = n + 1 \/ d = n + 1
  BY <1>1, <1>2, <1>3
<1>4. CASE c # n + 1 /\ d # n + 1
  <2>1. c \in DOMAIN model.claims /\ d \in DOMAIN model.claims
    BY <1>1, <1>2, <1>4
  <2>2. QED  BY <2>1 DEF IdsOnce
<1>5. QED  BY <1>3, <1>4

LEMMA FreshIs ==
    ASSUME ReviewConstants, NEW i \in Fresh
    PROVE  i # NoReviewId /\ \A c \in DOMAIN head.claims : head.claims[c].id # i
BY DEF Fresh, Holds, ReviewConstants

(* Saying more keeps what was said, which ids are held, and what was       *)
(* measured again.                                                         *)
LEMMA SayingMoreKeeps ==
    ASSUME base' = base, SaysMore(base, head), SaysMore(head, head')
    PROVE  /\ SaysMore(base, head')
           /\ \A id : Holds(head, id) => Holds(head', id)
           /\ \A v : MeasuredAgain(v) => MeasuredAgain(v)'
<1>1. SaysMore(base, head')
  BY DEF SaysMore, StillSays
<1>2. ASSUME NEW id, Holds(head, id) PROVE Holds(head', id)
  BY <1>2 DEF Holds, SaysMore, StillSays
<1>3. ASSUME NEW v, MeasuredAgain(v) PROVE MeasuredAgain(v)'
  <2>1. PICK c \in DOMAIN head.claims : head.claims[c].subject = v /\ Was(c) = 0
    BY <1>3 DEF MeasuredAgain
  <2>2. c \in DOMAIN head'.claims /\ StillSays(head.claims[c], head'.claims[c])
    BY DEF SaysMore
  <2>3. Fingerprint(head'.claims[c]) = Fingerprint(head.claims[c])
    BY <2>2 DEF StillSays, Fingerprint
  <2>4. Was(c)' = Was(c)
    BY <2>3 DEF Was
  <2>5. head'.claims[c].subject = v
    BY <2>1, <2>2 DEF StillSays
  <2>6. QED  BY <2>1, <2>2, <2>4, <2>5 DEF MeasuredAgain
<1>4. QED  BY <1>1, <1>2, <1>3

LEMMA SurveyKeeps == ASSUME ReviewConstants, ReviewInv, Survey PROVE ReviewInv'
<1>1. /\ ReviewTyped' /\ base' = base /\ (change'.ordinary <=> change.ordinary)
      /\ head'.held = head.held /\ head'.corners = head.corners
  BY SurveyIs DEF ReviewInv
<1>2. PICK new \in StatedClaims :
         /\ AppendsTo(head.claims, head'.claims, new)
         /\ new.rank = "normal" /\ new.id \in Fresh \cup {NoReviewId}
         /\ \A c \in DOMAIN head.claims : head'.claims[c] = head.claims[c]
  BY SurveyIs DEF ReviewInv
<1>3. head \in Revised /\ IdsOnce(head) /\ IdsOnce(base)
  BY DEF ReviewInv, ReviewTyped
<1>4. IdsOnce(head')
  <2>1. new.id # NoReviewId => \A c \in DOMAIN head.claims : head.claims[c].id # new.id
    BY <1>2, FreshIs
  <2>2. QED  BY <2>1, <1>2, <1>3, IdsOnceAppended
<1>5. ASSUME Ordinary PROVE Ordinary'
  <2>1. SaysMore(head, head')
    BY <1>2 DEF SaysMore, StillSays, AppendsTo
  <2>2. /\ SaysMore(base, head')
        /\ \A id : Holds(head, id) => Holds(head', id)
        /\ \A v : MeasuredAgain(v) => MeasuredAgain(v)'
    BY <1>1, <1>5, <2>1, SayingMoreKeeps DEF Ordinary
  <2>3. NothingGone'
    BY <1>1, <1>5 DEF Ordinary, NothingGone
  <2>4. AllMeasured'
    BY <1>1, <1>5, <2>2 DEF Ordinary, AllMeasured
  <2>5. AllExplained'
    <3>1. ASSUME NEW c \in DOMAIN head'.claims, head'.claims[c].rank = "deprecated",
                 ~(c \in DOMAIN base.claims /\ base.claims[c].rank = "deprecated")
          PROVE  Explained(c)'
      <4>1. c \in DOMAIN head.claims /\ head'.claims[c] = head.claims[c]
        <5>1. Len(head.claims) \in Nat /\ DOMAIN head.claims = 1..Len(head.claims)
          BY <1>3, RevisedIs
        <5>2. c # Len(head.claims) + 1
          BY <1>2, <3>1 DEF AppendsTo
        <5>3. QED  BY <1>2, <3>1, <5>1, <5>2 DEF AppendsTo
      <4>2. Explained(c)
        BY <1>5, <3>1, <4>1 DEF Ordinary, AllExplained
      <4>3. QED  BY <2>2, <4>1, <4>2 DEF Explained
    <3>2. QED  BY <1>1, <3>1 DEF AllExplained
  <2>6. QED  BY <1>1, <2>2, <2>3, <2>4, <2>5 DEF Ordinary
<1>6. QED  BY <1>1, <1>3, <1>4, <1>5 DEF ReviewInv

LEMMA SupersedeKeeps == ASSUME ReviewConstants, ReviewInv, Supersede PROVE ReviewInv'
<1>1. /\ ReviewTyped' /\ base' = base /\ (change'.ordinary <=> change.ordinary)
      /\ head'.held = head.held /\ head'.corners = head.corners
  BY SupersedeIs DEF ReviewInv
<1>2. PICK c \in DOMAIN head.claims, new \in StatedClaims :
         /\ AppendsTo(head.claims, head'.claims, new)
         /\ new.rank = "normal" /\ new.id \in Fresh
         /\ new.subject = head.claims[c].subject
         /\ new.predicate = head.claims[c].predicate
         /\ head'.claims[c] = [head.claims[c] EXCEPT !.rank = "deprecated", !.by = new.id]
         /\ \A d \in DOMAIN head.claims : d # c => head'.claims[d] = head.claims[d]
  BY SupersedeIs DEF ReviewInv
<1> DEFINE n == Len(head.claims)
<1>3. /\ head \in Revised /\ IdsOnce(head) /\ IdsOnce(base)
      /\ n \in Nat /\ DOMAIN head.claims = 1..n /\ head.claims[c] \in StatedClaims
  BY RevisedIs DEF ReviewInv, ReviewTyped
<1>4. /\ head'.claims[c].rank = "deprecated" /\ head'.claims[c].by = new.id
      /\ StillSays(head.claims[c], head'.claims[c])
  BY <1>2, <1>3 DEF StillSays, StatedClaims
<1>5. SaysMore(head, head')
  <2>1. ASSUME NEW d \in DOMAIN head.claims PROVE StillSays(head.claims[d], head'.claims[d])
    BY <1>2, <1>4 DEF StillSays
  <2>2. QED  BY <2>1, <1>2 DEF SaysMore, AppendsTo
<1>6. DOMAIN head'.claims = 1..(n + 1) /\ head'.claims[n + 1] = new
  BY <1>2 DEF AppendsTo
<1>7. new.id # NoReviewId /\ \A d \in DOMAIN head.claims : head.claims[d].id # new.id
  BY <1>2, FreshIs
<1> HIDE DEF n
<1>8. IdsOnce(head')
  <2>1. \A d \in DOMAIN head.claims : head'.claims[d].id = head.claims[d].id
    BY <1>5 DEF SaysMore, StillSays
  <2>2. QED  BY <2>1, <1>2, <1>3, <1>7, IdsOnceAppended
<1>9. n + 1 \in DOMAIN head'.claims
  BY <1>3, <1>6
<1>10. Holds(head', new.id)
  BY <1>6, <1>7, <1>9 DEF Holds
<1>11. ASSUME Ordinary PROVE Ordinary'
  <2>1. /\ SaysMore(base, head')
        /\ \A id : Holds(head, id) => Holds(head', id)
        /\ \A v : MeasuredAgain(v) => MeasuredAgain(v)'
    BY <1>1, <1>5, <1>11, SayingMoreKeeps DEF Ordinary
  <2>2. NothingGone'
    BY <1>1, <1>11 DEF Ordinary, NothingGone
  <2>3. AllMeasured'
    BY <1>1, <1>11, <2>1 DEF Ordinary, AllMeasured
  <2>4. AllExplained'
    <3>1. ASSUME NEW d \in DOMAIN head'.claims, head'.claims[d].rank = "deprecated",
                 ~(d \in DOMAIN base.claims /\ base.claims[d].rank = "deprecated")
          PROVE  Explained(d)'
      <4>1. CASE d = c
        BY <4>1, <1>4, <1>10 DEF Explained
      <4>2. CASE d # c
        <5>1. d # n + 1
          BY <3>1, <1>2, <1>6
        <5>2. d \in DOMAIN head.claims /\ head'.claims[d] = head.claims[d]
          BY <4>2, <5>1, <3>1, <1>2, <1>3, <1>6
        <5>3. Explained(d)
          BY <1>11, <3>1, <5>2 DEF Ordinary, AllExplained
        <5>4. QED  BY <2>1, <5>2, <5>3 DEF Explained
      <4>3. QED  BY <4>1, <4>2
    <3>2. QED  BY <1>1, <3>1 DEF AllExplained
  <2>5. QED  BY <1>1, <2>1, <2>2, <2>3, <2>4 DEF Ordinary
<1>12. QED  BY <1>1, <1>3, <1>8, <1>11 DEF ReviewInv

LEMMA DeprecateKeeps == ASSUME ReviewInv, DeprecateClaim PROVE ReviewInv'
<1>1. /\ ReviewTyped' /\ base' = base /\ (change'.ordinary <=> change.ordinary)
      /\ head'.held = head.held /\ head'.corners = head.corners
      /\ DOMAIN head'.claims = DOMAIN head.claims
  BY DeprecateIs DEF ReviewInv
<1>2. PICK c \in DOMAIN head.claims :
         /\ Holds(head, head'.claims[c].by) /\ StillSays(head.claims[c], head'.claims[c])
         /\ \A d \in DOMAIN head.claims : d # c => head'.claims[d] = head.claims[d]
  BY DeprecateIs DEF ReviewInv
<1>3. SaysMore(head, head')
  BY <1>1, <1>2 DEF SaysMore, StillSays
<1>4. IdsOnce(base') /\ IdsOnce(head')
  BY <1>1, <1>3 DEF ReviewInv, IdsOnce, SaysMore, StillSays
<1>5. ASSUME Ordinary PROVE Ordinary'
  <2>1. /\ SaysMore(base, head')
        /\ \A id : Holds(head, id) => Holds(head', id)
        /\ \A v : MeasuredAgain(v) => MeasuredAgain(v)'
    BY <1>1, <1>3, <1>5, SayingMoreKeeps DEF Ordinary
  <2>2. NothingGone'
    BY <1>1, <1>5 DEF Ordinary, NothingGone
  <2>3. AllMeasured'
    BY <1>1, <1>5, <2>1 DEF Ordinary, AllMeasured
  <2>4. AllExplained'
    <3>1. ASSUME NEW d \in DOMAIN head'.claims, head'.claims[d].rank = "deprecated",
                 ~(d \in DOMAIN base.claims /\ base.claims[d].rank = "deprecated")
          PROVE  Explained(d)'
      <4>1. CASE d = c
        BY <4>1, <1>2, <2>1 DEF Explained
      <4>2. CASE d # c
        <5>1. d \in DOMAIN head.claims /\ head'.claims[d] = head.claims[d]
          BY <4>2, <3>1, <1>1, <1>2
        <5>2. Explained(d)
          BY <1>5, <3>1, <5>1 DEF Ordinary, AllExplained
        <5>3. QED  BY <2>1, <5>1, <5>2 DEF Explained
      <4>3. QED  BY <4>1, <4>2
    <3>2. QED  BY <1>1, <3>1 DEF AllExplained
  <2>5. QED  BY <1>1, <2>1, <2>2, <2>3, <2>4 DEF Ordinary
<1>6. QED  BY <1>1, <1>4, <1>5 DEF ReviewInv

LEMMA RetireKeeps == ASSUME ReviewInv, RetireNode PROVE ReviewInv'
<1>1. /\ ReviewTyped' /\ base' = base /\ (change'.ordinary <=> change.ordinary)
      /\ head'.claims = head.claims /\ head'.corners = head.corners
      /\ \A e \in Entities : head'.held[e] = "absent" => head.held[e] = "absent"
  BY RetireIs DEF ReviewInv
<1>2. IdsOnce(base') /\ IdsOnce(head')
  BY <1>1 DEF ReviewInv, IdsOnce
<1>3. ASSUME Ordinary PROVE Ordinary'
  <2>1. NothingGone'
    BY <1>1, <1>3 DEF Ordinary, NothingGone
  <2>2. SaysMore(base, head') /\ SaysMore(head, head')
    BY <1>1, <1>3 DEF Ordinary, SaysMore, StillSays
  <2>3. \A v : MeasuredAgain(v) => MeasuredAgain(v)'
    BY <1>1, <1>3, <2>2, SayingMoreKeeps DEF Ordinary
  <2>4. AllMeasured'
    BY <1>1, <1>3, <2>3 DEF Ordinary, AllMeasured
  <2>5. AllExplained'
    BY <1>1, <1>3 DEF Ordinary, AllExplained, Explained, Holds
  <2>6. QED  BY <1>1, <2>1, <2>2, <2>4, <2>5 DEF Ordinary
<1>4. QED  BY <1>1, <1>2, <1>3 DEF ReviewInv

LEMMA RecornerKeeps == ASSUME ReviewInv, Recorner PROVE ReviewInv'
<1>1. /\ ReviewTyped' /\ base' = base
      /\ head'.claims = head.claims /\ head'.held = head.held
  BY RecornerIs DEF ReviewInv
<1>2. PICK n \in Nodes :
         /\ \A m \in Nodes : m # n => head'.corners[m] = head.corners[m]
         /\ change'.ordinary => /\ change.ordinary
                                /\ \E v \in ToSet(head'.corners[n]) : MeasuredAgain(v)
  BY RecornerIs DEF ReviewInv
<1>3. IdsOnce(base') /\ IdsOnce(head')
  BY <1>1 DEF ReviewInv, IdsOnce
<1>4. ASSUME change'.ordinary PROVE Ordinary'
  <2>1. Ordinary
    BY <1>2, <1>4 DEF ReviewInv
  <2>2. NothingGone'
    BY <1>1, <2>1 DEF Ordinary, NothingGone
  <2>3. SaysMore(base, head') /\ SaysMore(head, head')
    BY <1>1, <2>1 DEF Ordinary, SaysMore, StillSays
  <2>4. \A v : MeasuredAgain(v) => MeasuredAgain(v)'
    BY <1>1, <2>1, <2>3, SayingMoreKeeps DEF Ordinary
  <2>5. AllMeasured'
    <3>1. ASSUME NEW m \in Nodes, base'.corners[m] # head'.corners[m]
          PROVE  \E v \in ToSet(head'.corners[m]) : MeasuredAgain(v)'
      <4>1. CASE m = n
        BY <4>1, <1>2, <1>4, <2>4
      <4>2. CASE m # n
        BY <4>2, <3>1, <1>1, <1>2, <2>1, <2>4 DEF Ordinary, AllMeasured
      <4>3. QED  BY <4>1, <4>2
    <3>2. QED  BY <3>1 DEF AllMeasured
  <2>6. AllExplained'
    BY <1>1, <2>1 DEF Ordinary, AllExplained, Explained, Holds
  <2>7. QED  BY <1>1, <2>2, <2>3, <2>5, <2>6 DEF Ordinary
<1>5. QED  BY <1>1, <1>3, <1>4 DEF ReviewInv

LEMMA MergeKeeps == ASSUME ReviewInv, Merge PROVE ReviewInv'
<1>1. base' = head /\ head' = head /\ change' = [change EXCEPT !.ordinary = TRUE]
  BY DEF Merge
<1>2. change' \in [edits : Nat, ordinary : BOOLEAN, policy : [FindingKinds -> Rulings]]
  BY <1>1 DEF ReviewInv, ReviewTyped
<1>3. ReviewTyped'
  BY <1>1, <1>2 DEF ReviewInv, ReviewTyped
<1>4. Ordinary'
  <2>1. (ReviewTyped /\ head = base => Ordinary)'
    BY NothingIsOrdinary, PTL
  <2>2. QED  BY <1>1, <1>3, <2>1
<1>5. IdsOnce(base') /\ IdsOnce(head')
  BY <1>1 DEF ReviewInv
<1>6. QED  BY <1>3, <1>4, <1>5 DEF ReviewInv

LEMMA ReviewStep == ReviewConstants /\ ReviewInv /\ [ReviewNext]_reviewing => ReviewInv'
<1> SUFFICES ASSUME ReviewConstants, ReviewInv, [ReviewNext]_reviewing PROVE ReviewInv'
  OBVIOUS
<1>1. CASE RewriteByHand \/ RetractByHand
  <2>1. /\ ReviewTyped' /\ base' = base /\ ~change'.ordinary
        /\ DOMAIN head'.claims = DOMAIN head.claims
        /\ \A d \in DOMAIN head.claims : head'.claims[d].id = head.claims[d].id
    BY <1>1, RewriteIs, RetractIs DEF ReviewInv
  <2>2. QED  BY <2>1 DEF ReviewInv, IdsOnce
<1>2. CASE DeleteByHand
  BY <1>2, DeleteIs DEF ReviewInv
<1>3. CASE UNCHANGED reviewing
  <2>1. base' = base /\ head' = head /\ change' = change
    BY <1>3 DEF reviewing
  <2>2. ReviewTyped' /\ IdsOnce(base') /\ IdsOnce(head')
    BY <2>1 DEF ReviewInv, ReviewTyped
  <2>3. Ordinary => Ordinary'
    BY <2>1 DEF Ordinary, NothingGone, SaysMore, AllExplained, Explained, AllMeasured,
                MeasuredAgain, Was
  <2>4. QED  BY <2>1, <2>2, <2>3 DEF ReviewInv
<1>4. QED
  BY <1>1, <1>2, <1>3, SurveyKeeps, SupersedeKeeps, DeprecateKeeps, RetireKeeps, RecornerKeeps,
     MergeKeeps
     DEF ReviewNext

LEMMA ReviewInvariant == ASSUME ReviewConstants PROVE ReviewSpec => []ReviewInv
BY ReviewInitial, ReviewStep, PTL DEF ReviewSpec

(* Neither revision holds more claims than the bound, and no more edits    *)
(* are made.                                                               *)
Bounded ==
    /\ Len(base.claims) <= MaxStated /\ Len(head.claims) <= MaxStated
    /\ change.edits <= MaxEdits /\ change.policy \in Policies

LEMMA EditedBounded ==
    ASSUME ReviewConstants, ReviewInv, Bounded, NEW model, NEW ordinary, Edited(model, ordinary),
           Len(model.claims) <= MaxStated
    PROVE  Bounded'
<1>1. /\ head' = model /\ base' = base /\ change.edits < MaxEdits
      /\ change' = [change EXCEPT !.edits = @ + 1, !.ordinary = @ /\ ordinary]
  BY DEF Edited
<1>2. change'.edits = change.edits + 1 /\ change'.policy = change.policy /\ change.edits \in Nat
  BY <1>1 DEF ReviewInv, ReviewTyped
<1>3. MaxEdits \in Nat
  BY DEF ReviewConstants
<1>4. QED  BY <1>1, <1>2, <1>3 DEF Bounded

LEMMA BoundedNext == ReviewConstants /\ ReviewInv /\ Bounded /\ [ReviewNext]_reviewing => Bounded'
<1> SUFFICES ASSUME ReviewConstants, ReviewInv, Bounded, [ReviewNext]_reviewing PROVE Bounded'
  OBVIOUS
<1>0. /\ head \in Revised /\ head.claims \in Seq(StatedClaims) /\ Len(head.claims) \in Nat
      /\ MaxStated \in Nat /\ Len(head.claims) <= MaxStated
  BY RevisedIs DEF ReviewInv, ReviewTyped, ReviewConstants, Bounded
<1> DEFINE Claiming(cs) == [head EXCEPT !.claims = cs]
<1>1. \A cs : Claiming(cs).claims = cs
  BY <1>0 DEF Revised
<1>2. CASE Survey
  <2>1. PICK s, p, i, print, v :
           Edited([head EXCEPT !.claims = Append(@, Surveyed(s, p, i, print, v))], TRUE)
    BY <1>2 DEF Survey
  <2>2. PICK cs : cs = Append(head.claims, Surveyed(s, p, i, print, v))
    OBVIOUS
  <2>3. Edited(Claiming(cs), TRUE)
    BY <2>1, <2>2
  <2>4. Len(head.claims) < MaxStated
    BY <1>2 DEF Survey
  <2>5. Len(cs) = Len(head.claims) + 1
    BY <1>0, <2>2
  <2>6. Len(Claiming(cs).claims) <= MaxStated
    BY <1>0, <1>1, <2>4, <2>5
  <2> HIDE DEF Claiming
  <2>7. QED  BY <2>3, <2>6, EditedBounded
<1>3. CASE Supersede
  <2>1. PICK c \in DOMAIN head.claims, i \in Fresh, print \in Prints, v \in Values :
           LET old == head.claims[c]
               new == Surveyed(old.subject, old.predicate, i, print, v)
           IN  Edited([head EXCEPT !.claims =
                          Append([@ EXCEPT ![c].rank = "deprecated", ![c].by = i], new)], TRUE)
    BY <1>3, Zenon DEF Supersede
  <2>2. PICK new : new = Surveyed(head.claims[c].subject, head.claims[c].predicate, i, print, v)
    OBVIOUS
  <2>3. PICK marked : marked = [head.claims EXCEPT ![c].rank = "deprecated", ![c].by = i]
    OBVIOUS
  <2>4. PICK cs : cs = Append(marked, new)
    OBVIOUS
  <2>5. Edited(Claiming(cs), TRUE)
    BY <2>1, <2>2, <2>3, <2>4, Zenon
  <2>6. Len(head.claims) < MaxStated
    BY <1>3 DEF Supersede
  <2>7. Len(cs) = Len(head.claims) + 1
    <3>1. PICK n \in Nat : n = Len(head.claims) /\ DOMAIN head.claims = 1..n
      BY <1>0
    <3>2. DOMAIN marked = 1..n
      BY <2>3, <3>1
    <3>3. marked = [d \in 1..n |-> marked[d]]
      BY <2>3, <3>1
    <3>4. Len(marked) = n
      BY <3>1, <3>3
    <3>5. marked \in Seq({marked[d] : d \in 1..n})
      BY <3>1, <3>3
    <3>6. QED  BY <2>4, <3>1, <3>4, <3>5
  <2>8. Len(Claiming(cs).claims) <= MaxStated
    BY <1>0, <1>1, <2>6, <2>7
  <2> HIDE DEF Claiming
  <2>9. QED  BY <2>5, <2>8, EditedBounded
<1>4. CASE RetireNode \/ Recorner
  <2>1. PICK model, ordinary : Edited(model, ordinary) /\ model.claims = head.claims
    <3>1. CASE RetireNode
      <4>1. PICK n \in Nodes, how \in {"retired", "superseded"} : Edited([head EXCEPT !.held[n] = how], TRUE)
        BY <3>1 DEF RetireNode
      <4>2. [head EXCEPT !.held[n] = how].claims = head.claims
        BY <1>0 DEF Revised
      <4>3. QED  BY <4>1, <4>2
    <3>2. CASE Recorner
      <4>1. PICK n \in Nodes, a \in Vertices, b \in Vertices :
               Edited([head EXCEPT !.corners[n] = <<a, b>>], MeasuredAgain(a) \/ MeasuredAgain(b))
        BY <3>2 DEF Recorner
      <4>2. [head EXCEPT !.corners[n] = <<a, b>>].claims = head.claims
        BY <1>0 DEF Revised
      <4>3. QED  BY <4>1, <4>2
    <3>3. QED  BY <1>4, <3>1, <3>2
  <2>2. QED  BY <1>0, <2>1, EditedBounded
<1>5. CASE RewriteByHand \/ RetractByHand \/ DeleteByHand
  <2> DEFINE Trims(model) == Edited(model, FALSE) /\ Len(model.claims) \in 0..Len(head.claims)
  <2>1. \E model : Trims(model)
    <3>1. CASE RewriteByHand
      <4>1. PICK c \in DOMAIN head.claims, v \in Values : Edited([head EXCEPT !.claims[c].value = v], FALSE)
        BY <3>1 DEF RewriteByHand
      <4>2. PICK model : model = [head EXCEPT !.claims[c].value = v]
        OBVIOUS
      <4>3. Len(model.claims) = Len(head.claims)
        BY <1>0, <4>2 DEF Revised
      <4>4. Len(model.claims) \in 0..Len(head.claims)
        BY <1>0, <4>3
      <4>5. Edited(model, FALSE)
        BY <4>1, <4>2, Zenon
      <4>6. QED  BY <4>4, <4>5, Zenon
    <3>2. CASE RetractByHand
      <4>1. PICK c \in DOMAIN head.claims, by \in ReviewIds \cup {NoReviewId} :
               Edited([head EXCEPT !.claims[c].rank = "deprecated", !.claims[c].by = by], FALSE)
        BY <3>2 DEF RetractByHand
      <4>2. PICK model : model = [head EXCEPT !.claims[c].rank = "deprecated", !.claims[c].by = by]
        OBVIOUS
      <4>3. Len(model.claims) = Len(head.claims)
        BY <1>0, <4>2 DEF Revised
      <4>4. Len(model.claims) \in 0..Len(head.claims)
        BY <1>0, <4>3
      <4>5. Edited(model, FALSE)
        BY <4>1, <4>2, Zenon
      <4>6. QED  BY <4>4, <4>5, Zenon
    <3>3. CASE DeleteByHand
      <4>1. CASE \E c \in DOMAIN head.claims : Edited([head EXCEPT !.claims = RemoveAt(@, c)], FALSE)
        <5>1. PICK c \in DOMAIN head.claims : Edited([head EXCEPT !.claims = RemoveAt(@, c)], FALSE)
          BY <4>1
        <5>2. PICK cs : cs = RemoveAt(head.claims, c)
          OBVIOUS
        <5>3. PICK model : model = Claiming(cs)
          OBVIOUS
        <5>4. Edited(model, FALSE) /\ model.claims = cs
          BY <1>1, <5>1, <5>2, <5>3
        <5>5. cs \in Seq(StatedClaims) /\ DOMAIN cs = 1..(Len(head.claims) - 1) /\ Len(head.claims) # 0
          <6>1. cs \in Seq(StatedClaims) /\ DOMAIN cs = 1..(Len(head.claims) - 1)
            BY <1>0, <5>2, RemoveAtIs
          <6>2. Len(head.claims) # 0
            BY <1>0
          <6>3. QED  BY <6>1, <6>2
        <5>6. Len(cs) \in 0..Len(head.claims)
          BY <1>0, <5>5
        <5>7. QED  BY <5>4, <5>6, Zenon
      <4>2. CASE \E e \in Entities : Edited([head EXCEPT !.held[e] = "absent"], FALSE)
        <5>1. PICK e \in Entities : Edited([head EXCEPT !.held[e] = "absent"], FALSE)
          BY <4>2
        <5>2. PICK model : model = [head EXCEPT !.held[e] = "absent"]
          OBVIOUS
        <5>3. model.claims = head.claims
          BY <1>0, <5>2 DEF Revised
        <5>4. Len(model.claims) \in 0..Len(head.claims)
          BY <1>0, <5>3
        <5>5. Edited(model, FALSE)
          BY <5>1, <5>2, Zenon
        <5>6. QED  BY <5>4, <5>5, Zenon
      <4>3. QED  BY <3>3, <4>1, <4>2 DEF DeleteByHand
    <3>4. QED  BY <1>5, <3>1, <3>2, <3>3
  <2>2. PICK model : Trims(model)
    BY <2>1, Zenon
  <2>3. Len(model.claims) \in 0..Len(head.claims)
    BY <2>2, Zenon
  <2>4. Len(model.claims) <= MaxStated
    BY <1>0, <2>3
  <2>5. Edited(model, FALSE)
    BY <2>2, Zenon
  <2>6. QED  BY <2>4, <2>5, EditedBounded
<1>6. CASE Merge
  <2>1. base' = head /\ head' = head /\ change' = [change EXCEPT !.ordinary = TRUE]
    BY <1>6 DEF Merge
  <2>2. change'.edits = change.edits /\ change'.policy = change.policy
    BY <2>1 DEF ReviewInv, ReviewTyped
  <2>3. QED  BY <2>1, <2>2 DEF Bounded
<1>7. CASE UNCHANGED reviewing
  BY <1>7 DEF reviewing, Bounded
<1>8. CASE DeprecateClaim
  <2>1. PICK c \in DOMAIN head.claims, by \in ReviewIds :
           Edited([head EXCEPT !.claims[c].rank = "deprecated", !.claims[c].by = by], TRUE)
    BY <1>8, Zenon DEF DeprecateClaim
  <2>2. PICK model : model = [head EXCEPT !.claims[c].rank = "deprecated", !.claims[c].by = by]
    OBVIOUS
  <2>3. Len(model.claims) = Len(head.claims)
    BY <1>0, <2>2 DEF Revised
  <2>4. Len(model.claims) <= MaxStated
    BY <1>0, <2>3
  <2>5. Edited(model, TRUE)
    BY <2>1, <2>2, Zenon
  <2>6. QED  BY <2>4, <2>5, EditedBounded
<1>9. QED  BY <1>2, <1>3, <1>4, <1>5, <1>6, <1>7, <1>8 DEF ReviewNext

(* A review is of revisions which are typed, by one policy throughout,     *)
(* where the bounds hold of the revisions it begins with.                  *)
THEOREM ReviewTypes ==
    ASSUME ReviewConstants, \A model \in Revisions : Len(model.claims) <= MaxStated
    PROVE  ReviewSpec => []ReviewTypeOK
<1>1. ReviewInit => Bounded
  BY DEF ReviewInit, Bounded, ReviewConstants
<1>2. ReviewInv /\ Bounded => ReviewTypeOK
  <2>1. SUFFICES ASSUME ReviewInv, Bounded PROVE ReviewTypeOK
    OBVIOUS
  <2>2. MaxEdits \in Nat
    BY DEF ReviewConstants
  <2>3. QED  BY <2>1, <2>2 DEF ReviewInv, ReviewTyped, Bounded, ReviewTypeOK
<1>3. ReviewConstants
  OBVIOUS
<1>4. QED  BY <1>1, <1>2, <1>3, BoundedNext, ReviewInvariant, PTL DEF ReviewSpec
-----------------------------------------------------------------------------
(* What has one fingerprint was written under one id, or, without one,     *)
(* about one question and printed alike.                                   *)
LEMMA SameFingerprint ==
    ASSUME NEW one, NEW other, Fingerprint(one) = Fingerprint(other)
    PROVE  /\ one.id = other.id
           /\ one.id = NoReviewId => /\ one.subject = other.subject
                                     /\ one.predicate = other.predicate
                                     /\ one.print = other.print
<1> DEFINE long(claim) == <<claim.subject, claim.predicate, claim.print>>
<1>1. CASE one.id # NoReviewId /\ other.id # NoReviewId
  <2>1. <<one.id>> = <<other.id>>
    BY <1>1 DEF Fingerprint
  <2>2. QED  BY <2>1, <1>1
<1>2. CASE one.id = NoReviewId /\ other.id = NoReviewId
  <2>1. long(one) = long(other)
    BY <1>2 DEF Fingerprint
  <2>2. QED  BY <2>1, <1>2
<1>3. \A a, b, c, d : <<a>> # <<b, c, d>>
  <2>1. \A a, b, c, d : Len(<<a>>) = 1 /\ Len(<<b, c, d>>) = 3
    OBVIOUS
  <2>2. QED  BY <2>1
<1>4. CASE one.id # NoReviewId /\ other.id = NoReviewId
  BY <1>3, <1>4 DEF Fingerprint
<1>5. CASE one.id = NoReviewId /\ other.id # NoReviewId
  BY <1>3, <1>5 DEF Fingerprint
<1>6. QED  BY <1>1, <1>2, <1>4, <1>5

(* The claim indexed under a fingerprint which only one has is that one.   *)
LEMMA IndexOfOne ==
    ASSUME NEW model, NEW c \in DOMAIN model.claims,
           \A d \in DOMAIN model.claims :
              Fingerprint(model.claims[d]) = Fingerprint(model.claims[c]) => d = c,
           DOMAIN model.claims \subseteq Nat
    PROVE  Index(model, Fingerprint(model.claims[c])) = c
<1> DEFINE same == {d \in DOMAIN model.claims :
                       Fingerprint(model.claims[d]) = Fingerprint(model.claims[c])}
<1>1. \A d : d \in same <=> d \in {c}
  OBVIOUS
<1>2. same = {c}
  BY <1>1
<1>3. Index(model, Fingerprint(model.claims[c])) =
         IF same = {} THEN 0 ELSE CHOOSE d \in same : \A e \in same : e <= d
  BY DEF Index
<1> HIDE DEF same
<1>4. Index(model, Fingerprint(model.claims[c])) = CHOOSE d \in {c} : \A e \in {c} : e <= d
  BY <1>2, <1>3
<1>5. c <= c
  OBVIOUS
<1>6. QED  BY <1>4, <1>5

LEMMA IndexOfDistinct ==
    ASSUME NEW model \in Revised, Distinct(model), NEW c \in DOMAIN model.claims
    PROVE  Index(model, Fingerprint(model.claims[c])) = c
<1>1. \A d \in DOMAIN model.claims :
         Fingerprint(model.claims[d]) = Fingerprint(model.claims[c]) => d = c
  BY SameFingerprint DEF Distinct
<1>2. DOMAIN model.claims \subseteq Nat
  BY RevisedIs
<1>3. QED  BY <1>1, <1>2, IndexOfOne

(* Where an ordinary change is of revisions without two claims alike, what *)
(* a claim of the head was is what stands in its place of the base.        *)
LEMMA WasIs ==
    ASSUME ReviewTyped, SaysMore(base, head), Distinct(base), Distinct(head)
    PROVE  /\ \A c \in DOMAIN base.claims : c \in DOMAIN head.claims /\ Was(c) = c /\ c # 0
           /\ \A c \in DOMAIN head.claims : c \in DOMAIN base.claims \/ Was(c) = 0
<1>0. /\ base \in Revised /\ head \in Revised
      /\ DOMAIN base.claims = 1..Len(base.claims)
  BY RevisedIs DEF ReviewTyped
<1>1. ASSUME NEW c \in DOMAIN base.claims
      PROVE  c \in DOMAIN head.claims /\ Fingerprint(head.claims[c]) = Fingerprint(base.claims[c])
  BY DEF SaysMore, StillSays, Fingerprint
<1>2. ASSUME NEW c \in DOMAIN base.claims PROVE Was(c) = c /\ c # 0
  BY <1>0, <1>1, IndexOfDistinct DEF Was
<1>3. ASSUME NEW c \in DOMAIN head.claims, Was(c) # 0 PROVE c \in DOMAIN base.claims
  <2>1. PICK b \in DOMAIN base.claims : Fingerprint(base.claims[b]) = Fingerprint(head.claims[c])
    BY <1>3 DEF Was, Index
  <2>2. b \in DOMAIN head.claims /\ Fingerprint(head.claims[b]) = Fingerprint(head.claims[c])
    BY <1>1, <2>1
  <2>3. b = c
    BY <2>2, SameFingerprint DEF Distinct
  <2>4. QED  BY <2>3
<1>4. QED  BY <1>1, <1>2, <1>3

LEMMA OrdinaryOnlySilences == ReviewInv => OrdinaryWorkOnlySilences
<1> DEFINE kind == "claim-deprecated-without-replacement"
<1> SUFFICES ASSUME ReviewInv, change.ordinary, Distinct(base), Distinct(head)
             PROVE  /\ \A f \in Findings : f.kind = kind
                    /\ \A s \in Entities, p \in Predicates :
                          Silenced(s, p) <=> \E f \in Findings : f.claim \in About(head, s, p)
  BY DEF OrdinaryWorkOnlySilences
<1>1. ReviewTyped /\ NothingGone /\ SaysMore(base, head) /\ AllExplained /\ AllMeasured
  BY DEF ReviewInv, Ordinary
<1>2. /\ \A c \in DOMAIN base.claims : c \in DOMAIN head.claims /\ Was(c) = c /\ c # 0
      /\ \A c \in DOMAIN head.claims : c \in DOMAIN base.claims \/ Was(c) = 0
  BY <1>1, WasIs
<1>3. ASSUME NEW v PROVE Rewritten(v) = {}
  <2> SUFFICES ASSUME NEW c \in DOMAIN head.claims, Was(c) # 0,
                      base.claims[Was(c)].value # head.claims[c].value
               PROVE  FALSE
    BY DEF Rewritten
  <2>1. c \in DOMAIN base.claims /\ Was(c) = c
    BY <1>2
  <2>2. QED  BY <1>1, <2>1 DEF SaysMore, StillSays
<1>4. ASSUME NEW n \in Nodes PROVE Moved(n) = {}
  <2>1. base.corners[n] # head.corners[n] => \E v \in ToSet(head.corners[n]) : MeasuredAgain(v)
    BY <1>1 DEF AllMeasured
  <2>2. QED  BY <1>3, <2>1 DEF Moved
<1>5. ASSUME NEW c \in Unreplaced
      PROVE  /\ c \in Retracted
             /\ Answering(head, head.claims[c].subject, head.claims[c].predicate) = {}
  <2>1. /\ c \in DOMAIN head.claims /\ head.claims[c].rank = "deprecated"
        /\ ~(Was(c) # 0 /\ base.claims[Was(c)].rank = "deprecated")
    BY DEF Unreplaced, Retracted
  <2>2. ~(c \in DOMAIN base.claims /\ base.claims[c].rank = "deprecated")
    BY <1>2, <2>1
  <2>3. Explained(c)
    BY <1>1, <2>1, <2>2 DEF AllExplained
  <2>4. QED  BY <2>3 DEF Explained, Unreplaced
<1>6. GoneEntities = {}
  BY <1>1 DEF GoneEntities, NothingGone
<1>7. GoneClaims = {}
  BY <1>1 DEF GoneClaims, Holds, SaysMore, StillSays
<1>8. UNION {Moved(n) : n \in Nodes} = {}
  BY <1>4
<1>9. Findings = {Finding(kind, head.claims[c].subject, c) : c \in Unreplaced}
  BY <1>6, <1>7, <1>8 DEF Findings
<1> HIDE DEF kind
<1>10. /\ \A f \in Findings : f.kind = kind /\ f.claim \in Unreplaced
       /\ \A c \in Unreplaced : \E f \in Findings : f.claim = c
  <2>1. \A c : LET f == Finding(kind, head.claims[c].subject, c)
               IN  f.kind = kind /\ f.claim = c
    BY DEF Finding
  <2>2. QED  BY <1>9, <2>1
<1>11. /\ \A c \in DOMAIN base.claims : base.claims[c].rank \in {"normal", "deprecated"}
       /\ \A c \in DOMAIN head.claims : head.claims[c].rank \in {"normal", "deprecated"}
  BY <1>1, RevisedIs DEF ReviewTyped, StatedClaims
<1>12. ASSUME NEW s, NEW p
       PROVE  Silenced(s, p) <=> \E f \in Findings : f.claim \in About(head, s, p)
  <2>1. Answering(head, s, p) = {} <=> ~Answered(head, s, p)
    BY <1>11 DEF Answering, Answered
  <2>2. \A c \in DOMAIN base.claims : c \in About(base, s, p) <=> c \in About(head, s, p)
    BY <1>1 DEF About, SaysMore, StillSays
  <2>3. ASSUME NEW f \in Findings, f.claim \in About(head, s, p) PROVE Silenced(s, p)
    <3>1. PICK c \in Unreplaced : c = f.claim
      BY <1>10
    <3>2. /\ c \in DOMAIN head.claims /\ head.claims[c].subject = s
          /\ head.claims[c].predicate = p
      BY <2>3, <3>1 DEF About
    <3>3. ~Answered(head, s, p)
      BY <1>5, <3>2, <2>1
    <3>4. CASE c \in DOMAIN base.claims
      <4>1. base.claims[c].rank = "normal"
        BY <3>4, <1>2, <1>5, <1>11 DEF Retracted
      <4>2. Answered(base, s, p)
        BY <4>1, <3>2, <3>4, <1>1 DEF Answered, SaysMore, StillSays
      <4>3. QED  BY <3>3, <4>2 DEF Silenced
    <3>5. CASE c \notin DOMAIN base.claims
      <4>1. c \in About(head, s, p) /\ c \notin About(base, s, p)
        BY <2>3, <3>1, <3>5 DEF About
      <4>2. QED  BY <3>3, <4>1 DEF Silenced
    <3>6. QED  BY <3>4, <3>5
  <2>4. ASSUME Silenced(s, p) PROVE \E f \in Findings : f.claim \in About(head, s, p)
    <3>1. PICK c \in About(head, s, p) :
              ~(c \in DOMAIN base.claims /\ base.claims[c].rank = "deprecated")
      <4>1. CASE Answered(base, s, p)
        <5>1. PICK c \in About(base, s, p) : base.claims[c].rank = "normal"
          BY <4>1 DEF Answered, About
        <5>2. c \in About(head, s, p)
          BY <2>2 DEF About
        <5>3. QED  BY <5>1, <5>2
      <4>2. CASE About(head, s, p) # About(base, s, p)
        <5>1. PICK c \in About(head, s, p) : c \notin DOMAIN base.claims
          BY <4>2, <2>2 DEF About
        <5>2. QED  BY <5>1
      <4>3. QED  BY <2>4, <4>1, <4>2 DEF Silenced
    <3>2. /\ c \in DOMAIN head.claims /\ head.claims[c].subject = s
          /\ head.claims[c].predicate = p
      BY DEF About
    <3>3. head.claims[c].rank = "deprecated"
      BY <2>4, <3>2, <1>11 DEF Silenced, Answered
    <3>4. c \in Retracted
      BY <3>1, <3>2, <3>3, <1>2 DEF Retracted
    <3>5. c \in Unreplaced
      BY <2>1, <2>4, <3>2, <3>4 DEF Unreplaced, Silenced
    <3>6. QED  BY <1>10, <3>1, <3>5
  <2>5. QED  BY <2>3, <2>4
<1>13. QED  BY <1>10, <1>12

(* Where the write path did all of a change and neither revision writes    *)
(* two claims the review cannot tell apart, what is found is that a        *)
(* question lost its answer, and each which did is found (Review,          *)
(* review.go:406; DeprecateClaim, record.go:1081).                         *)
THEOREM OrdinaryWorkPasses ==
    ASSUME ReviewConstants PROVE ReviewSpec => []OrdinaryWorkOnlySilences
BY ReviewInvariant, OrdinaryOnlySilences, PTL
-----------------------------------------------------------------------------
(* What a claim of the head was, under one id of both revisions.           *)
LEMMA WasTheSame ==
    ASSUME ReviewInv, NEW c \in DOMAIN base.claims, NEW d \in DOMAIN head.claims,
           SameClaim(base.claims[c], head.claims[d])
    PROVE  Was(d) = c /\ c # 0
<1>1. DOMAIN base.claims = 1..Len(base.claims) /\ DOMAIN base.claims \subseteq Nat
  BY RevisedIs DEF ReviewInv, ReviewTyped
<1>2. Fingerprint(head.claims[d]) = Fingerprint(base.claims[c]) /\ base.claims[c].id # NoReviewId
  BY DEF SameClaim, Fingerprint
<1>3. \A b \in DOMAIN base.claims :
         Fingerprint(base.claims[b]) = Fingerprint(base.claims[c]) => b = c
  BY <1>2, SameFingerprint DEF ReviewInv, IdsOnce
<1>4. Index(base, Fingerprint(base.claims[c])) = c
  BY <1>1, <1>3, IndexOfOne
<1>5. QED  BY <1>1, <1>2, <1>4 DEF Was

(* What is found of a kind which is a failure is not merged. *)
LEMMA NothingFails ==
    ASSUME Failures = {}, NEW kind, NEW subject, NEW claim,
           Finding(kind, subject, claim) \in Findings
    PROVE  change.policy[kind] # "failure"
<1> DEFINE f == Finding(kind, subject, claim)
<1>1. f.kind = kind
  BY DEF Finding
<1> HIDE DEF f
<1>2. change.policy[f.kind] # "failure"
  BY DEF Failures, f
<1>3. QED  BY <1>1, <1>2

LEMMA MergeLosesNothing == ReviewInv /\ Merge => MergedStep
<1> SUFFICES ASSUME ReviewInv, Failures = {} PROVE MergedStep
  BY DEF Merge
<1> DEFINE Fails(kind) == change.policy[kind] = "failure"
<1>0. base \in Revised /\ head \in Revised
  BY DEF ReviewInv, ReviewTyped
<1>1. ASSUME Fails("id-disappeared-without-supersession")
      PROVE  GoneEntities = {} /\ GoneClaims = {}
  <2>1. ASSUME NEW e \in GoneEntities PROVE FALSE
    <3>1. Finding("id-disappeared-without-supersession", e, 0) \in Findings
      BY DEF Findings
    <3>2. QED  BY <1>1, <3>1, NothingFails
  <2>2. ASSUME NEW c \in GoneClaims PROVE FALSE
    <3>1. Finding("id-disappeared-without-supersession", base.claims[c].id, c) \in Findings
      BY DEF Findings
    <3>2. QED  BY <1>1, <3>1, NothingFails
  <2>3. QED  BY <2>1, <2>2
<1>2. ASSUME Fails("id-disappeared-without-supersession")
      PROVE  /\ \A e \in Entities : base.held[e] \in {"live", "retired"} => head.held[e] # "absent"
             /\ \A c \in DOMAIN base.claims :
                   base.claims[c].id # NoReviewId => Holds(head, base.claims[c].id)
  BY <1>1, <1>2 DEF GoneEntities, GoneClaims
<1>3. ASSUME NEW c \in DOMAIN base.claims, NEW d \in DOMAIN head.claims,
             SameClaim(base.claims[c], head.claims[d]),
             Fails("claim-deprecated-without-replacement"), base.claims[c].rank = "normal"
      PROVE  Answered(head, base.claims[c].subject, base.claims[c].predicate)
  <2>1. Was(d) = c
    BY <1>3, WasTheSame
  <2>2. /\ head.claims[d].subject = base.claims[c].subject
        /\ head.claims[d].predicate = base.claims[c].predicate
    BY <1>3 DEF SameClaim
  <2>3. \A k \in DOMAIN head.claims : head.claims[k].rank \in {"normal", "deprecated"}
    BY <1>0, RevisedIs DEF StatedClaims
  <2>4. Answering(head, head.claims[d].subject, head.claims[d].predicate) # {}
    <3>1. CASE head.claims[d].rank = "normal"
      <4>1. d \in Answering(head, head.claims[d].subject, head.claims[d].predicate)
        BY <3>1 DEF Answering
      <4>2. QED  BY <4>1
    <3>2. CASE head.claims[d].rank = "deprecated"
      <4>1. d \in Retracted
        BY <1>3, <2>1, <3>2 DEF Retracted
      <4>2. ASSUME d \in Unreplaced PROVE FALSE
        <5>1. Finding("claim-deprecated-without-replacement", head.claims[d].subject, d)
                 \in Findings
          BY <4>2 DEF Findings
        <5>2. QED  BY <1>3, <5>1, NothingFails
      <4>3. QED  BY <4>1, <4>2 DEF Unreplaced
    <3>3. QED  BY <2>3, <3>1, <3>2
  <2>5. PICK k \in DOMAIN head.claims : /\ head.claims[k].subject = head.claims[d].subject
                                        /\ head.claims[k].predicate = head.claims[d].predicate
                                        /\ head.claims[k].rank # "deprecated"
    BY <2>4 DEF Answering
  <2>6. QED  BY <2>2, <2>3, <2>5 DEF Answered
<1>4. ASSUME NEW c \in DOMAIN base.claims, NEW d \in DOMAIN head.claims,
             SameClaim(base.claims[c], head.claims[d]),
             Fails("boundary-moved-without-claim"), NEW n \in Nodes,
             "absent" \notin {base.held[n], head.held[n]},
             base.claims[c].subject \in ToSet(base.corners[n]) \cap ToSet(head.corners[n])
      PROVE  head.claims[d].value = base.claims[c].value
  <2> SUFFICES ASSUME head.claims[d].value # base.claims[c].value PROVE FALSE
    OBVIOUS
  <2> DEFINE v == base.claims[c].subject
             f == Finding("boundary-moved-without-claim", n, d)
  <2>1. d \in Rewritten(v)
    BY <1>3, <1>4, WasTheSame DEF Rewritten, SameClaim
  <2>2. head.corners[n] # <<>>
    BY <1>4 DEF ToSet
  <2>3. f \in {Finding("boundary-moved-without-claim", n, r) :
                  r \in UNION {Rewritten(w) : w \in ToSet(head.corners[n]) \cap ToSet(base.corners[n])}}
    BY <2>1, <1>4
  <2>4. f \in Moved(n)
    BY <2>2, <2>3, <1>4 DEF Moved
  <2>5. f \in Findings
    BY <2>4 DEF Findings
  <2>6. QED  BY <1>4, <2>5, NothingFails
<1>5. QED  BY <1>2, <1>3, <1>4 DEF MergedStep

(* However a change came about, and under whatever policy, merging it      *)
(* loses nothing the policy rules a failure to lose (Review, review.go:406;*)
(* the three kinds, review.go:475, 610 and 705).                           *)
THEOREM MergesAreSafe ==
    ASSUME ReviewConstants PROVE ReviewSpec => MergesLoseNothing
<1>1. ReviewInv /\ [ReviewNext]_reviewing => [base' # base => MergedStep]_reviewing
  <2> SUFFICES ASSUME ReviewInv, ReviewNext, base' # base PROVE MergedStep
    BY DEF reviewing
  <2>1. Merge
    BY DEF ReviewNext, Survey, Supersede, DeprecateClaim, RetireNode, RewriteByHand,
           RetractByHand, DeleteByHand, Recorner, Edited
  <2>2. QED  BY <2>1, MergeLosesNothing
<1>2. ReviewSpec => []ReviewInv
  BY ReviewInvariant
<1>3. QED  BY <1>1, <1>2, PTL DEF ReviewSpec, MergesLoseNothing

-----------------------------------------------------------------------------
(* What an export leaves, for every number of processes, of files and of   *)
(* drawings: what a process is about to rename is its whole artefact,      *)
(* under a name nobody else writes to.                                     *)
Pcs == {"idle", "reading", "creating", "writing", "renaming", "done"}
Statuses == {"none", "refused", "unchanged", "failed", "written"}
RunStates == [pc : Pcs, read : Seq(Bytes), drawn : Drawings, keyed : BOOLEAN, status : Statuses]
Disks == [at : [Destinations -> Artefacts \cup {Nothing}],
          temporary : [Run -> Artefacts \cup {Nothing}]]
TypeInv == tree \in Trees /\ disk \in Disks /\ runs \in [Run -> RunStates]

AtInv == \A d \in Destinations : disk.at[d] # Nothing =>
            disk.at[d].whole /\ (d # Out => disk.at[d].of = d)
RunInv(r) ==
    /\ runs[r].pc = "idle" => runs[r].read = <<>>
    /\ runs[r].pc = "reading" => Len(runs[r].read) <= NumFiles
    /\ runs[r].pc \in {"creating", "writing", "renaming"} => Len(runs[r].read) = NumFiles
    /\ Placed(r) => Len(runs[r].read) = NumFiles
    /\ runs[r].pc = "renaming" => disk.temporary[r] = Artefact(r)
PlacedInv(r) == Placed(r) =>
    /\ disk.at[Destination(r)] # Nothing
    /\ runs[r].keyed /\ (\A d, e \in Drawings : d = e) => disk.at[Destination(r)] = Artefact(r)
PubInv == TypeInv /\ AtInv /\ \A r \in Run : RunInv(r) /\ PlacedInv(r)

-----------------------------------------------------------------------------
(* What a run has read whole is a tree, and no tree is the path a caller   *)
(* names.                                                                  *)
LEMMA ReadIsTree ==
    ASSUME PublishingConstants, NEW s \in Seq(Bytes), Len(s) = NumFiles
    PROVE  s \in Trees /\ s # Out
<1>1. Len(s) \in Nat /\ s \in [1..Len(s) -> Bytes]
  OBVIOUS
<1>2. QED  BY <1>1 DEF Trees, PublishingConstants

LEMMA ArtefactIsOne ==
    ASSUME PublishingConstants, TypeInv, NEW r \in Run, Len(runs[r].read) = NumFiles
    PROVE  /\ Artefact(r) \in Artefacts /\ Artefact(r) # Nothing
           /\ Made(r, FALSE) \in Artefacts
           /\ Artefact(r).whole /\ Artefact(r).of = runs[r].read
           /\ Artefact(r).drawn = runs[r].drawn
           /\ Destination(r) \in Destinations
           /\ Destination(r) # Out => Destination(r) = runs[r].read
           /\ runs[r].keyed => Destination(r) = runs[r].read /\ Destination(r) # Out
<1>1. runs[r].read \in Trees /\ runs[r].read # Out
  BY ReadIsTree DEF TypeInv, RunStates
<1>2. runs[r].drawn \in Drawings
  BY DEF TypeInv, RunStates
<1>3. ASSUME NEW w \in BOOLEAN PROVE Made(r, w) \in Artefacts
  BY <1>1, <1>2 DEF Made, Artefacts
<1>4. Artefact(r).whole /\ Artefact(r).of = runs[r].read /\ Artefact(r).drawn = runs[r].drawn
  BY DEF Artefact, Made
<1>5. Destination(r) = IF runs[r].keyed THEN runs[r].read ELSE Out
  BY DEF Destination
<1>6. QED
  BY <1>1, <1>3, <1>4, <1>5 DEF Artefact, Destinations, PublishingConstants

LEMMA PubInit == PublishingConstants /\ PublishingInit => PubInv
<1> SUFFICES ASSUME PublishingConstants, PublishingInit PROVE PubInv
  OBVIOUS
<1>1. (CHOOSE d \in Drawings : TRUE) \in Drawings
  BY DEF PublishingConstants
<1>2. Idle \in RunStates /\ Idle.pc = "idle" /\ Idle.read = <<>>
  BY <1>1 DEF Idle, RunStates, Pcs, Statuses
<1>3. TypeInv
  BY <1>2 DEF PublishingInit, TypeInv, Disks
<1>4. AtInv
  BY DEF PublishingInit, AtInv
<1>5. ASSUME NEW r \in Run PROVE RunInv(r) /\ PlacedInv(r)
  BY <1>2 DEF PublishingInit, RunInv, PlacedInv, Placed
<1>6. QED  BY <1>3, <1>4, <1>5 DEF PubInv

-----------------------------------------------------------------------------
(* One run's step.  What the others are at is left as it was.              *)
LEMMA OthersKeep ==
    ASSUME PublishingConstants, PubInv, NEW r \in Run, NEW q \in Run, q # r,
           runs'[q] = runs[q], disk'.temporary[q] = disk.temporary[q],
           disk'.at = disk.at
    PROVE  RunInv(q)' /\ PlacedInv(q)'
BY DEF PubInv, RunInv, PlacedInv, Placed, Destination, Artefact, Made

(* The steps which place nothing. *)
LEMMA QuietStep ==
    ASSUME PublishingConstants, PubInv, NEW r \in Run,
           Begin(r) \/ Read(r) \/ Refuse(r) \/ Compare(r) \/ Create(r) \/ Write(r)
           \/ Fail(r) \/ Kill(r) \/ Again(r)
    PROVE  PubInv'
<1>0. TypeInv /\ runs[r] \in RunStates /\ RunInv(r) /\ PlacedInv(r)
  BY DEF PubInv, TypeInv
<1>i. Idle \in RunStates /\ Idle.pc = "idle" /\ Idle.read = <<>> /\ Idle.status = "none"
  <2>1. (CHOOSE d \in Drawings : TRUE) \in Drawings
    BY DEF PublishingConstants
  <2>2. QED  BY <2>1 DEF Idle, RunStates, Pcs, Statuses
<1>1. /\ disk' \in Disks /\ disk'.at = disk.at
      /\ \A q \in Run : q # r => disk'.temporary[q] = disk.temporary[q]
  <2>1. CASE UNCHANGED disk
    BY <2>1, <1>0 DEF TypeInv
  <2>2. CASE Create(r) \/ Write(r) \/ Fail(r)
    <3>1. Create(r) \/ Write(r) => Made(r, FALSE) \in Artefacts /\ Artefact(r) \in Artefacts
      BY <1>0, ArtefactIsOne DEF RunInv, Create, Write
    <3>2. PICK a \in Artefacts \cup {Nothing} : disk' = [disk EXCEPT !.temporary[r] = a]
      BY <2>2, <3>1 DEF Create, Write, Fail, Temporary
    <3>3. QED  BY <3>2, <1>0 DEF TypeInv, Disks
  <2>3. QED  BY <2>1, <2>2 DEF Begin, Read, Refuse, Compare, Kill, Again
<1>2. tree' = tree /\ runs' \in [Run -> RunStates] /\ \A q \in Run : q # r => runs'[q] = runs[q]
  <2>0. runs \in [Run -> RunStates] /\ tree \in Trees
    BY <1>0 DEF TypeInv
  <2>1. CASE Read(r)
    <3>1. NumFiles \in Nat /\ Len(runs[r].read) \in Nat
      BY <1>0 DEF RunStates, PublishingConstants
    <3>2. tree[Len(runs[r].read) + 1] \in Bytes
      BY <2>1, <3>1, <1>0 DEF TypeInv, Trees, Read
    <3>3. Append(runs[r].read, tree[Len(runs[r].read) + 1]) \in Seq(Bytes)
      BY <3>2, <1>0 DEF RunStates
    <3>4. runs' = [runs EXCEPT ![r].read = Append(runs[r].read, tree[Len(runs[r].read) + 1])]
      BY <2>1 DEF Read
    <3>5. QED  BY <2>1, <3>3, <3>4, <2>0 DEF Read, RunStates
  <2>2. CASE Begin(r)
    <3>1. PICK drawn \in Drawings, keyed \in BOOLEAN :
            runs' = [runs EXCEPT ![r] = [Idle EXCEPT !.pc = "reading", !.drawn = drawn, !.keyed = keyed]]
      BY <2>2 DEF Begin
    <3>2. [Idle EXCEPT !.pc = "reading", !.drawn = drawn, !.keyed = keyed] \in RunStates
      BY <1>i DEF RunStates, Pcs
    <3>3. QED  BY <2>2, <3>1, <3>2, <2>0 DEF Begin
  <2>3. CASE Kill(r) \/ Again(r)
    BY <2>3, <1>i, <2>0 DEF Kill, Again
  <2>4. CASE Compare(r) \/ Create(r) \/ Write(r) \/ Refuse(r) \/ Fail(r)
    <3>1. \/ \E pc \in Pcs : Goes(r, pc)
          \/ \E status \in Statuses : Ends(r, status)
      BY <2>4 DEF Compare, Create, Write, Refuse, Fail, Pcs, Statuses
    <3>2. ASSUME NEW pc \in Pcs, Goes(r, pc)
          PROVE  runs' \in [Run -> RunStates] /\ \A q \in Run : q # r => runs'[q] = runs[q]
      BY <3>2, <2>0 DEF Goes, RunStates
    <3>3. ASSUME NEW status \in Statuses, Ends(r, status)
          PROVE  runs' \in [Run -> RunStates] /\ \A q \in Run : q # r => runs'[q] = runs[q]
      BY <3>3, <2>0 DEF Ends, RunStates, Pcs
    <3>4. tree' = tree
      BY <2>4 DEF Compare, Create, Write, Refuse, Fail
    <3>5. QED  BY <3>1, <3>2, <3>3, <3>4
  <2>5. QED  BY <2>1, <2>2, <2>3, <2>4
<1>3. RunInv(r)' /\ PlacedInv(r)'
  <2>1. CASE Begin(r) \/ Kill(r) \/ Again(r)
    <3>1. runs'[r].pc \in {"idle", "reading"} /\ runs'[r].read = <<>>
      <4>1. CASE Kill(r) \/ Again(r)
        BY <4>1, <1>i, <1>0 DEF Kill, Again, TypeInv
      <4>2. CASE Begin(r)
        <5>1. PICK drawn \in Drawings, keyed \in BOOLEAN :
                runs' = [runs EXCEPT ![r] = [Idle EXCEPT !.pc = "reading", !.drawn = drawn, !.keyed = keyed]]
          BY <4>2 DEF Begin
        <5>2. QED  BY <5>1, <1>i, <1>0 DEF TypeInv, RunStates
      <4>3. QED  BY <2>1, <4>1, <4>2
    <3>2. Len(<<>>) = 0 /\ NumFiles \in Nat
      BY DEF PublishingConstants
    <3>3. QED  BY <3>1, <3>2 DEF RunInv, PlacedInv, Placed
  <2>2. CASE Read(r)
    <3>1. /\ runs'[r].pc = "reading" /\ Len(runs'[r].read) = Len(runs[r].read) + 1
          /\ Len(runs[r].read) < NumFiles /\ NumFiles \in Nat /\ Len(runs[r].read) \in Nat
      BY <2>2, <1>0 DEF Read, TypeInv, RunStates, PublishingConstants
    <3>2. QED  BY <3>1 DEF RunInv, PlacedInv, Placed
  <2>3. CASE Compare(r)
    <3>1. /\ runs'[r].read = runs[r].read /\ runs'[r].drawn = runs[r].drawn
          /\ runs'[r].keyed = runs[r].keyed /\ disk' = disk
          /\ Len(runs[r].read) = NumFiles
          /\ \/ runs'[r].pc = "done" /\ disk.at[Destination(r)] = Artefact(r)
             \/ runs'[r].pc = "creating"
      BY <2>3, <1>0 DEF Compare, Goes, Ends, TypeInv, RunStates
    <3>2. Destination(r)' = Destination(r) /\ Artefact(r)' = Artefact(r)
      BY <3>1 DEF Destination, Artefact, Made
    <3>3. QED  BY <3>1, <3>2, <1>0, ArtefactIsOne DEF RunInv, PlacedInv, Placed
  <2>4. CASE Create(r) \/ Write(r)
    <3>0. Len(runs[r].read) = NumFiles
      BY <2>4, <1>0 DEF Create, Write, RunInv
    <3>1. /\ runs'[r].read = runs[r].read /\ runs'[r].drawn = runs[r].drawn
          /\ runs'[r].pc \in {"writing", "renaming"}
          /\ runs'[r].pc = "renaming" => disk'.temporary[r] = Artefact(r)
      <4>1. CASE Create(r)
        BY <4>1, <1>0 DEF Create, Goes, TypeInv, RunStates
      <4>2. CASE Write(r)
        BY <4>2, <1>0 DEF Write, Goes, Temporary, TypeInv, RunStates, Disks
      <4>3. QED  BY <2>4, <4>1, <4>2
    <3>2. Artefact(r)' = Artefact(r)
      BY <3>1 DEF Artefact, Made
    <3>3. QED  BY <3>0, <3>1, <3>2 DEF RunInv, PlacedInv, Placed
  <2>5. CASE Refuse(r) \/ Fail(r)
    <3>1. runs'[r].pc = "done" /\ runs'[r].status \in {"refused", "failed"}
      BY <2>5, <1>0 DEF Refuse, Fail, Ends, TypeInv, RunStates
    <3>2. QED  BY <3>1 DEF RunInv, PlacedInv, Placed
  <2>6. QED  BY <2>1, <2>2, <2>3, <2>4, <2>5
<1>4. \A q \in Run : RunInv(q)' /\ PlacedInv(q)'
  BY <1>1, <1>2, <1>3, OthersKeep
<1>5. TypeInv' /\ AtInv'
  BY <1>0, <1>1, <1>2 DEF PubInv, TypeInv, AtInv
<1>6. QED  BY <1>4, <1>5 DEF PubInv

(* A run puts its artefact at its destination.  Another run which placed   *)
(* its own there before asked for the same one, where all ask for the same *)
(* drawing and the destination is named for what both read.                *)
LEMMA RenameStep ==
    ASSUME PublishingConstants, PubInv, NEW r \in Run, Rename(r)
    PROVE  PubInv'
<1>0. TypeInv /\ AtInv /\ runs \in [Run -> RunStates] /\ runs[r] \in RunStates /\ RunInv(r)
  BY DEF PubInv, TypeInv
<1>1. /\ Len(runs[r].read) = NumFiles /\ disk.temporary[r] = Artefact(r)
      /\ tree' = tree
      /\ disk' = [disk EXCEPT !.at[Destination(r)] = Artefact(r), !.temporary[r] = Nothing]
      /\ runs' = [runs EXCEPT ![r].pc = "done", ![r].status = "written"]
  BY <1>0 DEF Rename, RunInv, Ends, Temporary
<1>2. /\ Artefact(r) \in Artefacts /\ Artefact(r) # Nothing /\ Artefact(r).whole
      /\ Destination(r) \in Destinations
      /\ Destination(r) # Out => Destination(r) = runs[r].read
      /\ Artefact(r).of = runs[r].read /\ Artefact(r).drawn = runs[r].drawn
  BY <1>0, <1>1, ArtefactIsOne
<1>3. /\ disk' \in Disks
      /\ disk'.at = [disk.at EXCEPT ![Destination(r)] = Artefact(r)]
      /\ \A q \in Run : q # r => disk'.temporary[q] = disk.temporary[q]
  BY <1>0, <1>1, <1>2 DEF TypeInv, Disks
<1>4. /\ runs' \in [Run -> RunStates] /\ \A q \in Run : q # r => runs'[q] = runs[q]
      /\ runs'[r].pc = "done" /\ runs'[r].read = runs[r].read
      /\ runs'[r].drawn = runs[r].drawn /\ runs'[r].keyed = runs[r].keyed
  BY <1>0, <1>1 DEF RunStates, Pcs, Statuses
<1>5. AtInv'
  <2>1. disk.at \in [Destinations -> Artefacts \cup {Nothing}]
    BY <1>0 DEF TypeInv, Disks
  <2>2. QED  BY <2>1, <1>0, <1>2, <1>3 DEF AtInv
<1>6. RunInv(r)' /\ PlacedInv(r)'
  <2>1. Destination(r)' = Destination(r) /\ Artefact(r)' = Artefact(r)
    BY <1>4 DEF Destination, Artefact, Made
  <2>2. disk'.at[Destination(r)] = Artefact(r)
    BY <1>0, <1>2, <1>3 DEF TypeInv, Disks
  <2>3. QED  BY <1>1, <1>2, <1>4, <2>1, <2>2 DEF RunInv, PlacedInv
<1>7. ASSUME NEW q \in Run, q # r PROVE RunInv(q)' /\ PlacedInv(q)'
  <2>1. /\ Destination(q)' = Destination(q) /\ Artefact(q)' = Artefact(q)
        /\ Placed(q)' <=> Placed(q)
    BY <1>4, <1>7 DEF Destination, Artefact, Made, Placed
  <2>2. RunInv(q) /\ PlacedInv(q) /\ runs'[q] = runs[q]
    BY <1>4, <1>7 DEF PubInv
  <2>3. RunInv(q)'
    BY <2>1, <2>2, <1>3, <1>7 DEF RunInv
  <2>4. CASE Destination(q) # Destination(r)
    <3>1. Placed(q) => Destination(q) \in Destinations
      BY <2>2, <1>0, ArtefactIsOne DEF RunInv
    <3>2. Placed(q) => disk'.at[Destination(q)] = disk.at[Destination(q)]
      BY <3>1, <2>4, <1>0, <1>3 DEF TypeInv, Disks
    <3>3. QED  BY <3>2, <2>1, <2>2, <2>3 DEF PlacedInv
  <2>5. CASE Destination(q) = Destination(r)
    <3>1. disk'.at[Destination(q)] = Artefact(r)
      BY <2>5, <1>0, <1>2, <1>3 DEF TypeInv, Disks
    <3>2. ASSUME Placed(q), runs[q].keyed, \A d, e \in Drawings : d = e
          PROVE  Artefact(q) = Artefact(r)
      <4>1. Destination(q) = runs[q].read /\ Destination(q) # Out
        BY <3>2, <2>2, <1>0, ArtefactIsOne DEF RunInv
      <4>2. runs[q].read = runs[r].read
        BY <4>1, <2>5, <1>2
      <4>3. runs[q].drawn \in Drawings /\ runs[r].drawn \in Drawings
        BY <1>0 DEF RunStates
      <4>4. QED  BY <4>2, <4>3, <3>2 DEF Artefact, Made
    <3>3. runs'[q].keyed = runs[q].keyed
      BY <2>2
    <3>4. QED  BY <3>1, <3>2, <3>3, <1>2, <2>1, <2>3 DEF PlacedInv
  <2>6. QED  BY <2>3, <2>4, <2>5
<1>8. TypeInv'
  BY <1>0, <1>1, <1>3, <1>4 DEF TypeInv
<1>9. QED  BY <1>5, <1>6, <1>7, <1>8 DEF PubInv

LEMMA PubNext == PublishingConstants /\ PubInv /\ [PublishingNext]_publishing => PubInv'
<1> SUFFICES ASSUME PublishingConstants, PubInv, [PublishingNext]_publishing PROVE PubInv'
  OBVIOUS
<1>1. CASE Edit
  <2>1. tree' \in Trees /\ UNCHANGED <<disk, runs>>
    BY <1>1 DEF Edit, PubInv, TypeInv, Trees
  <2>2. QED
    BY <2>1 DEF PubInv, TypeInv, AtInv, RunInv, PlacedInv, Placed, Destination, Artefact, Made
<1>2. CASE UNCHANGED publishing
  BY <1>2 DEF publishing, PubInv, TypeInv, AtInv, RunInv, PlacedInv, Placed, Destination, Artefact, Made
<1>3. QED  BY <1>1, <1>2, QuietStep, RenameStep DEF PublishingNext

LEMMA PubInvariant == ASSUME PublishingConstants PROVE PublishingSpec => []PubInv
BY PubInit, PubNext, PTL DEF PublishingSpec

-----------------------------------------------------------------------------
(* Every reader of an exported file (place, export.go:892) reads a whole   *)
(* artefact, and under a digest the one of that tree, however many exports *)
(* are killed or fail or run beside one another while the tree is edited.  *)
THEOREM ExportsAreWhole == ASSUME PublishingConstants PROVE PublishingSpec => []ArtefactsAreOfTheirTree
<1>1. PubInv => ArtefactsAreOfTheirTree
  BY DEF PubInv, AtInv, PlacedInv, ArtefactsAreOfTheirTree
<1>2. QED  BY PubInvariant, <1>1, PTL

(* A destination holds one artefact or nothing, and a run is somewhere     *)
(* between reading the tree and ending (export.go:759).                    *)
THEOREM PublishingTypes == ASSUME PublishingConstants PROVE PublishingSpec => []PublishingTypeOK
<1>1. PubInv => PublishingTypeOK
  BY DEF PubInv, TypeInv, PublishingTypeOK, Disks, RunStates, Pcs
<1>2. QED  BY PubInvariant, <1>1, PTL
=============================================================================
