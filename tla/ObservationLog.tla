--------------------------- MODULE ObservationLog ---------------------------
(***************************************************************************)
(* The observation log over its revisions (observation.go): files of       *)
(* records which are appended to and never edited, read in the order of    *)
(* their paths.  Anything may be proposed as the next revision; it is      *)
(* taken where each file was appended to (ValidateAppendOnly) and the log  *)
(* the files make is sound (LoadObservations).  Who asks both of every     *)
(* revision is the caller's affair; that they are asked is what is assumed *)
(* of it here.                                                             *)
(***************************************************************************)
EXTENDS Naturals, Sequences

CONSTANTS Files,     \* how many files there are; a path is its place in the walk
          Comment,   \* a line which is no record
          Records,   \* [kind, id, names, says]: names is the id a retirement names
          NoRecord,  \* what an observation names
          MaxLines   \* bound: lines of a file

Kinds == {"obs", "retire"}
Ids == {r.id : r \in Records}
Says == {r.says : r \in Records}
Named == {r.names : r \in Records} \cup {NoRecord}

(* What the constants have to be. *)
ObservationConstants ==
    /\ Files \in Nat /\ MaxLines \in Nat /\ Comment \notin Records
    /\ Records \subseteq [kind : Kinds, id : Ids, names : Named, says : Says]
    /\ \A r \in Records : r.kind = "obs" <=> r.names = NoRecord

(* A line, and whether a line feed ends it, as it does every line of a     *)
(* file but the last.                                                      *)
Lines == [text : Records \cup {Comment}, ended : BOOLEAN]
Contents == {f \in UNION {[1..n -> Lines] : n \in 0..MaxLines} :
                \A i \in DOMAIN f : i < Len(f) => f[i].ended}

VARIABLE files   \* the contents of each, absent ones empty
-----------------------------------------------------------------------------
(* Where a record is: in which file, and at which of its lines. *)
Before(p, q) == p[1] < q[1] \/ (p[1] = q[1] /\ p[2] < q[2])
RecordAt(revision, p) == revision[p[1]][p[2]].text

(* The log: where the records of every file are, in the order of the walk. *)
Log(revision) ==
    {p \in UNION {{f} \X DOMAIN revision[f] : f \in 1..Files} : RecordAt(revision, p) # Comment}
Kept(revision, where) == {RecordAt(revision, p) : p \in where}

(* The first place to write an id, and the first to retire one, if any. *)
Earliest(where) == {p \in where : \A q \in where : p = q \/ Before(p, q)}
ById(revision, id) == Earliest({p \in Log(revision) : RecordAt(revision, p).id = id})
Retiring(revision, id) ==
    {p \in Log(revision) : RecordAt(revision, p).kind = "retire" /\ RecordAt(revision, p).names = id}
RetiredBy(revision, id) == Earliest(Retiring(revision, id))
Current(revision) ==
    {p \in Log(revision) : /\ RecordAt(revision, p).kind = "obs"
                           /\ RetiredBy(revision, RecordAt(revision, p).id) = {}}

(* What validateRetirement asks of a retirement. *)
Retires(revision, p) ==
    LET r == RecordAt(revision, p)
    IN  /\ r.names # r.id
        /\ \E q \in ById(revision, r.names) : Before(q, p)
        /\ RetiredBy(revision, r.names) = {p}

(* Mutant: a last line may be left without a line feed. *)
TerminatedAlways(file) == TRUE
Terminated(file) == \A i \in DOMAIN file : file[i].ended
(* The files load without an error. *)
SoundLog(revision) ==
    /\ \A f \in 1..Files : Terminated(revision[f])
    /\ \A p \in Log(revision) : ById(revision, RecordAt(revision, p).id) = {p}
    /\ \A p \in Log(revision) : RecordAt(revision, p).kind = "retire" => Retires(revision, p)

(* Mutant: no line is missing, and where it stands is not asked. *)
AppendedSomewhere(was, now) ==
    Len(was) <= Len(now) /\ \A i \in DOMAIN was : \E j \in DOMAIN now : was[i] = now[j]
(* Every line is where it was, byte for byte, and what is new is below. *)
Appended(was, now) == Len(was) <= Len(now) /\ \A i \in DOMAIN was : was[i] = now[i]

Accepted(was, now) == (\A f \in 1..Files : Appended(was[f], now[f])) /\ SoundLog(now)
-----------------------------------------------------------------------------
ObservationInit == files = [f \in 1..Files |-> <<>>]
Revise ==
    \E proposed \in [1..Files -> Contents] :
        Accepted(files, proposed) /\ files' = proposed
ObservationNext == Revise
ObservationSpec == ObservationInit /\ [][ObservationNext]_files
-----------------------------------------------------------------------------
ObservationTypeOK == files \in [1..Files -> Contents]

(* What evidence there was there is, and in the order it was taken file by *)
(* file; what was retired stays retired, by the same decision; and an      *)
(* observation stops counting only by a retirement the revision added:     *)
(* over any number of revisions, whatever was proposed in between          *)
(* (ValidateAppendOnly, observation.go:1310).                              *)
EvidenceStep ==
    LET log == Log(files)
        next == Log(files')
        Told(p, q) == RecordAt(files, p) = RecordAt(files', q)
    IN  /\ Kept(files, log) \subseteq Kept(files', next)
        /\ \A p1, p2 \in log : \A q1, q2 \in next :
              p1[1] = p2[1] /\ Before(p1, p2) /\ Told(p1, q1) /\ Told(p2, q2) => Before(q1, q2)
        /\ \A d \in Kept(files, log) : d.kind = "retire" =>
              Kept(files', RetiredBy(files', d.names)) = {d}
        /\ \A r \in Kept(files, Current(files)) :
              \/ r \in Kept(files', Current(files'))
              \/ \E d \in Kept(files', next) \ Kept(files, log) : d.kind = "retire" /\ d.names = r.id
EvidenceStands == [][EvidenceStep]_files

(* There is always a legal way on: a record with an id the log does not    *)
(* hold can be appended to any file, and a decision to retire anything not *)
(* retired to the last which is read (validateRetirement,                  *)
(* observation.go:1211).                                                   *)
With(f, r) == \* a line feed goes before the record where the last line has none
    [files EXCEPT ![f] = Append([i \in DOMAIN @ |-> [@[i] EXCEPT !.ended = TRUE]],
                                [text |-> r, ended |-> TRUE])]
AppendsAreLegal ==
    LET held == {r.id : r \in Kept(files, Log(files))}
    IN  \A r \in Records : r.id \notin held =>
          /\ r.kind = "obs" => \A f \in 1..Files : Accepted(files, With(f, r))
          /\ r.kind = "retire" /\ r.names \in held /\ Retiring(files, r.names) = {}
                => Accepted(files, With(Files, r))
=============================================================================
