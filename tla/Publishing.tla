----------------------------- MODULE Publishing -----------------------------
(***************************************************************************)
(* Exports of one tree (cmd/dfcad/export.go, map.go), by processes which   *)
(* may be killed at any step, of a tree which is edited while it is read.  *)
(* An artefact goes to a directory named for the digest of what was read,  *)
(* or to a path the caller names, by way of a temporary file.              *)
(*                                                                         *)
(* What is read is the digest: two trees have one digest where they hold   *)
(* the same bytes.  What the flags of a run ask to be drawn is its         *)
(* drawing.                                                                *)
(***************************************************************************)
EXTENDS Naturals, Sequences

CONSTANTS Run,        \* processes
          NumFiles, Bytes,
          Drawings,   \* what the flags of a run may ask for
          Out,        \* the path a caller may name
          Nothing     \* no file

Trees == [1..NumFiles -> Bytes]
Artefacts == [of : Trees, drawn : Drawings, whole : BOOLEAN]
Destinations == Trees \cup {Out}

(* What the constants have to be. *)
PublishingConstants ==
    /\ NumFiles \in Nat \ {0} /\ Drawings # {} /\ Run # {}
    /\ Out \notin Seq(Bytes) /\ Nothing \notin Artefacts

VARIABLES tree,
          disk,   \* [at, temporary]: what is at each destination, and half-made
          runs    \* [pc, read, drawn, keyed, status] of each process
publishing == <<tree, disk, runs>>
-----------------------------------------------------------------------------
Destination(r) == IF runs[r].keyed THEN runs[r].read ELSE Out
Made(r, whole) == [of |-> runs[r].read, drawn |-> runs[r].drawn, whole |-> whole]
Artefact(r) == Made(r, TRUE)
(* The temporary file of a run, whose name nobody else has.                *)
(* Mutant: every run writes to one name.                                   *)
TemporaryShared(r) == CHOOSE s \in Run : TRUE
Temporary(r) == r

Goes(r, pc) == runs' = [runs EXCEPT ![r].pc = pc]
Ends(r, status) == runs' = [runs EXCEPT ![r].pc = "done", ![r].status = status]
Idle == [pc |-> "idle", read |-> <<>>, drawn |-> CHOOSE d \in Drawings : TRUE,
         keyed |-> TRUE, status |-> "none"]

Begin(r) ==
    /\ runs[r].pc = "idle"
    /\ \E drawn \in Drawings, keyed \in BOOLEAN :
          runs' = [runs EXCEPT ![r] = [Idle EXCEPT !.pc = "reading", !.drawn = drawn, !.keyed = keyed]]
    /\ UNCHANGED <<tree, disk>>
Read(r) ==
    /\ runs[r].pc = "reading" /\ Len(runs[r].read) < NumFiles
    /\ runs' = [runs EXCEPT ![r].read = Append(@, tree[Len(@) + 1])]
    /\ UNCHANGED <<tree, disk>>
(* A model which does not load, or cannot be drawn, is not exported. *)
Refuse(r) ==
    /\ runs[r].pc = "reading" /\ Len(runs[r].read) = NumFiles
    /\ Ends(r, "refused")
    /\ UNCHANGED <<tree, disk>>
(* The artefact is left alone where it is there already. *)
Compare(r) ==
    /\ runs[r].pc = "reading" /\ Len(runs[r].read) = NumFiles
    /\ IF disk.at[Destination(r)] = Artefact(r) THEN Ends(r, "unchanged") ELSE Goes(r, "creating")
    /\ UNCHANGED <<tree, disk>>
Create(r) ==
    /\ runs[r].pc = "creating" /\ Goes(r, "writing")
    /\ disk' = [disk EXCEPT !.temporary[Temporary(r)] = Made(r, FALSE)]
    /\ UNCHANGED tree
Write(r) ==
    /\ runs[r].pc = "writing" /\ Goes(r, "renaming")
    /\ disk' = [disk EXCEPT !.temporary[Temporary(r)] = Artefact(r)]
    /\ UNCHANGED tree
Rename(r) ==
    /\ runs[r].pc = "renaming" /\ disk.temporary[Temporary(r)] # Nothing
    /\ disk' = [disk EXCEPT !.at[Destination(r)] = disk.temporary[Temporary(r)],
                            !.temporary[Temporary(r)] = Nothing]
    /\ Ends(r, "written")
    /\ UNCHANGED tree
(* A step which fails takes the temporary file with it. *)
Fail(r) ==
    /\ runs[r].pc \in {"creating", "writing", "renaming"}
    /\ Ends(r, "failed")
    /\ disk' = [disk EXCEPT !.temporary[Temporary(r)] = Nothing]
    /\ UNCHANGED tree
(* A kill leaves it; nobody reads it, and the next run has another name. *)
Kill(r) ==
    /\ runs[r].pc \notin {"idle", "done"}
    /\ runs' = [runs EXCEPT ![r] = Idle]
    /\ UNCHANGED <<tree, disk>>
Again(r) ==
    /\ runs[r].pc = "done" /\ runs' = [runs EXCEPT ![r] = Idle]
    /\ UNCHANGED <<tree, disk>>
Edit ==
    \E f \in 1..NumFiles, b \in Bytes :
        tree[f] # b /\ tree' = [tree EXCEPT ![f] = b] /\ UNCHANGED <<disk, runs>>

PublishingInit ==
    /\ tree \in Trees
    /\ disk = [at |-> [d \in Destinations |-> Nothing], temporary |-> [r \in Run |-> Nothing]]
    /\ runs = [r \in Run |-> Idle]
PublishingNext ==
    \/ \E r \in Run : \/ Begin(r) \/ Read(r) \/ Refuse(r) \/ Compare(r) \/ Create(r)
                      \/ Write(r) \/ Rename(r) \/ Fail(r) \/ Kill(r) \/ Again(r)
    \/ Edit
PublishingSpec == PublishingInit /\ [][PublishingNext]_publishing
-----------------------------------------------------------------------------
PublishingTypeOK ==
    /\ tree \in Trees
    /\ disk.at \in [Destinations -> Artefacts \cup {Nothing}]
    /\ disk.temporary \in [Run -> Artefacts \cup {Nothing}]
    /\ \A r \in Run : /\ runs[r].pc \in {"idle", "reading", "creating", "writing", "renaming", "done"}
                      /\ runs[r].read \in Seq(Bytes) /\ runs[r].drawn \in Drawings

Placed(r) == runs[r].pc = "done" /\ runs[r].status \in {"written", "unchanged"}

(* What is at a destination is a whole artefact, and under a digest one of *)
(* the tree which has it; and where every run asks for the same drawing,   *)
(* what a run said it wrote or found under a digest stays there, however   *)
(* many others export meanwhile.                                           *)
ArtefactsAreOfTheirTree ==
    /\ \A d \in Destinations : disk.at[d] # Nothing =>
          disk.at[d].whole /\ (d # Out => disk.at[d].of = d)
    /\ \A r \in Run : Placed(r) =>
          /\ disk.at[Destination(r)] # Nothing
          /\ runs[r].keyed /\ (\A d, e \in Drawings : d = e) => disk.at[Destination(r)] = Artefact(r)
=============================================================================
