--------------------------- MODULE MCDerivedCache ---------------------------
(***************************************************************************)
(* DerivedCache over entity files holding "a" or "b", of which not every   *)
(* combination derives, and observation files holding one of two           *)
(* surveys, each enough for a surface by itself.                           *)
(***************************************************************************)
EXTENDS DerivedCache, FiniteSets, TLC

CONSTANTS r1, r2

OneRun == {r1}
TwoRuns == {r1, r2}

Letters == {"a", "b"}
OneLetter == {"a"}
Surveys == {"old", "new"}
NoAgainst == {}
OneAgainst == {"5mm"}

BothKinds == {"footprints", "surface"}
OnlyFootprints == {"footprints"}

\* The links of two entities which share a file.
SharedLinks == {{1}, {1, 2}} \cap SUBSET File
LinkedBoth == {{1, 2}}
NoLinks == {}

\* The region a surface is of links to the first file and not to the second.
CitedOne == {1}

\* Under the finer tolerance, the last entity file has to hold "a".
MCDerives(graph, against) == against = "5mm" => graph[NumParts] = "a"

MCSound(shots) == TRUE
MCEnough(shots) == \E f \in File : shots[f] \in Surveys

Symmetry == Permutations({r1, r2})
=============================================================================
