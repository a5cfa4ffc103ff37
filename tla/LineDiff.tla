------------------------------ MODULE LineDiff ------------------------------
(***************************************************************************)
(* The unified diff a dry run prints (diff.go): Myers' search for the      *)
(* fewest edits, given up at a depth, walked back into an edit script, and *)
(* the script cut into hunks with some unchanged lines around them.  A     *)
(* line is a model value.                                                  *)
(*                                                                         *)
(* One behaviour compares one pair of texts.                               *)
(***************************************************************************)
EXTENDS Integers, Sequences, SequencesExt

CONSTANTS Line,
          MaxTextLines,  \* bound: lines of a text
          MaxDiffDepth,  \* edits past which the search gives up
          DiffContext    \* unchanged lines shown around a change

(* What the constants have to be. *)
DiffConstants ==
    MaxTextLines \in Nat /\ MaxDiffDepth \in Nat \ {0} /\ DiffContext \in Nat

Texts == UNION {[1..n -> Line] : n \in 0..MaxTextLines}

VARIABLES sides,   \* [a, b]: two texts
          search,  \* [stage, prefix, suffix, a, b, v, trace, at, pairs]
          diff     \* [script, hunks]
comparing == <<sides, search, diff>>
-----------------------------------------------------------------------------
Least(s) == CHOOSE x \in s : \A y \in s : x <= y
Shorter(m, n) == IF m < n THEN m ELSE n

(* How far equal lines carry on from <<x, y>>, between the lines the texts *)
(* share at the beginning and at the end.                                  *)
Snake(x, y) ==
    Least({n \in 0..Len(search.a) : ~ /\ x + n < Len(search.a) /\ y + n < Len(search.b)
                                      /\ search.a[x + n + 1] = search.b[y + n + 1]})
(* The diagonal a path of d edits came to k from: v holds how far fewer    *)
(* edits reach on each.                                                    *)
Previous(v, d, k) == IF k = -d \/ (k # d /\ v[k - 1] < v[k + 1]) THEN k + 1 ELSE k - 1
Reach(d, k) ==
    LET from == Previous(search.v, d, k)
        x == IF from = k + 1 THEN search.v[from] ELSE search.v[from] + 1
    IN  x + Snake(x, x - k)
(* Mutant: the last depth is not searched. *)
DepthLess(n) == Shorter(n, MaxDiffDepth - 1)
Depth(n) == Shorter(n, MaxDiffDepth)
Diagonals(d) == {k \in -d..d : (k + d) % 2 = 0}
-----------------------------------------------------------------------------
(* The lines shared at either end are kept out of the search. *)
Trim ==
    /\ search.stage = "trim"
    /\ LET shorter == Shorter(Len(sides.a), Len(sides.b))
           prefix == Least({n \in 0..shorter : n = shorter \/ sides.a[n + 1] # sides.b[n + 1]})
           suffix == Least({n \in 0..(shorter - prefix) :
               n = shorter - prefix \/ sides.a[Len(sides.a) - n] # sides.b[Len(sides.b) - n]})
           a == SubSeq(sides.a, prefix + 1, Len(sides.a) - suffix)
           b == SubSeq(sides.b, prefix + 1, Len(sides.b) - suffix)
       IN  search' = [stage |-> IF a = <<>> \/ b = <<>> THEN "script" ELSE "search",
                      prefix |-> prefix, suffix |-> suffix, a |-> a, b |-> b,
                      v |-> [k \in -MaxDiffDepth..MaxDiffDepth |-> 0],
                      trace |-> <<>>, at |-> <<Len(a), Len(b)>>, pairs |-> <<>>]
    /\ UNCHANGED <<sides, diff>>

(* How far each diagonal is reached with one edit more; until one reaches  *)
(* the end of both, or the search has gone deep enough and gives up.       *)
Deepen ==
    LET d == Len(search.trace)
        ended == \E k \in Diagonals(d) :
                    Reach(d, k) >= Len(search.a) /\ Reach(d, k) - k >= Len(search.b)
    IN  /\ search.stage = "search"
        /\ search' = [search EXCEPT
              !.trace = Append(@, search.v),
              !.v = [k \in DOMAIN @ |-> IF k \in Diagonals(d) THEN Reach(d, k) ELSE @[k]],
              !.stage = CASE ended -> "back"
                          [] ~ended /\ d = Depth(Len(search.a) + Len(search.b)) -> "script"
                          [] OTHER -> "search"]
        /\ UNCHANGED <<sides, diff>>

(* The path is walked back an edit at a time, and what it passes unchanged *)
(* is what the two texts have in common.                                   *)
WalkBack ==
    LET d == Len(search.trace) - 1
        v == search.trace[d + 1]
        k == Previous(v, d, search.at[1] - search.at[2])
        came == IF d = 0 THEN <<0, 0>> ELSE <<v[k], v[k] - k>>
        same == Shorter(search.at[1] - came[1], search.at[2] - came[2])
    IN  /\ search.stage = "back"
        /\ search' = [search EXCEPT
              !.pairs = [i \in 1..same |->
                            <<search.at[1] - same + i, search.at[2] - same + i>>] \o @,
              !.at = came, !.trace = SubSeq(@, 1, d),
              !.stage = IF d = 0 THEN "script" ELSE @]
        /\ UNCHANGED <<sides, diff>>

(* The pairs of lines a script leaves alone. *)
Common ==
    [i \in 1..search.prefix |-> <<i, i>>]
    \o [i \in DOMAIN search.pairs |->
           <<search.pairs[i][1] + search.prefix, search.pairs[i][2] + search.prefix>>]
    \o [i \in 1..search.suffix |->
           <<Len(sides.a) - search.suffix + i, Len(sides.b) - search.suffix + i>>]
Marked(op, text) == [i \in DOMAIN text |-> [op |-> op, text |-> text[i]]]
EditScript(common) ==
    LET pairs == Append(common, <<Len(sides.a) + 1, Len(sides.b) + 1>>)
        before(i) == IF i = 1 THEN <<0, 0>> ELSE pairs[i - 1]
    IN  FlattenSeq([i \in DOMAIN pairs |->
            Marked("removed", SubSeq(sides.a, before(i)[1] + 1, pairs[i][1] - 1))
            \o Marked("added", SubSeq(sides.b, before(i)[2] + 1, pairs[i][2] - 1))
            \o (IF i \in DOMAIN common THEN Marked("kept", <<sides.a[pairs[i][1]]>>) ELSE <<>>)])
Script ==
    /\ search.stage = "script"
    /\ diff' = [diff EXCEPT !.script = EditScript(Common)]
    /\ search' = [search EXCEPT !.stage = "hunks"]
    /\ UNCHANGED sides
-----------------------------------------------------------------------------
(* The edits which are lines of the one text, of the other, and of one. *)
InOld == {"removed", "kept"}
InNew == {"added", "kept"}
Changed == {"removed", "added"}
Changes(script) == {i \in DOMAIN script : script[i].op # "kept"}
(* How many lines of a text the first n edits account for. *)
LinesTo(script, ops) ==
    LET lines[n \in 0..Len(script)] ==
            IF n = 0 THEN 0 ELSE lines[n - 1] + (IF script[n].op \in ops THEN 1 ELSE 0)
    IN  lines
(* Changes no further apart than two lots of context share a hunk.         *)
(* Mutant: hunks are cut as if they shared no context.                     *)
HunkEndsApart(script, i) ==
    ~ \E j \in Changes(script) : i < j /\ j - i <= DiffContext
HunkEnds(script, i) ==
    ~ \E j \in Changes(script) : i < j /\ j - i <= 2 * DiffContext + 1
Hunk(script, first, last) ==
    LET from == IF first - DiffContext < 1 THEN 1 ELSE first - DiffContext
        to == IF last + DiffContext > Len(script) THEN Len(script) ELSE last + DiffContext
        old == LinesTo(script, InOld)
        new == LinesTo(script, InNew)
    IN  [a |-> old[from - 1], an |-> old[to] - old[from - 1],
         b |-> new[from - 1], bn |-> new[to] - new[from - 1], edits |-> SubSeq(script, from, to)]
(* A hunk begins at the first change past the end of the one before. *)
Opening(script, last) ==
    Least({i \in Changes(script) :
              \A j \in Changes(script) : j < last /\ HunkEnds(script, j) => j < i})
Hunks(script) ==
    LET hunks[n \in 0..Len(script)] ==
            IF n = 0 THEN <<>>
            ELSE IF n \in Changes(script) /\ HunkEnds(script, n)
                 THEN Append(hunks[n - 1], Hunk(script, Opening(script, n), n))
                 ELSE hunks[n - 1]
    IN  hunks[Len(script)]
(* The line a header names first: an empty range names the line before it. *)
LineRange(start, count) == IF count = 0 THEN start ELSE start + 1
-----------------------------------------------------------------------------
Cut ==
    /\ search.stage = "hunks"
    /\ diff' = [diff EXCEPT !.hunks = Hunks(diff.script)]
    /\ search' = [search EXCEPT !.stage = "compared"]
    /\ UNCHANGED sides

DiffInit ==
    /\ sides \in [a : Texts, b : Texts]
    /\ search = [stage |-> "trim"]
    /\ diff = [script |-> <<>>, hunks |-> <<>>]
DiffNext == Trim \/ Deepen \/ WalkBack \/ Script \/ Cut
DiffSpec == DiffInit /\ [][DiffNext]_comparing
-----------------------------------------------------------------------------
Compared == search.stage = "compared"
Edits == [op : {"removed", "added", "kept"}, text : Line]
DiffTypeOK ==
    /\ sides.a \in Texts /\ sides.b \in Texts
    /\ diff.script \in Seq(Edits)
    /\ \A i \in DOMAIN diff.hunks : diff.hunks[i].edits \in Seq(Edits)

(* The lines of a script, of its edits which are one of ops. *)
EditRead(edit, ops) == IF edit.op \in ops THEN <<edit.text>> ELSE <<>>
Texted(script, ops) ==
    LET text[n \in 0..Len(script)] ==
            IF n = 0 THEN <<>>
            ELSE text[n - 1] \o EditRead(script[n], ops)
    IN  text[Len(script)]

(* The fewest deletions and insertions which make one text of another.     *)
Distance(a, b) ==
    LET dist[at \in (0..Len(a)) \X (0..Len(b))] ==
            LET i == at[1]
                j == at[2]
            IN  IF i = 0 THEN j ELSE IF j = 0 THEN i
                ELSE IF a[i] = b[j] THEN dist[<<i - 1, j - 1>>]
                ELSE 1 + Shorter(dist[<<i - 1, j>>], dist[<<i, j - 1>>])
    IN  dist[<<Len(a), Len(b)>>]

(* A script tells one text and the other apart with as few edits as there  *)
(* can be; past the depth it still tells them apart.                       *)
ScriptsAreShortest ==
    Compared =>
        /\ Texted(diff.script, InOld) = sides.a
        /\ Texted(diff.script, InNew) = sides.b
        /\ Distance(sides.a, sides.b) <= MaxDiffDepth =>
              Len(Texted(diff.script, Changed)) = Distance(sides.a, sides.b)

(* Where a reader of a patch finds a hunk in the first text, the line      *)
(* below it, and what is written for it and for the lines down to it.      *)
AfterOf(start, count) == IF count = 0 THEN start + 1 ELSE start  \* the first line not before
StartsAt(n) ==
    AfterOf(LineRange(diff.hunks[n].a, diff.hunks[n].an), diff.hunks[n].an)
BelowHunk(n) == IF n = 0 THEN 1 ELSE StartsAt(n) + diff.hunks[n].an
PatchedBy(n) ==
    SubSeq(sides.a, BelowHunk(n - 1), StartsAt(n) - 1) \o Texted(diff.hunks[n].edits, InNew)

(* What a reader of a patch does with one text and the hunks: copy the     *)
(* lines up to each, check that what a hunk deletes and shows is there,    *)
(* and go on below it.  No line is in two hunks, and the outcome is the    *)
(* other text.                                                             *)
PatchesApply ==
    Compared =>
        /\ diff.hunks = <<>> <=> sides.a = sides.b
        /\ \A n \in DOMAIN diff.hunks :
              LET hunk == diff.hunks[n]
                  at == AfterOf(LineRange(hunk.b, hunk.bn), hunk.bn)
              IN  /\ BelowHunk(n - 1) <= StartsAt(n)
                  /\ SubSeq(sides.a, StartsAt(n), StartsAt(n) + hunk.an - 1)
                        = Texted(hunk.edits, InOld)
                  /\ SubSeq(sides.b, at, at + hunk.bn - 1) = Texted(hunk.edits, InNew)
        /\ FlattenSeq([n \in DOMAIN diff.hunks |-> PatchedBy(n)])
              \o SubSeq(sides.a, BelowHunk(Len(diff.hunks)), Len(sides.a)) = sides.b
=============================================================================
