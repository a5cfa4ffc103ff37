------------------------------- MODULE Rings --------------------------------
(***************************************************************************)
(* Assembling a loop, or an open run, from the edges it lists              *)
(* (assemble.go): corners closer than a tolerance are one corner, the      *)
(* edges have to form one simple ring, or chain, and in the order they are *)
(* listed.  Which corners are close is given, and it need not be           *)
(* transitive; which end of an edge a broken traversal takes up again from *)
(* is a matter of distances, and is left open.                             *)
(*                                                                         *)
(* One behaviour assembles one loop, an edge at a time.                    *)
(***************************************************************************)
EXTENDS Naturals, Sequences, FiniteSets, SequencesExt

CONSTANTS VertexIds, NoVertexId, EdgeIds,
          Loops     \* the loops asked about

(* What the constants have to be. *)
RingConstants ==
    /\ IsFiniteSet(VertexIds) /\ NoVertexId \notin VertexIds
    /\ Loops \subseteq [edges : Seq(EdgeIds),
                        ends : [EdgeIds -> (VertexIds \cup {NoVertexId}) \X (VertexIds \cup {NoVertexId})],
                        near : SUBSET SUBSET VertexIds, open : BOOLEAN]

VARIABLES loop,        \* its edges in order, their ends, what is close
          assembling,  \* [phase, steps, breaks]: steps are <<from, to>>
          assembly     \* [closed, found]
rings == <<loop, assembling, assembly>>

Count == Len(loop.edges)
Drawn(i) == loop.ends[loop.edges[i]]
Met == UNION {{Drawn(i)[1], Drawn(i)[2]} : i \in 1..Count}
-----------------------------------------------------------------------------
(* The corners of the loop which are close to one another. *)
Coincident == {pair \in loop.near : pair \subseteq Met}
(* The vertices which count as the corner v, by merging every close pair. *)
Unite(pair, merged) ==
    LET both == UNION {merged[v] : v \in pair}
    IN  [v \in VertexIds |-> IF v \in both THEN both ELSE merged[v]]
CornerOf == FoldSet(Unite, [v \in VertexIds |-> {v}], Coincident)
Same(v, w) == CornerOf[v] = CornerOf[w]

Resolves == Count > 0 /\ \A i \in 1..Count : NoVertexId \notin {Drawn(i)[1], Drawn(i)[2]}
Repeats == \E i, j \in 1..Count : i # j /\ loop.edges[i] = loop.edges[j]

(* How many edge ends meet at the corner of v. *)
Degree(v) ==
    Cardinality({end \in (1..Count) \X {1, 2} : Same(Drawn(end[1])[end[2]], v)})
(* The edges fall apart: some of them share no corner with the others.     *)
Separate ==
    \E part \in SUBSET (1..Count) :
        /\ part # {} /\ part # 1..Count
        /\ \A i \in part, j \in (1..Count) \ part, k \in {1, 2}, l \in {1, 2} :
               ~Same(Drawn(i)[k], Drawn(j)[l])
Found ==
    IF ~Resolves THEN "unresolved"
    ELSE IF Repeats THEN "repeated"
    ELSE IF \E v \in Met : Degree(v) > 2 THEN "branching"
    ELSE IF Separate THEN "separate"
    ELSE "none"
IsRing == \A v \in Met : Degree(v) = 2

Joins(v, i) == Same(v, Drawn(i)[1]) \/ Same(v, Drawn(i)[2])
(* Mutant: the first edge is walked as it was drawn. *)
FirstStepDrawn == Drawn(1)
(* The way the first edge is walked is the way which meets the second. *)
FirstStep ==
    LET from == Drawn(1)[1]
        to == Drawn(1)[2]
    IN  IF Count > 1 /\ ~Joins(to, 2) /\ Joins(from, 2) THEN <<to, from>> ELSE <<from, to>>
-----------------------------------------------------------------------------
RingsInit ==
    /\ loop \in Loops
    /\ assembling = [phase |-> "begun", steps |-> <<>>, breaks |-> 0]
    /\ assembly = [closed |-> FALSE, found |-> "none"]

(* What the edges are is settled before the order they come in. *)
Examine ==
    /\ assembling.phase = "begun"
    /\ assembly' = [closed |-> FALSE, found |-> Found]
    /\ assembling' = IF Found = "none" THEN [phase |-> "walking", steps |-> <<FirstStep>>, breaks |-> 0]
                     ELSE [assembling EXCEPT !.phase = "done"]
    /\ UNCHANGED loop

Reached == assembling.steps[Len(assembling.steps)][2]
(* The walk goes along the next edge, from one of its ends to the other.   *)
Walking == assembling.phase = "walking" /\ Len(assembling.steps) < Count
Along(from, to, broken) ==
    /\ assembling' = [phase |-> "walking", steps |-> Append(assembling.steps, <<from, to>>),
                      breaks |-> assembling.breaks + broken]
    /\ UNCHANGED <<loop, assembly>>
Continue ==
    LET next == Drawn(Len(assembling.steps) + 1)
    IN  /\ Walking
        /\ IF Same(Reached, next[1]) THEN Along(next[1], next[2], 0)
           ELSE Same(Reached, next[2]) /\ Along(next[2], next[1], 0)
Break ==
    LET next == Len(assembling.steps) + 1
    IN  /\ Walking /\ ~Joins(Reached, next)
        /\ \E near \in {1, 2} : Along(Drawn(next)[near], Drawn(next)[3 - near], 1)
(* Whether the last edge comes back to the first, and what broke. *)
Return ==
    LET joined == Same(Reached, assembling.steps[1][1])
        breaks == assembling.breaks + IF ~joined /\ ~loop.open THEN 1 ELSE 0
    IN  /\ assembling.phase = "walking" /\ Len(assembling.steps) = Count
        /\ assembling' = [phase |-> "done", steps |-> assembling.steps, breaks |-> breaks]
        /\ assembly' = [closed |-> breaks = 0 /\ joined,
                        found |-> IF breaks = 0 THEN "none"
                                  ELSE IF loop.open \/ IsRing THEN "disordered" ELSE "gap"]
        /\ UNCHANGED loop
RingsNext == Examine \/ Continue \/ Break \/ Return
RingsSpec == RingsInit /\ [][RingsNext]_rings
-----------------------------------------------------------------------------
LoopFindings == {"none", "unresolved", "repeated", "branching", "separate", "disordered", "gap"}
RingsTypeOK ==
    /\ loop.edges \in Seq(EdgeIds)
    /\ assembling.phase \in {"begun", "walking", "done"}
    /\ assembling.steps \in Seq(VertexIds \X VertexIds) /\ Len(assembling.steps) <= Count
    /\ assembling.breaks \in 0..Count
    /\ assembly \in [closed : BOOLEAN, found : LoopFindings]

(* Close to, through any number of others of the loop. *)
Merges(v, w) ==
    \A s \in SUBSET VertexIds :
        v \in s /\ (\A pair \in Coincident : pair \cap s # {} => pair \subseteq s) => w \in s
(* The edges listed in an order and walked in directions, each step a pair *)
(* of ends, make one simple chain: they join, and no corner but the first  *)
(* is come back to, at the end.                                            *)
From(order, ways, i) == Drawn(order[i])[IF ways[i] THEN 1 ELSE 2]
To(order, ways, i) == Drawn(order[i])[IF ways[i] THEN 2 ELSE 1]
Walkable(order, ways) ==
    /\ \A i \in 1..(Count - 1) : Merges(To(order, ways, i), From(order, ways, i + 1))
    /\ \A i, j \in 1..Count : i < j => ~Merges(From(order, ways, i), From(order, ways, j))
    /\ \A i \in 2..Count : ~Merges(To(order, ways, Count), From(order, ways, i))
Rounded(order, ways) ==
    Walkable(order, ways) /\ Merges(To(order, ways, Count), From(order, ways, 1))
Ways == [1..Count -> BOOLEAN]
Listed == [i \in 1..Count |-> i]
Orders == {o \in [1..Count -> 1..Count] : \A i, j \in 1..Count : o[i] = o[j] => i = j}

(* A loop assembles where its edges, in the order they are listed, can be  *)
(* walked round one simple ring, whatever way round each was drawn, and an *)
(* open run where they can be walked end to end; nothing else does, and a  *)
(* loop which assembles is closed.                                         *)
OnlyRingsAssemble ==
    assembling.phase = "done" /\ assembly.found # "unresolved" =>
        /\ assembly.found = "none" <=>
              /\ ~Repeats
              /\ \E w \in Ways : IF loop.open THEN Walkable(Listed, w) ELSE Rounded(Listed, w)
        /\ assembly.closed <=> ~Repeats /\ \E w \in Ways : Rounded(Listed, w)

(* Edges said to be in the wrong order make a ring, or a chain, in another *)
(* one; and a loop said to have a gap makes a ring in none.                *)
DisorderIsNoGap ==
    assembling.phase = "done" =>
        /\ assembly.found = "disordered" =>
              \E o \in Orders, w \in Ways :
                  IF loop.open THEN Walkable(o, w) ELSE Rounded(o, w)
        /\ assembly.found = "gap" => ~ \E o \in Orders, w \in Ways : Rounded(o, w)

(* What assembles is a ring, or a chain, in the order it is listed; edges  *)
(* in disorder make a ring in some order, and gaps in none.                *)
AssembledIsARing == OnlyRingsAssemble /\ DisorderIsNoGap
=============================================================================
