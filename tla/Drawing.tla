------------------------------ MODULE Drawing -------------------------------
(***************************************************************************)
(* Writing geometry (geometry.go, ring.go, near.go): vertices, edges and   *)
(* loops one at a time, and a whole room scaffolded from its corners, in   *)
(* batches.  Which vertex a corner lands on is asked of the graph Begin    *)
(* built and of what this scaffold minted; which edge joins two vertices,  *)
(* and which ids are taken, of everything the batch wrote as well.         *)
(*                                                                         *)
(* There is one frame, one position predicate and one tolerance; the three *)
(* families of id are minted under one mark, which is where they can meet. *)
(* A vertex of another frame, or one whose position does not resolve, or a *)
(* corner in another unit, is at NoPoint.  What is written goes to one     *)
(* file, at its end.  The node a loop bounds is Authoring's.               *)
(***************************************************************************)
EXTENDS Naturals, Sequences, SequencesExt

CONSTANTS Point, NoPoint,
          Gap,          \* Gap[<<p, q>>] is how far apart two points are
          Tolerance,
          Rooms,        \* the lists of corners scaffolded, closed or not
          Plans,        \* the models begun with
          ChosenIds,    \* the ids an author chooses
          MaxBatches,   \* bounds how often a model is changed
          MaxOperations \* bounds what is done to it, in all its batches

VARIABLES graph,    \* the model on disk, as Begin built it
          forms,    \* the transaction's trees
          batch     \* the transaction, and the scaffold it is in the middle of
drawing == <<graph, forms, batch>>

NoForms == [vertices |-> <<>>, edges |-> <<>>, loops |-> <<>>]
(* A scaffolder which has read no corner. *)
Scaffolder(corners, snap, index) ==
    [corners |-> corners, snap |-> snap, index |-> index,
     read |-> <<>>, vertices |-> <<>>, edges |-> <<>>]
NoScaffold == Scaffolder(<<>>, FALSE, <<>>)
-----------------------------------------------------------------------------
IdsOf(family) == {x.id : x \in ToSet(family)}
Held(f) == IdsOf(f.vertices) \cup IdsOf(f.edges) \cup IdsOf(f.loops)
(* An id nothing of the model or of this change holds. *)
Unheld(id) == id \notin Held(forms)
(* The lowest ordinal nothing holds. *)
Minted ==
    LET size == Len(forms.vertices) + Len(forms.edges) + Len(forms.loops)
    IN  {n \in 1..(size + 1) : Unheld(n) /\ \A m \in 1..(n - 1) : ~Unheld(m)}

Near(p, q) == p # NoPoint /\ q # NoPoint /\ Gap[<<p, q>>] <= Tolerance

run == batch.run
(* Where in the index the vertices a point could land on are, and the one  *)
(* it lands on, if any: the nearest, and of those the first.               *)
Within(p) == {i \in DOMAIN run.index : Near(run.index[i].at, p)}
Landing(p) ==
    LET distance(i) == Gap[<<run.index[i].at, p>>]
    IN  {run.index[i].id : i \in {i \in Within(p) : \A j \in Within(p) :
            distance(i) < distance(j) \/ (distance(i) = distance(j) /\ i <= j)}}

(* Mutant: an edge is looked for the way round it was written. *)
BetweenAsWritten(v, w) == {i \in DOMAIN forms.edges : forms.edges[i].ends = <<v, w>>}
(* The edges between two vertices, whichever way round they were written.  *)
Between(v, w) == {i \in DOMAIN forms.edges : forms.edges[i].ends \in {<<v, w>>, <<w, v>>}}
-----------------------------------------------------------------------------
DrawingInit ==
    /\ graph \in Plans
    /\ forms = NoForms
    /\ batch = [number |-> 0, done |-> 0, phase |-> "closed", run |-> NoScaffold]

BeginDrawing ==
    /\ batch.phase = "closed" /\ batch.number < MaxBatches
    /\ batch' = [batch EXCEPT !.phase = "open", !.number = @ + 1]
    /\ forms' = graph
    /\ UNCHANGED graph

Release == forms' = NoForms /\ batch' = [batch EXCEPT !.phase = "closed", !.run = NoScaffold]

(* What a batch would do may be seen without being done, and an operation  *)
(* which refuses ends it.                                                  *)
Close == batch.phase = "open" /\ Release /\ UNCHANGED graph

(* Nothing is asked of what the change would load as: see Loads.           *)
Commit == batch.phase = "open" /\ forms # graph /\ graph' = forms /\ Release

Operation == batch.phase = "open" /\ batch.done < MaxOperations /\ UNCHANGED graph
Done == batch' = [batch EXCEPT !.done = @ + 1]
Insert(family, form) == forms' = [forms EXCEPT ![family] = Append(@, form)]

(* What is written is marked with the batch and the operation it is of,    *)
(* and with whether it was a scaffold which snapped.                       *)
By(snap) == [batch |-> batch.number, done |-> batch.done, snap |-> snap]

AddVertex(id, at) ==
    /\ Operation /\ Unheld(id) /\ Done
    /\ Insert("vertices", [id |-> id, at |-> at, by |-> By(FALSE)])
AddEdge(id, v, w) ==
    /\ Operation /\ Unheld(id) /\ v # w /\ Done
    /\ {v, w} \subseteq IdsOf(forms.vertices)
    /\ Insert("edges", [id |-> id, ends |-> <<v, w>>, scaffolded |-> FALSE])
AddLoop(id, edges) ==
    /\ Operation /\ Unheld(id) /\ edges # <<>> /\ Done
    /\ ToSet(edges) \subseteq IdsOf(forms.edges)
    /\ Insert("loops", [id |-> id, edges |-> edges, corners |-> <<>>])
Redrawn(loop, id, edges) ==
    IF loop.id = id THEN [id |-> id, edges |-> edges, corners |-> <<>>] ELSE loop
SetEdges(id, edges) ==
    /\ Operation /\ id \in IdsOf(forms.loops) /\ edges # <<>> /\ Done
    /\ ToSet(edges) \subseteq IdsOf(forms.edges)
    /\ forms' = [forms EXCEPT !.loops = [i \in DOMAIN @ |-> Redrawn(@[i], id, edges)]]

(* A list of corners which is long enough, and closes, is scaffolded.      *)
Scaffold(corners, snap) ==
    /\ Operation /\ Len(corners) >= 4 /\ Near(corners[Len(corners)], corners[1])
    /\ batch' = [batch EXCEPT !.phase = "corners",
                              !.run = Scaffolder(corners, snap, graph.vertices)]
    /\ UNCHANGED forms
-----------------------------------------------------------------------------
(* The corner after the i-th of n, round the ring. *)
NextOf(i, n) == IF i = n THEN 1 ELSE i + 1
Corners == Len(run.corners) - 1
NextCorner == run.corners[Len(run.read) + 1]
Settling == batch.phase = "corners" /\ Len(run.read) < Corners /\ UNCHANGED graph
(* The list has been here before. *)
Revisited == \E i \in DOMAIN run.read : Near(run.read[i], NextCorner)
(* The corner snaps onto a vertex another corner is at. *)
Collapsed == run.snap /\ Landing(NextCorner) \cap ToSet(run.vertices) # {}

Refuses == Settling /\ (NextCorner = NoPoint \/ Revisited \/ Collapsed) /\ Release
Settles == Settling /\ NextCorner # NoPoint /\ ~Revisited /\ ~Collapsed
At(vertex, index) ==
    batch' = [batch EXCEPT !.run.read = Append(@, NextCorner),
                           !.run.vertices = Append(@, vertex), !.run.index = index]
Snap ==
    /\ Settles /\ run.snap
    /\ \E found \in Landing(NextCorner) : At(found, run.index)
    /\ UNCHANGED forms
Mint ==
    /\ Settles /\ (run.snap => Within(NextCorner) = {})
    /\ \E id \in Minted :
          LET vertex == [id |-> id, at |-> NextCorner, by |-> By(run.snap)]
          IN  Insert("vertices", vertex) /\ At(id, Append(run.index, vertex))

(* The edge from each corner to the next is one there is, or a new one.    *)
Wall ==
    LET k == Len(run.edges) + 1
        v == run.vertices[k]
        w == run.vertices[NextOf(k, Corners)]
        Along(edge) == batch' = [batch EXCEPT !.run.edges = Append(@, edge)]
    IN  /\ batch.phase = "corners" /\ Len(run.read) = Corners /\ k <= Corners
        /\ UNCHANGED graph
        /\ \/ /\ \E i \in Between(v, w) : /\ \A j \in Between(v, w) : i <= j
                                          /\ Along(forms.edges[i].id)
              /\ UNCHANGED forms
           \/ /\ Between(v, w) = {}
              /\ \E id \in Minted :
                    /\ Along(id)
                    /\ Insert("edges", [id |-> id, ends |-> <<v, w>>, scaffolded |-> TRUE])

(* The loop is written over them. *)
WriteLoop ==
    /\ batch.phase = "corners" /\ Len(run.edges) = Corners
    /\ \E id \in Minted :
          Insert("loops", [id |-> id, edges |-> run.edges, corners |-> run.read])
    /\ batch' = [batch EXCEPT !.phase = "open", !.done = @ + 1, !.run = NoScaffold]
    /\ UNCHANGED graph

ByHand ==
    \/ \E id \in ChosenIds :
          \/ \E at \in Point \cup {NoPoint} : AddVertex(id, at)
          \/ \E v, w \in IdsOf(forms.vertices) : AddEdge(id, v, w)
          \/ \E e, f \in IdsOf(forms.edges) : AddLoop(id, <<e, f>>)
    \/ \E id \in IdsOf(forms.loops), e, f \in IdsOf(forms.edges) : SetEdges(id, <<e, f>>)
DrawingNext ==
    \/ BeginDrawing \/ Close \/ Commit \/ ByHand
    \/ \E corners \in Rooms, snap \in BOOLEAN : Scaffold(corners, snap)
    \/ Refuses \/ Snap \/ Mint \/ Wall \/ WriteLoop
DrawingSpec == DrawingInit /\ [][DrawingNext]_drawing
-----------------------------------------------------------------------------
Vertex == [id : Nat, at : Point \cup {NoPoint}, by : [batch : Nat, done : Nat, snap : BOOLEAN]]
Edge == [id : Nat, ends : Nat \X Nat, scaffolded : BOOLEAN]
Loop == [id : Nat, edges : Seq(Nat), corners : Seq(Point)]
Forms == [vertices : Seq(Vertex), edges : Seq(Edge), loops : Seq(Loop)]
Scaffolding == [corners : Seq(Point \cup {NoPoint}), snap : BOOLEAN, index : Seq(Vertex),
                read : Seq(Point), vertices : Seq(Nat), edges : Seq(Nat)]
DrawingTypeOK ==
    /\ graph \in Forms /\ forms \in Forms
    /\ batch \in [number : 0..MaxBatches, done : 0..MaxOperations,
                  phase : {"closed", "open", "corners"}, run : Scaffolding]
    /\ Len(run.vertices) = Len(run.read)

(* The load has nothing to say of what was written: an id names one thing, *)
(* of whatever family, references reach what they have to, and no edge     *)
(* joins a vertex to itself.                                               *)
OneOfEach(x) == \A i, j \in DOMAIN x : x[i].id = x[j].id => i = j
Loads(f) ==
    /\ OneOfEach(f.vertices) /\ OneOfEach(f.edges) /\ OneOfEach(f.loops)
    /\ IdsOf(f.vertices) \cap IdsOf(f.edges) = {}
    /\ (IdsOf(f.vertices) \cup IdsOf(f.edges)) \cap IdsOf(f.loops) = {}
    /\ \A e \in ToSet(f.edges) :
          /\ e.ends[1] # e.ends[2]
          /\ {e.ends[1], e.ends[2]} \subseteq IdsOf(f.vertices)
    /\ \A l \in ToSet(f.loops) : ToSet(l.edges) \subseteq IdsOf(f.edges)

(* A scaffold draws no second edge between two vertices, so that two rooms *)
(* with two corners in common have the wall between them in common.        *)
OneWallEach(f) ==
    \A i, j \in DOMAIN f.edges :
        i < j /\ f.edges[j].scaffolded =>
            f.edges[i].ends \notin {f.edges[j].ends, <<f.edges[j].ends[2], f.edges[j].ends[1]>>}

(* The room which was asked for was drawn: its loop, each edge walked in   *)
(* some way, goes round vertices which differ, each within the tolerance   *)
(* of its corner, in order, and comes back.                                *)
EndsOf(f, id) == (CHOOSE e \in ToSet(f.edges) : e.id = id).ends
PlaceOf(f, id) == (CHOOSE v \in ToSet(f.vertices) : v.id = id).at
GoesRound(f, loop) ==
    LET n == Len(loop.corners)
    IN  Len(loop.edges) = n /\ \E ways \in [1..n -> {1, 2}] :
            LET from(i) == EndsOf(f, loop.edges[i])[ways[i]]
                to(i) == EndsOf(f, loop.edges[i])[3 - ways[i]]
            IN  /\ \A i \in 1..n : /\ to(i) = from(NextOf(i, n))
                                   /\ Near(PlaceOf(f, from(i)), loop.corners[i])
                /\ \A i, j \in 1..n : from(i) = from(j) => i = j
RoomsAreAsAsked(f) == \A l \in ToSet(f.loops) : l.corners # <<>> => GoesRound(f, l)

(* A scaffold which snaps mints no vertex within the tolerance of one the  *)
(* model held when its batch began, or of one of its own: a room of one    *)
(* batch after another has no slivers along the walls it shares.           *)
NoSlivers(f) ==
    \A i, j \in DOMAIN f.vertices :
        LET v == f.vertices[i]
            w == f.vertices[j]
        IN  i < j /\ w.by.snap /\ Near(v.at, w.at)
                => v.by.batch = w.by.batch /\ v.by.done # w.by.done

Sound(f) == Loads(f) /\ OneWallEach(f) /\ RoomsAreAsAsked(f) /\ NoSlivers(f)

(* Rooms which are scaffolded are as they were asked for, share the walls  *)
(* and corners they have in common with what the model held, and load.     *)
WallsAreShared == Sound(graph) /\ Sound(forms)

(* What the constants have to be; the models begun with are sound. *)
DrawingConstants ==
    /\ NoPoint \notin Point
    /\ Gap \in [Point \X Point -> Nat]
    /\ \A p, q \in Point : Gap[<<p, q>>] = Gap[<<q, p>>] /\ Gap[<<p, p>>] = 0
    /\ Tolerance \in Nat
    /\ Rooms \subseteq Seq(Point \cup {NoPoint})
    /\ Plans \subseteq Forms /\ \A d \in Plans : Sound(d)
    /\ ChosenIds \subseteq Nat \ {0}
    /\ MaxBatches \in Nat /\ MaxOperations \in Nat
=============================================================================
