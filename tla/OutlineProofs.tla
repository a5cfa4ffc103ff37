--------------------------- MODULE OutlineProofs ---------------------------
(***************************************************************************)
(* Proofs about the outlines of rooms: how they are drawn (Drawing) and    *)
(* how they are put together again (Rings).                                *)
(*                                                                         *)
(* What scaffolding leaves in a model, for every set of points, distance   *)
(* and tolerance, every list of corners and batches of any length.         *)
(*                                                                         *)
(* A form is only ever added, and what is added last is the only thing     *)
(* each part of Sound has to be asked of again.  What a scaffold needs to  *)
(* know of itself half way is RunInv: where its corners are, which edges   *)
(* it has gone along, and that the index has every vertex but those other  *)
(* operations of the batch wrote.                                          *)
(*                                                                         *)
(* Proofs about Rings for every loop of every number of edges.  The fold   *)
(* which merges corners is first shown to merge what is close through any  *)
(* number of others; from there a loop is its edge ends and the corner of  *)
(* each, and a chain is edges walked so that each begins where the last    *)
(* one ended.                                                              *)
(***************************************************************************)
EXTENDS Drawing, Rings, FiniteSetTheorems, WellFoundedInduction, TLAPS

(* What the scaffold under way has settled. *)
Settled ==
    /\ Len(run.corners) >= 4 /\ Len(run.read) <= Corners
    /\ Len(run.edges) <= Corners
    /\ run.edges # <<>> => Len(run.read) = Corners
    /\ \A i \in DOMAIN run.read :
          \E v \in ToSet(forms.vertices) : v.id = run.vertices[i] /\ Near(v.at, run.read[i])
    /\ \A i, j \in DOMAIN run.vertices : run.vertices[i] = run.vertices[j] => i = j
    /\ \A i \in DOMAIN run.edges : \E e \in ToSet(forms.edges) :
          /\ e.id = run.edges[i]
          /\ e.ends \in {<<run.vertices[i], run.vertices[NextOf(i, Corners)]>>,
                         <<run.vertices[NextOf(i, Corners)], run.vertices[i]>>}
(* Which vertices the index has not got. *)
Indexed ==
    /\ ToSet(run.index) \subseteq ToSet(forms.vertices)
    /\ \A v \in ToSet(forms.vertices) :
          v \in ToSet(run.index) \/ (v.by.batch = batch.number /\ v.by.done < batch.done)
(* Between operations, what is not of the graph is of an earlier one. *)
Earlier ==
    \A v \in ToSet(forms.vertices) :
        v \in ToSet(graph.vertices) \/ (v.by.batch = batch.number /\ v.by.done < batch.done)
(* In the middle of one, it is of an earlier one or of this. *)
Grown ==
    /\ ToSet(graph.vertices) \subseteq ToSet(forms.vertices)
    /\ \A v \in ToSet(forms.vertices) :
          v \in ToSet(graph.vertices) \/ (v.by.batch = batch.number /\ v.by.done <= batch.done)
RunInv ==
    /\ batch.phase = "closed" => forms = NoForms
    /\ batch.phase = "open" => Earlier /\ ToSet(graph.vertices) \subseteq ToSet(forms.vertices)
    /\ batch.phase = "corners" => Settled /\ Indexed /\ Grown /\ batch.done < MaxOperations
DrawingInv == DrawingTypeOK /\ WallsAreShared /\ RunInv
-----------------------------------------------------------------------------
LEMMA ToSetFacts ==
    ASSUME NEW S, NEW s \in Seq(S), NEW x \in S
    PROVE  /\ ToSet(s) \subseteq S
           /\ Append(s, x) \in Seq(S) /\ Len(Append(s, x)) = Len(s) + 1
           /\ DOMAIN Append(s, x) = 1..(Len(s) + 1)
           /\ \A i \in DOMAIN s : i \in DOMAIN Append(s, x) /\ Append(s, x)[i] = s[i]
           /\ Append(s, x)[Len(s) + 1] = x
           /\ ToSet(Append(s, x)) = ToSet(s) \cup {x}
           /\ IdsOf(Append(s, x)) = IdsOf(s) \cup {x.id}
<1>1. ToSet(s) \subseteq S
  BY DEF ToSet
<1>2. /\ Append(s, x) \in Seq(S) /\ Len(Append(s, x)) = Len(s) + 1
      /\ DOMAIN Append(s, x) = 1..(Len(s) + 1) /\ DOMAIN s = 1..Len(s)
      /\ \A i \in DOMAIN s : i \in DOMAIN Append(s, x) /\ Append(s, x)[i] = s[i]
      /\ Append(s, x)[Len(s) + 1] = x
  OBVIOUS
<1>3. ToSet(Append(s, x)) = ToSet(s) \cup {x}
  <2>1. \A y \in ToSet(s) : y \in ToSet(Append(s, x))
    BY <1>2 DEF ToSet
  <2>2. x \in ToSet(Append(s, x))
    <3>1. Len(s) + 1 \in DOMAIN Append(s, x)
      BY <1>2
    <3>2. QED  BY <1>2, <3>1 DEF ToSet
  <2>3. \A y \in ToSet(Append(s, x)) : y \in ToSet(s) \cup {x}
    <3>1. \A i \in DOMAIN Append(s, x) : i \in DOMAIN s \/ i = Len(s) + 1
      BY <1>2
    <3>2. QED  BY <1>2, <3>1 DEF ToSet
  <2>4. QED  BY <2>1, <2>2, <2>3
<1>4. IdsOf(Append(s, x)) = IdsOf(s) \cup {x.id}
  BY <1>3 DEF IdsOf
<1>5. QED  BY <1>1, <1>2, <1>3, <1>4

LEMMA FormFields ==
    ASSUME NEW f \in Forms
    PROVE  /\ f.vertices \in Seq(Vertex) /\ f.edges \in Seq(Edge) /\ f.loops \in Seq(Loop)
           /\ ToSet(f.vertices) \subseteq Vertex /\ ToSet(f.edges) \subseteq Edge
           /\ ToSet(f.loops) \subseteq Loop
<1>1. f.vertices \in Seq(Vertex) /\ f.edges \in Seq(Edge) /\ f.loops \in Seq(Loop)
  BY DEF Forms
<1>2. \A S : \A s \in Seq(S) : ToSet(s) \subseteq S
  BY DEF ToSet
<1>3. QED  BY <1>1, <1>2

(* An id found nowhere before is still the id of one thing when written.   *)
LEMMA OneOfEachMore ==
    ASSUME NEW S, NEW s \in Seq(S), NEW x \in S, OneOfEach(s), x.id \notin IdsOf(s)
    PROVE  OneOfEach(Append(s, x))
<1>1. \A i \in DOMAIN s : s[i].id # x.id
  BY DEF IdsOf, ToSet
<1>2. \A i \in DOMAIN Append(s, x) : i \in DOMAIN s \/ i = Len(s) + 1
  OBVIOUS
<1>3. QED  BY <1>1, <1>2, ToSetFacts DEF OneOfEach

(* What an id names is found by it. *)
LEMMA FoundById ==
    ASSUME NEW f \in Forms, Loads(f)
    PROVE  /\ \A e \in ToSet(f.edges) : EndsOf(f, e.id) = e.ends
           /\ \A v \in ToSet(f.vertices) : PlaceOf(f, v.id) = v.at
<1>1. ASSUME NEW e \in ToSet(f.edges) PROVE EndsOf(f, e.id) = e.ends
  <2>1. \A d \in ToSet(f.edges) : d.id = e.id => d = e
    BY DEF Loads, OneOfEach, ToSet
  <2>2. QED  BY <2>1 DEF EndsOf
<1>2. ASSUME NEW v \in ToSet(f.vertices) PROVE PlaceOf(f, v.id) = v.at
  <2>1. \A d \in ToSet(f.vertices) : d.id = v.id => d = v
    BY DEF Loads, OneOfEach, ToSet
  <2>2. QED  BY <2>1 DEF PlaceOf
<1>3. QED  BY <1>1, <1>2
-----------------------------------------------------------------------------
(* Where everything which was there still is, a loop which went round its  *)
(* corners still does.                                                     *)
LEMMA StillGoesRound ==
    ASSUME NEW f \in Forms, NEW g \in Forms, Loads(f), Loads(g),
           ToSet(f.vertices) \subseteq ToSet(g.vertices),
           ToSet(f.edges) \subseteq ToSet(g.edges),
           NEW l \in ToSet(f.loops), GoesRound(f, l)
    PROVE  GoesRound(g, l)
<1> DEFINE n == Len(l.corners)
<1>1. l \in Loop /\ n \in Nat
  BY FormFields DEF Loop
<1>2. Len(l.edges) = n
  BY DEF GoesRound
<1>3. \A i \in 1..n : /\ \E e \in ToSet(f.edges) : e.id = l.edges[i]
                      /\ EndsOf(g, l.edges[i]) = EndsOf(f, l.edges[i])
  <2> TAKE i \in 1..n
  <2>1. l.edges[i] \in ToSet(l.edges)
    BY <1>1, <1>2 DEF ToSet, Loop
  <2>2. PICK e \in ToSet(f.edges) : e.id = l.edges[i]
    BY <2>1 DEF Loads, IdsOf
  <2>3. QED  BY <2>2, FoundById
<1>4. ASSUME NEW i \in 1..n, NEW k \in {1, 2}
      PROVE  PlaceOf(g, EndsOf(f, l.edges[i])[k]) = PlaceOf(f, EndsOf(f, l.edges[i])[k])
  <2>1. PICK e \in ToSet(f.edges) : e.id = l.edges[i]
    BY <1>3
  <2>2. EndsOf(f, l.edges[i]) = e.ends
    BY <2>1, FoundById
  <2>3. PICK v \in ToSet(f.vertices) : v.id = e.ends[k]
    BY DEF Loads, IdsOf
  <2>4. QED  BY <2>2, <2>3, FoundById
<1>5. PICK ways \in [1..n -> {1, 2}] :
          /\ \A i \in 1..n :
                /\ EndsOf(f, l.edges[i])[3 - ways[i]]
                      = EndsOf(f, l.edges[NextOf(i, n)])[ways[NextOf(i, n)]]
                /\ Near(PlaceOf(f, EndsOf(f, l.edges[i])[ways[i]]), l.corners[i])
          /\ \A i, j \in 1..n :
                EndsOf(f, l.edges[i])[ways[i]] = EndsOf(f, l.edges[j])[ways[j]] => i = j
  BY DEF GoesRound
<1>6. \A i \in 1..n : NextOf(i, n) \in 1..n
  BY <1>1 DEF NextOf
<1>7. /\ \A i \in 1..n :
            /\ EndsOf(g, l.edges[i])[3 - ways[i]]
                  = EndsOf(g, l.edges[NextOf(i, n)])[ways[NextOf(i, n)]]
            /\ Near(PlaceOf(g, EndsOf(g, l.edges[i])[ways[i]]), l.corners[i])
      /\ \A i, j \in 1..n :
            EndsOf(g, l.edges[i])[ways[i]] = EndsOf(g, l.edges[j])[ways[j]] => i = j
  <2>1. ASSUME NEW i \in 1..n
        PROVE  /\ EndsOf(g, l.edges[i])[3 - ways[i]]
                     = EndsOf(g, l.edges[NextOf(i, n)])[ways[NextOf(i, n)]]
               /\ Near(PlaceOf(g, EndsOf(g, l.edges[i])[ways[i]]), l.corners[i])
    <3>1. ways[i] \in {1, 2} /\ NextOf(i, n) \in 1..n
      BY <1>5, <1>6
    <3>2. /\ EndsOf(g, l.edges[i]) = EndsOf(f, l.edges[i])
          /\ EndsOf(g, l.edges[NextOf(i, n)]) = EndsOf(f, l.edges[NextOf(i, n)])
      BY <1>3, <3>1
    <3>3. PlaceOf(g, EndsOf(f, l.edges[i])[ways[i]]) = PlaceOf(f, EndsOf(f, l.edges[i])[ways[i]])
      BY <1>4, <3>1
    <3>4. QED  BY <1>5, <3>2, <3>3
  <2>2. ASSUME NEW i \in 1..n, NEW j \in 1..n,
               EndsOf(g, l.edges[i])[ways[i]] = EndsOf(g, l.edges[j])[ways[j]]
        PROVE  i = j
    BY <1>3, <1>5, <2>2
  <2>3. QED  BY <2>1, <2>2
<1>8. QED  BY <1>2, <1>5, <1>7 DEF GoesRound
-----------------------------------------------------------------------------
(* One form more, of each family. *)
LEMMA OneVertexMore ==
    ASSUME NEW f \in Forms, Sound(f), NEW v \in Vertex, v.id \notin Held(f),
           \A u \in ToSet(f.vertices) : v.by.snap /\ Near(u.at, v.at)
               => u.by.batch = v.by.batch /\ u.by.done # v.by.done
    PROVE  /\ [f EXCEPT !.vertices = Append(@, v)] \in Forms
           /\ Sound([f EXCEPT !.vertices = Append(@, v)])
<1> DEFINE g == [f EXCEPT !.vertices = Append(@, v)]
<1>1. f.vertices \in Seq(Vertex) /\ f.edges \in Seq(Edge) /\ f.loops \in Seq(Loop)
  BY FormFields
<1>2. /\ g.vertices = Append(f.vertices, v) /\ g.edges = f.edges /\ g.loops = f.loops
      /\ g \in Forms
  BY <1>1, ToSetFacts DEF Forms
<1>3. /\ ToSet(g.vertices) = ToSet(f.vertices) \cup {v}
      /\ IdsOf(g.vertices) = IdsOf(f.vertices) \cup {v.id}
  BY <1>1, <1>2, ToSetFacts
<1> HIDE DEF g
<1>4. Loads(g)
  <2>1. OneOfEach(g.vertices)
    BY <1>1, <1>2, OneOfEachMore DEF Sound, Loads, Held
  <2>2. QED  BY <1>2, <1>3, <2>1 DEF Sound, Loads, Held
<1>5. OneWallEach(g)
  BY <1>2 DEF Sound, OneWallEach
<1>6. RoomsAreAsAsked(g)
  BY <1>2, <1>3, <1>4, StillGoesRound DEF Sound, RoomsAreAsAsked
<1>7. NoSlivers(g)
  <2> SUFFICES ASSUME NEW i \in DOMAIN g.vertices, NEW j \in DOMAIN g.vertices, i < j,
                      g.vertices[j].by.snap, Near(g.vertices[i].at, g.vertices[j].at)
               PROVE  /\ g.vertices[i].by.batch = g.vertices[j].by.batch
                      /\ g.vertices[i].by.done # g.vertices[j].by.done
    BY DEF NoSlivers
  <2>1. /\ DOMAIN g.vertices = 1..(Len(f.vertices) + 1) /\ DOMAIN f.vertices = 1..Len(f.vertices)
        /\ Len(f.vertices) \in Nat
    BY <1>1, <1>2, ToSetFacts
  <2>2. i \in DOMAIN f.vertices /\ g.vertices[i] = f.vertices[i]
    BY <1>1, <1>2, <2>1, ToSetFacts
  <2>3. CASE j \in DOMAIN f.vertices
    <3>1. g.vertices[j] = f.vertices[j]
      BY <1>1, <1>2, <2>3, ToSetFacts
    <3>2. QED  BY <2>2, <2>3, <3>1 DEF Sound, NoSlivers
  <2>4. CASE j = Len(f.vertices) + 1
    <3>1. g.vertices[j] = v
      BY <1>1, <1>2, <2>4, ToSetFacts
    <3>2. f.vertices[i] \in ToSet(f.vertices)
      BY <2>2 DEF ToSet
    <3>3. QED  BY <2>2, <3>1, <3>2
  <2>5. QED  BY <2>1, <2>3, <2>4
<1>8. QED  BY <1>2, <1>4, <1>5, <1>6, <1>7 DEF Sound, g

LEMMA OneEdgeMore ==
    ASSUME NEW f \in Forms, Sound(f), NEW e \in Edge, e.id \notin Held(f),
           e.ends[1] # e.ends[2], {e.ends[1], e.ends[2]} \subseteq IdsOf(f.vertices),
           \A d \in ToSet(f.edges) : e.scaffolded =>
               d.ends \notin {e.ends, <<e.ends[2], e.ends[1]>>}
    PROVE  /\ [f EXCEPT !.edges = Append(@, e)] \in Forms
           /\ Sound([f EXCEPT !.edges = Append(@, e)])
<1> DEFINE g == [f EXCEPT !.edges = Append(@, e)]
<1>1. f.vertices \in Seq(Vertex) /\ f.edges \in Seq(Edge) /\ f.loops \in Seq(Loop)
  BY FormFields
<1>2. /\ g.edges = Append(f.edges, e) /\ g.vertices = f.vertices /\ g.loops = f.loops
      /\ g \in Forms
  BY <1>1, ToSetFacts DEF Forms
<1>3. /\ ToSet(g.edges) = ToSet(f.edges) \cup {e}
      /\ IdsOf(g.edges) = IdsOf(f.edges) \cup {e.id}
  BY <1>1, <1>2, ToSetFacts
<1> HIDE DEF g
<1>4. Loads(g)
  <2>1. OneOfEach(g.edges)
    BY <1>1, <1>2, OneOfEachMore DEF Sound, Loads, Held
  <2>2. QED  BY <1>2, <1>3, <2>1 DEF Sound, Loads, Held
<1>5. OneWallEach(g)
  <2> SUFFICES ASSUME NEW i \in DOMAIN g.edges, NEW j \in DOMAIN g.edges, i < j,
                      g.edges[j].scaffolded
               PROVE  g.edges[i].ends \notin
                          {g.edges[j].ends, <<g.edges[j].ends[2], g.edges[j].ends[1]>>}
    BY DEF OneWallEach
  <2>1. /\ DOMAIN g.edges = 1..(Len(f.edges) + 1) /\ DOMAIN f.edges = 1..Len(f.edges)
        /\ Len(f.edges) \in Nat
    BY <1>1, <1>2, ToSetFacts
  <2>2. i \in DOMAIN f.edges /\ g.edges[i] = f.edges[i]
    BY <1>1, <1>2, <2>1, ToSetFacts
  <2>3. CASE j \in DOMAIN f.edges
    <3>1. g.edges[j] = f.edges[j]
      BY <1>1, <1>2, <2>3, ToSetFacts
    <3>2. QED  BY <2>2, <2>3, <3>1 DEF Sound, OneWallEach
  <2>4. CASE j = Len(f.edges) + 1
    <3>1. g.edges[j] = e
      BY <1>1, <1>2, <2>4, ToSetFacts
    <3>2. f.edges[i] \in ToSet(f.edges)
      BY <2>2 DEF ToSet
    <3>3. QED  BY <2>2, <3>1, <3>2
  <2>5. QED  BY <2>1, <2>3, <2>4
<1>6. RoomsAreAsAsked(g)
  BY <1>2, <1>3, <1>4, StillGoesRound DEF Sound, RoomsAreAsAsked
<1>7. NoSlivers(g)
  BY <1>2 DEF Sound, NoSlivers
<1>8. QED  BY <1>2, <1>4, <1>5, <1>6, <1>7 DEF Sound, g

LEMMA OneLoopMore ==
    ASSUME NEW f \in Forms, Sound(f), NEW l \in Loop, l.id \notin Held(f),
           ToSet(l.edges) \subseteq IdsOf(f.edges),
           l.corners # <<>> => GoesRound(f, l)
    PROVE  /\ [f EXCEPT !.loops = Append(@, l)] \in Forms
           /\ Sound([f EXCEPT !.loops = Append(@, l)])
<1> DEFINE g == [f EXCEPT !.loops = Append(@, l)]
<1>1. f.vertices \in Seq(Vertex) /\ f.edges \in Seq(Edge) /\ f.loops \in Seq(Loop)
  BY FormFields
<1>2. /\ g.loops = Append(f.loops, l) /\ g.vertices = f.vertices /\ g.edges = f.edges
      /\ g \in Forms
  BY <1>1, ToSetFacts DEF Forms
<1>3. /\ ToSet(g.loops) = ToSet(f.loops) \cup {l}
      /\ IdsOf(g.loops) = IdsOf(f.loops) \cup {l.id}
  BY <1>1, <1>2, ToSetFacts
<1> HIDE DEF g
<1>4. Loads(g)
  <2>1. OneOfEach(g.loops)
    BY <1>1, <1>2, OneOfEachMore DEF Sound, Loads, Held
  <2>2. QED  BY <1>2, <1>3, <2>1 DEF Sound, Loads, Held
<1>5. OneWallEach(g)
  BY <1>2 DEF Sound, OneWallEach
<1>6. \A k : GoesRound(g, k) = GoesRound(f, k)
  BY <1>2 DEF GoesRound, EndsOf, PlaceOf
<1>7. RoomsAreAsAsked(g)
  BY <1>3, <1>6 DEF Sound, RoomsAreAsAsked
<1>8. NoSlivers(g)
  BY <1>2 DEF Sound, NoSlivers
<1>9. QED  BY <1>2, <1>4, <1>5, <1>7, <1>8 DEF Sound, g

(* A loop drawn again is by hand, over edges there are. *)
LEMMA OneLoopAgain ==
    ASSUME NEW f \in Forms, Sound(f), NEW id, NEW edges \in Seq(Nat),
           ToSet(edges) \subseteq IdsOf(f.edges),
           NEW g, g = [f EXCEPT !.loops = [i \in DOMAIN @ |-> Redrawn(@[i], id, edges)]]
    PROVE  g \in Forms /\ Sound(g)
<1>1. f.vertices \in Seq(Vertex) /\ f.edges \in Seq(Edge) /\ f.loops \in Seq(Loop)
  BY FormFields
<1>2. /\ g.loops = [i \in DOMAIN f.loops |-> Redrawn(f.loops[i], id, edges)]
      /\ g.vertices = f.vertices /\ g.edges = f.edges
  BY <1>1 DEF Forms
<1>3. \A k \in Loop : /\ Redrawn(k, id, edges) \in Loop /\ Redrawn(k, id, edges).id = k.id
                      /\ \/ Redrawn(k, id, edges) = k
                         \/ Redrawn(k, id, edges).edges = edges /\ Redrawn(k, id, edges).corners = <<>>
  BY DEF Loop, Redrawn
<1>4. g.loops \in Seq(Loop) /\ g \in Forms
  <2>1. \A i \in 1..Len(f.loops) : Redrawn(f.loops[i], id, edges) \in Loop
    BY <1>1, <1>3
  <2>2. g.loops \in [1..Len(f.loops) -> Loop] /\ Len(f.loops) \in Nat
    BY <1>1, <1>2, <2>1
  <2>3. g = [vertices |-> g.vertices, edges |-> g.edges, loops |-> g.loops]
    BY DEF Forms
  <2>4. ASSUME NEW n \in Nat, NEW s \in [1..n -> Loop] PROVE s \in Seq(Loop)
    OBVIOUS
  <2>5. g.loops \in Seq(Loop)
    BY <2>2, <2>4, Zenon
  <2>6. g.vertices \in Seq(Vertex) /\ g.edges \in Seq(Edge)
    BY <1>1, <1>2
  <2>7. \A v \in Seq(Vertex), e \in Seq(Edge), l \in Seq(Loop) :
            [vertices |-> v, edges |-> e, loops |-> l] \in Forms
    BY DEF Forms
  <2>8. QED  BY <2>3, <2>5, <2>6, <2>7
<1>5. \A i \in DOMAIN g.loops : /\ i \in DOMAIN f.loops /\ f.loops[i] \in Loop
                               /\ f.loops[i] \in ToSet(f.loops)
                               /\ g.loops[i] = Redrawn(f.loops[i], id, edges) /\ g.loops[i].id = f.loops[i].id
  BY <1>1, <1>2, <1>3 DEF ToSet
<1>6. IdsOf(g.loops) \subseteq IdsOf(f.loops) /\ OneOfEach(g.loops)
  <2>1. OneOfEach(g.loops)
    <3> SUFFICES ASSUME NEW i \in DOMAIN g.loops, NEW j \in DOMAIN g.loops,
                        g.loops[i].id = g.loops[j].id
                 PROVE  i = j
      BY DEF OneOfEach
    <3>1. /\ i \in DOMAIN f.loops /\ j \in DOMAIN f.loops
          /\ f.loops[i].id = f.loops[j].id
      BY <1>5
    <3>2. QED  BY <3>1 DEF Sound, Loads, OneOfEach
  <2>2. ASSUME NEW k \in ToSet(g.loops) PROVE \E d \in ToSet(f.loops) : d.id = k.id
    <3>1. PICK i \in DOMAIN g.loops : k = g.loops[i]
      BY DEF ToSet
    <3>2. QED  BY <1>5, <3>1
  <2>3. QED  BY <2>1, <2>2 DEF IdsOf
<1>7. ASSUME NEW k \in ToSet(g.loops)
      PROVE  k \in ToSet(f.loops) \/ (k.edges = edges /\ k.corners = <<>>)
  <2>1. PICK i \in DOMAIN g.loops : k = g.loops[i]
    BY DEF ToSet
  <2>2. QED  BY <1>3, <1>5, <2>1
<1>8. Loads(g)
  BY <1>2, <1>6, <1>7 DEF Sound, Loads
<1>9. \A k : GoesRound(g, k) = GoesRound(f, k)
  BY <1>2 DEF GoesRound, EndsOf, PlaceOf
<1>10. RoomsAreAsAsked(g)
  BY <1>7, <1>9 DEF Sound, RoomsAreAsAsked
<1>11. OneWallEach(g) /\ NoSlivers(g)
  BY <1>2 DEF Sound, OneWallEach, NoSlivers
<1>12. QED  BY <1>4, <1>8, <1>10, <1>11 DEF Sound
-----------------------------------------------------------------------------
LEMMA NothingDrawn == NoForms \in Forms /\ Sound(NoForms)
<1>1. NoForms \in Forms
  BY DEF NoForms, Forms
<1>2. /\ ToSet(NoForms.vertices) = {} /\ ToSet(NoForms.edges) = {} /\ ToSet(NoForms.loops) = {}
      /\ DOMAIN NoForms.vertices = {} /\ DOMAIN NoForms.edges = {} /\ DOMAIN NoForms.loops = {}
  BY DEF NoForms, ToSet
<1>3. QED
  BY <1>1, <1>2 DEF Sound, Loads, OneWallEach, RoomsAreAsAsked, NoSlivers, IdsOf, OneOfEach

LEMMA NothingScaffolded == NoScaffold \in Scaffolding /\ Len(NoScaffold.vertices) = Len(NoScaffold.read)
BY DEF NoScaffold, Scaffolder, Scaffolding

LEMMA DrawingBegins == ASSUME DrawingConstants, DrawingInit PROVE DrawingInv
<1>1. DrawingTypeOK
  BY NothingDrawn, NothingScaffolded DEF DrawingInit, DrawingConstants, DrawingTypeOK, run
<1>2. WallsAreShared
  BY NothingDrawn DEF DrawingInit, DrawingConstants, WallsAreShared
<1>3. RunInv
  BY DEF DrawingInit, RunInv
<1>4. QED  BY <1>1, <1>2, <1>3 DEF DrawingInv

(* A batch which ends leaves the model, or makes it what it wrote. *)
LEMMA BatchesEnd ==
    ASSUME DrawingInv, Release, graph' \in Forms, Sound(graph') PROVE DrawingInv'
<1>1. DrawingTypeOK'
  BY NothingDrawn, NothingScaffolded DEF DrawingInv, DrawingTypeOK, Release, run
<1>2. WallsAreShared'
  BY NothingDrawn DEF Release, WallsAreShared
<1>3. RunInv'
  BY DEF Release, RunInv, DrawingInv, DrawingTypeOK
<1>4. QED  BY <1>1, <1>2, <1>3 DEF DrawingInv

LEMMA BeginStep == ASSUME DrawingConstants, DrawingInv, BeginDrawing PROVE DrawingInv'
<1>1. DrawingTypeOK'
  <2>1. batch.number + 1 \in 0..MaxBatches
    BY DEF DrawingInv, DrawingTypeOK, BeginDrawing, DrawingConstants
  <2>2. batch' = [number |-> batch.number + 1, done |-> batch.done, phase |-> "open",
                  run |-> batch.run]
    BY DEF DrawingInv, DrawingTypeOK, BeginDrawing
  <2>3. QED  BY <2>1, <2>2 DEF DrawingInv, DrawingTypeOK, BeginDrawing, run
<1>2. WallsAreShared'
  BY DEF DrawingInv, WallsAreShared, BeginDrawing
<1>3. RunInv'
  BY DEF BeginDrawing, RunInv, DrawingInv, DrawingTypeOK, Earlier
<1>4. QED  BY <1>1, <1>2, <1>3 DEF DrawingInv

LEMMA EndSteps == DrawingInv /\ (Close \/ Commit \/ Refuses) => DrawingInv'
BY BatchesEnd DEF Close, Commit, Refuses, Settling, DrawingInv, DrawingTypeOK, WallsAreShared
-----------------------------------------------------------------------------
(* What an operation by hand leaves: a sound model, the vertices there     *)
(* were, and perhaps one of this operation.                                *)
LEMMA HandLeaves ==
    ASSUME DrawingConstants, DrawingInv, Operation, Done, forms' \in Forms, Sound(forms'),
           \/ forms'.vertices = forms.vertices
           \/ \E v \in Vertex : /\ v.by = By(FALSE)
                                /\ forms'.vertices = Append(forms.vertices, v)
    PROVE  DrawingInv'
<1>1. DrawingTypeOK'
  <2>1. batch.done + 1 \in 0..MaxOperations
    BY DEF DrawingInv, DrawingTypeOK, Operation, DrawingConstants
  <2>2. batch' = [number |-> batch.number, done |-> batch.done + 1, phase |-> batch.phase,
                  run |-> batch.run]
    BY DEF DrawingInv, DrawingTypeOK, Done
  <2>3. QED  BY <2>1, <2>2 DEF DrawingInv, DrawingTypeOK, Operation, run
<1>2. WallsAreShared'
  BY DEF DrawingInv, WallsAreShared, Operation
<1>3. RunInv'
  <2>1. /\ batch'.number = batch.number /\ batch'.done = batch.done + 1
        /\ batch'.phase = "open" /\ batch.phase = "open" /\ batch.done \in Nat /\ graph' = graph
    BY DEF DrawingInv, DrawingTypeOK, Operation, Done
  <2>2. /\ ToSet(forms.vertices) \subseteq ToSet(forms'.vertices)
        /\ \A v \in ToSet(forms'.vertices) :
              v \in ToSet(forms.vertices) \/ v.by = By(FALSE)
    <3>1. forms.vertices \in Seq(Vertex)
      BY FormFields DEF DrawingInv, DrawingTypeOK
    <3>2. CASE forms'.vertices = forms.vertices
      BY <3>2
    <3>3. ASSUME NEW v \in Vertex, v.by = By(FALSE), forms'.vertices = Append(forms.vertices, v)
          PROVE  ToSet(forms'.vertices) = ToSet(forms.vertices) \cup {v}
      BY <3>1, <3>3, ToSetFacts
    <3>4. QED  BY <3>2, <3>3
  <2>3. \A v \in ToSet(forms.vertices) : v.by.done \in Nat
    BY FormFields DEF DrawingInv, DrawingTypeOK, Vertex
  <2>4. Earlier'
    BY <2>1, <2>2, <2>3 DEF Earlier, RunInv, DrawingInv, By
  <2>5. QED  BY <2>1, <2>2, <2>4 DEF RunInv, DrawingInv
<1>4. QED  BY <1>1, <1>2, <1>3 DEF DrawingInv

LEMMA HandSteps == ASSUME DrawingConstants, DrawingInv, ByHand PROVE DrawingInv'
<1>1. forms \in Forms /\ Sound(forms) /\ ChosenIds \subseteq Nat
  BY DEF DrawingInv, DrawingTypeOK, WallsAreShared, DrawingConstants
<1>2. /\ IdsOf(forms.vertices) \subseteq Nat /\ IdsOf(forms.edges) \subseteq Nat
      /\ IdsOf(forms.loops) \subseteq Nat
  <2>1. /\ \A v \in Vertex : v.id \in Nat
        /\ \A e \in Edge : e.id \in Nat
        /\ \A l \in Loop : l.id \in Nat
    BY DEF Vertex, Edge, Loop
  <2>2. QED  BY <1>1, <2>1, FormFields DEF IdsOf
<1>3. ASSUME NEW id \in ChosenIds, NEW at \in Point \cup {NoPoint}, AddVertex(id, at)
      PROVE  DrawingInv'
  <2> DEFINE v == [id |-> id, at |-> at, by |-> By(FALSE)]
  <2>1. v \in Vertex /\ ~v.by.snap /\ v.id \notin Held(forms)
    BY <1>1, <1>3 DEF AddVertex, Unheld, Vertex, By, DrawingInv, DrawingTypeOK
  <2>2. forms' = [forms EXCEPT !.vertices = Append(@, v)]
    BY <1>3 DEF AddVertex, Insert
  <2>3. forms'.vertices = Append(forms.vertices, v)
    BY <1>1, <2>2 DEF Forms
  <2>4. v.by = By(FALSE)
    OBVIOUS
  <2> HIDE DEF v
  <2>5. forms' \in Forms /\ Sound(forms')
    BY <1>1, <2>1, <2>2, OneVertexMore
  <2>6. QED  BY <1>3, <2>1, <2>3, <2>4, <2>5, HandLeaves DEF AddVertex
<1>4. ASSUME NEW id \in ChosenIds, NEW v \in IdsOf(forms.vertices), NEW w \in IdsOf(forms.vertices),
             AddEdge(id, v, w)
      PROVE  DrawingInv'
  <2> DEFINE e == [id |-> id, ends |-> <<v, w>>, scaffolded |-> FALSE]
  <2>1. /\ e \in Edge /\ ~e.scaffolded /\ e.id \notin Held(forms)
        /\ e.ends[1] # e.ends[2] /\ {e.ends[1], e.ends[2]} \subseteq IdsOf(forms.vertices)
    BY <1>1, <1>2, <1>4 DEF AddEdge, Unheld, Edge
  <2>2. forms' = [forms EXCEPT !.edges = Append(@, e)]
    BY <1>4 DEF AddEdge, Insert
  <2>3. forms'.vertices = forms.vertices
    BY <1>1, <2>2 DEF Forms
  <2> HIDE DEF e
  <2>4. forms' \in Forms /\ Sound(forms')
    BY <1>1, <2>1, <2>2, OneEdgeMore
  <2>5. QED  BY <1>4, <2>3, <2>4, HandLeaves DEF AddEdge
<1>5. ASSUME NEW id \in ChosenIds, NEW e \in IdsOf(forms.edges), NEW f \in IdsOf(forms.edges),
             AddLoop(id, <<e, f>>)
      PROVE  DrawingInv'
  <2> DEFINE l == [id |-> id, edges |-> <<e, f>>, corners |-> <<>>]
  <2>1. /\ l \in Loop /\ l.corners = <<>> /\ l.id \notin Held(forms)
        /\ ToSet(l.edges) \subseteq IdsOf(forms.edges)
    BY <1>1, <1>2, <1>5 DEF AddLoop, Unheld, Loop
  <2>2. forms' = [forms EXCEPT !.loops = Append(@, l)]
    BY <1>5 DEF AddLoop, Insert
  <2>3. forms'.vertices = forms.vertices
    BY <1>1, <2>2 DEF Forms
  <2> HIDE DEF l
  <2>4. forms' \in Forms /\ Sound(forms')
    BY <1>1, <2>1, <2>2, OneLoopMore
  <2>5. QED  BY <1>5, <2>3, <2>4, HandLeaves DEF AddLoop
<1>6. ASSUME NEW id \in IdsOf(forms.loops), NEW e \in IdsOf(forms.edges), NEW f \in IdsOf(forms.edges),
             SetEdges(id, <<e, f>>)
      PROVE  DrawingInv'
  <2>1. <<e, f>> \in Seq(Nat) /\ ToSet(<<e, f>>) \subseteq IdsOf(forms.edges)
    BY <1>2, <1>6 DEF SetEdges
  <2>2. forms' = [forms EXCEPT !.loops = [i \in DOMAIN @ |-> Redrawn(@[i], id, <<e, f>>)]]
    BY <1>6 DEF SetEdges
  <2>3. forms'.vertices = forms.vertices
    BY <1>1, <2>2 DEF Forms
  <2>4. forms' \in Forms /\ Sound(forms')
    BY <1>1, <2>1, <2>2, OneLoopAgain
  <2>5. QED  BY <1>6, <2>3, <2>4, HandLeaves DEF SetEdges
<1>7. QED  BY <1>3, <1>4, <1>5, <1>6 DEF ByHand
-----------------------------------------------------------------------------
LEMMA ScaffoldStep ==
    ASSUME DrawingConstants, DrawingInv, NEW corners \in Rooms, NEW snap \in BOOLEAN,
           Scaffold(corners, snap)
    PROVE  DrawingInv'
<1> DEFINE started == Scaffolder(corners, snap, graph.vertices)
<1>1. corners \in Seq(Point \cup {NoPoint}) /\ graph.vertices \in Seq(Vertex)
  BY FormFields DEF DrawingConstants, DrawingInv, DrawingTypeOK
<1>2. /\ started.corners = corners /\ started.index = graph.vertices
      /\ started.read = <<>> /\ started.vertices = <<>> /\ started.edges = <<>>
      /\ started \in Scaffolding
  <2>1. <<>> \in Seq(Point) /\ <<>> \in Seq(Nat)
    OBVIOUS
  <2>2. QED  BY <1>1, <2>1 DEF Scaffolder, Scaffolding
<1> HIDE DEF started
<1>3. batch' = [number |-> batch.number, done |-> batch.done, phase |-> "corners", run |-> started]
  BY DEF DrawingInv, DrawingTypeOK, Scaffold, started
<1>4. /\ run' = started /\ forms' = forms /\ graph' = graph /\ batch.phase = "open"
      /\ Len(corners) >= 4
  <2>1. run' = started
    BY <1>3 DEF run
  <2>2. QED  BY <2>1 DEF Scaffold, Operation
<1>5. DrawingTypeOK'
  BY <1>2, <1>3, <1>4 DEF DrawingInv, DrawingTypeOK
<1>6. WallsAreShared'
  BY <1>4 DEF DrawingInv, WallsAreShared
<1>7. Settled'
  <2>1. Corners' = Len(corners) - 1 /\ Len(corners) \in Nat
    BY <1>1, <1>2, <1>4 DEF Corners
  <2>2. Len(<<>>) = 0 /\ DOMAIN <<>> = {}
    OBVIOUS
  <2>3. QED  BY <1>2, <1>4, <2>1, <2>2 DEF Settled
<1>8. Indexed'
  BY <1>2, <1>3, <1>4 DEF Indexed, DrawingInv, RunInv, Earlier
<1>9. Grown' /\ batch'.done < MaxOperations
  <2>1. batch'.number = batch.number /\ batch'.done = batch.done
    BY <1>3
  <2>2. batch.done < MaxOperations /\ Earlier /\ ToSet(graph.vertices) \subseteq ToSet(forms.vertices)
    BY <1>4 DEF Scaffold, Operation, DrawingInv, RunInv
  <2>3. \A v \in ToSet(forms.vertices) : v.by.done \in Nat
    <3>1. ToSet(forms.vertices) \subseteq Vertex
      BY FormFields DEF DrawingInv, DrawingTypeOK
    <3>2. \A v \in Vertex : v.by.done \in Nat
      BY DEF Vertex
    <3>3. QED  BY <3>1, <3>2
  <2>4. batch.done \in Nat
    BY DEF DrawingInv, DrawingTypeOK
  <2>5. QED  BY <1>4, <2>1, <2>2, <2>3, <2>4 DEF Grown, Earlier
<1>10. QED  BY <1>3, <1>5, <1>6, <1>7, <1>8, <1>9 DEF DrawingInv, RunInv

LEMMA MintedIs ==
    ASSUME DrawingTypeOK, NEW id \in Minted PROVE id \in Nat /\ id \notin Held(forms)
<1>1. Len(forms.vertices) + Len(forms.edges) + Len(forms.loops) \in Nat
  <2>1. /\ forms.vertices \in Seq(Vertex) /\ forms.edges \in Seq(Edge)
        /\ forms.loops \in Seq(Loop)
    BY FormFields DEF DrawingTypeOK
  <2>2. Len(forms.vertices) \in Nat /\ Len(forms.edges) \in Nat /\ Len(forms.loops) \in Nat
    BY <2>1
  <2>3. \A a, b, c \in Nat : a + b + c \in Nat
    OBVIOUS
  <2>4. QED  BY <2>2, <2>3
<1>2. /\ id \in 1..(Len(forms.vertices) + Len(forms.edges) + Len(forms.loops) + 1)
      /\ Unheld(id)
  BY DEF Minted
<1>3. QED  BY <1>1, <1>2 DEF Unheld

(* The facts of a scaffold's state, for the steps which add to it. *)
LEMMA RunFacts ==
    ASSUME DrawingInv, batch.phase = "corners"
    PROVE  /\ Settled /\ Indexed /\ Grown /\ batch.done < MaxOperations /\ forms \in Forms /\ Sound(forms)
           /\ run.corners \in Seq(Point \cup {NoPoint}) /\ run.snap \in BOOLEAN
           /\ run.index \in Seq(Vertex) /\ run.read \in Seq(Point)
           /\ run.vertices \in Seq(Nat) /\ run.edges \in Seq(Nat)
           /\ Len(run.vertices) = Len(run.read)
           /\ Corners \in Nat /\ Corners >= 3 /\ Corners < Len(run.corners)
<1>1. run \in Scaffolding
  BY DEF DrawingInv, DrawingTypeOK, run
<1>2. Settled /\ Indexed /\ Grown /\ batch.done < MaxOperations
  BY DEF DrawingInv, RunInv
<1>3. run.corners \in Seq(Point \cup {NoPoint}) /\ Len(run.corners) \in Nat
  BY <1>1 DEF Scaffolding
<1>4. Corners \in Nat /\ Corners >= 3 /\ Corners < Len(run.corners)
  BY <1>2, <1>3 DEF Settled, Corners
<1>5. QED  BY <1>1, <1>2, <1>4 DEF DrawingInv, DrawingTypeOK, WallsAreShared, Scaffolding

(* A corner which is settled on a vertex near it, of its own. *)
LEMMA CornerSettles ==
    ASSUME DrawingInv, Settles, NEW vertex \in Nat, NEW index \in Seq(Vertex),
           At(vertex, index), forms' \in Forms, Sound(forms'),
           ToSet(forms.vertices) \subseteq ToSet(forms'.vertices),
           vertex \notin ToSet(run.vertices),
           \E v \in ToSet(forms'.vertices) : v.id = vertex /\ Near(v.at, NextCorner),
           ToSet(index) \subseteq ToSet(forms'.vertices),
           \A v \in ToSet(forms'.vertices) :
               v \in ToSet(index) \/ (v.by.batch = batch.number /\ v.by.done < batch.done),
           \A v \in ToSet(forms'.vertices) : v \in ToSet(forms.vertices) \/ v.by = By(run.snap)
    PROVE  DrawingInv'
<1>1. /\ batch.phase = "corners" /\ Len(run.read) < Corners /\ graph' = graph
      /\ NextCorner # NoPoint
  BY DEF Settles, Settling
<1>2. /\ run.corners \in Seq(Point \cup {NoPoint}) /\ run.snap \in BOOLEAN
      /\ run.index \in Seq(Vertex) /\ run.read \in Seq(Point)
      /\ run.vertices \in Seq(Nat) /\ run.edges \in Seq(Nat)
      /\ Len(run.vertices) = Len(run.read)
      /\ Corners \in Nat /\ Corners >= 3 /\ Corners < Len(run.corners) /\ Settled
  BY <1>1, RunFacts
<1>3. NextCorner \in Point
  <2>1. Len(run.read) + 1 \in DOMAIN run.corners
    BY <1>1, <1>2
  <2>2. QED  BY <1>1, <1>2, <2>1 DEF NextCorner
<1> DEFINE next == [corners |-> run.corners, snap |-> run.snap, index |-> index,
                    read |-> Append(run.read, NextCorner),
                    vertices |-> Append(run.vertices, vertex), edges |-> run.edges]
<1>4. /\ batch' = [number |-> batch.number, done |-> batch.done, phase |-> "corners", run |-> next]
      /\ run' = next
  BY <1>1 DEF At, DrawingInv, DrawingTypeOK, Scaffolding, run
<1>5. next \in Scaffolding /\ Len(next.vertices) = Len(next.read)
  <2>1. /\ Append(run.read, NextCorner) \in Seq(Point) /\ Append(run.vertices, vertex) \in Seq(Nat)
        /\ Len(Append(run.read, NextCorner)) = Len(run.read) + 1
        /\ Len(Append(run.vertices, vertex)) = Len(run.vertices) + 1
    BY <1>2, <1>3, ToSetFacts
  <2>2. QED  BY <1>2, <2>1 DEF Scaffolding
<1>6. DrawingTypeOK'
  BY <1>1, <1>4, <1>5 DEF DrawingInv, DrawingTypeOK
<1>7. WallsAreShared'
  BY <1>1 DEF DrawingInv, WallsAreShared
<1>8. run.edges = <<>>
  BY <1>1, <1>2 DEF Settled
<1>9. Settled'
  <2>1. Corners' = Corners
    BY <1>4 DEF Corners
  <2>2. /\ DOMAIN run.read = 1..Len(run.read) /\ DOMAIN run.vertices = 1..Len(run.read)
        /\ DOMAIN next.read = 1..(Len(run.read) + 1) /\ DOMAIN next.vertices = 1..(Len(run.read) + 1)
        /\ Len(next.read) = Len(run.read) + 1
    BY <1>2, <1>3, ToSetFacts
  <2>3. \A i \in DOMAIN next.read : \E v \in ToSet(forms'.vertices) :
            v.id = next.vertices[i] /\ Near(v.at, next.read[i])
    <3> SUFFICES ASSUME NEW i \in DOMAIN next.read
                 PROVE  \E v \in ToSet(forms'.vertices) :
                            v.id = next.vertices[i] /\ Near(v.at, next.read[i])
      OBVIOUS
    <3>1. CASE i = Len(run.read) + 1
      <4>1. next.vertices[i] = vertex /\ next.read[i] = NextCorner
        BY <1>2, <1>3, <3>1
      <4>2. QED  BY <4>1
    <3>2. CASE i \in DOMAIN run.read
      <4>1. next.vertices[i] = run.vertices[i] /\ next.read[i] = run.read[i]
        BY <1>2, <1>3, <2>2, <3>2
      <4>2. QED  BY <1>2, <3>2, <4>1 DEF Settled
    <3>3. QED  BY <1>2, <2>2, <3>1, <3>2
  <2>4. \A i, j \in DOMAIN next.vertices : next.vertices[i] = next.vertices[j] => i = j
    <3>1. \A i \in DOMAIN run.vertices : /\ run.vertices[i] # vertex
                                         /\ next.vertices[i] = run.vertices[i]
      BY <1>2, <2>2 DEF ToSet
    <3>2. next.vertices[Len(run.read) + 1] = vertex
      BY <1>2
    <3>3. \A i \in DOMAIN next.vertices : i \in DOMAIN run.vertices \/ i = Len(run.read) + 1
      BY <1>2, <2>2
    <3> HIDE DEF next
    <3>4. QED  BY <1>2, <3>1, <3>2, <3>3 DEF Settled
  <2>5. Len(run.corners) >= 4 /\ Len(run.read) + 1 <= Corners
    BY <1>1, <1>2 DEF Settled
  <2>6. /\ run'.corners = run.corners /\ run'.read = next.read /\ run'.vertices = next.vertices
        /\ run'.edges = <<>>
    BY <1>4, <1>8
  <2>7. Len(<<>>) = 0 /\ DOMAIN <<>> = {}
    OBVIOUS
  <2> HIDE DEF next
  <2>8. /\ Len(run'.corners) >= 4 /\ Len(run'.read) <= Corners' /\ Len(run'.edges) <= Corners'
        /\ run'.edges # <<>> => Len(run'.read) = Corners' /\ DOMAIN run'.edges = {}
    BY <1>2, <2>1, <2>2, <2>5, <2>6, <2>7
  <2>9. QED  BY <2>3, <2>4, <2>6, <2>8 DEF Settled
<1>10. Indexed'
  BY <1>4 DEF Indexed
<1>11. Grown' /\ batch'.done < MaxOperations
  <2>1. batch'.number = batch.number /\ batch'.done = batch.done /\ batch.done \in Nat
    BY <1>4 DEF DrawingInv, DrawingTypeOK
  <2>2. Grown /\ batch.done < MaxOperations
    BY <1>1, RunFacts
  <2> HIDE DEF next
  <2>3. \A v \in ToSet(forms'.vertices) :
            v \in ToSet(forms.vertices) \/ (v.by.batch = batch.number /\ v.by.done <= batch.done)
    BY <2>1 DEF By
  <2>4. QED  BY <1>1, <2>1, <2>2, <2>3 DEF Grown
<1>12. QED  BY <1>4, <1>6, <1>7, <1>9, <1>10, <1>11 DEF DrawingInv, RunInv

(* Where the next corner is, and which ids its vertex cannot have. *)
LEMMA NextCornerFacts ==
    ASSUME DrawingInv, Settles
    PROVE  NextCorner \in Point /\ ToSet(run.vertices) \subseteq Held(forms)
<1>1. /\ batch.phase = "corners" /\ Len(run.read) < Corners /\ NextCorner # NoPoint
  BY DEF Settles, Settling
<1>2. /\ run.corners \in Seq(Point \cup {NoPoint}) /\ run.read \in Seq(Point)
      /\ run.vertices \in Seq(Nat) /\ Len(run.vertices) = Len(run.read)
      /\ Corners \in Nat /\ Corners < Len(run.corners) /\ Settled
  BY <1>1, RunFacts
<1>3. NextCorner \in Point
  <2>1. Len(run.read) + 1 \in DOMAIN run.corners
    BY <1>1, <1>2
  <2>2. QED  BY <1>1, <1>2, <2>1 DEF NextCorner
<1>4. DOMAIN run.vertices = DOMAIN run.read
  BY <1>2
<1>5. \A i \in DOMAIN run.vertices : run.vertices[i] \in IdsOf(forms.vertices)
  BY <1>2, <1>4 DEF Settled, IdsOf
<1>6. QED  BY <1>3, <1>5 DEF ToSet, Held

LEMMA SnapStep == ASSUME DrawingInv, Snap PROVE DrawingInv'
<1>1. PICK found \in Landing(NextCorner) : At(found, run.index)
  BY DEF Snap
<1>2. Settles /\ run.snap /\ forms' = forms /\ batch.phase = "corners"
  BY DEF Snap, Settles, Settling
<1>3. PICK i \in Within(NextCorner) : found = run.index[i].id
  BY <1>1 DEF Landing
<1>4. i \in DOMAIN run.index /\ Near(run.index[i].at, NextCorner)
  BY <1>3 DEF Within
<1>5. run.index[i] \in ToSet(run.index)
  BY <1>4 DEF ToSet
<1>6. Indexed /\ forms \in Forms /\ Sound(forms) /\ run.index \in Seq(Vertex)
  BY <1>2, RunFacts
<1>7. run.index[i] \in ToSet(forms.vertices) /\ run.index[i] \in Vertex
  BY <1>4, <1>5, <1>6 DEF Indexed
<1>8. found \in Nat /\ found \notin ToSet(run.vertices)
  BY <1>1, <1>2, <1>3, <1>7 DEF Settles, Collapsed, Vertex
<1>9. /\ ToSet(run.index) \subseteq ToSet(forms.vertices)
      /\ \A v \in ToSet(forms.vertices) :
            v \in ToSet(run.index) \/ (v.by.batch = batch.number /\ v.by.done < batch.done)
  BY <1>6 DEF Indexed
<1>10. QED  BY <1>1, <1>2, <1>3, <1>4, <1>6, <1>7, <1>8, <1>9, CornerSettles

LEMMA MintStep == ASSUME DrawingConstants, DrawingInv, Mint PROVE DrawingInv'
<1> DEFINE vertex(id) == [id |-> id, at |-> NextCorner, by |-> By(run.snap)]
<1>1. PICK id \in Minted :
          /\ Insert("vertices", vertex(id)) /\ At(id, Append(run.index, vertex(id)))
  BY DEF Mint
<1> DEFINE v == vertex(id)
<1>2. /\ Settles /\ batch.phase = "corners" /\ (run.snap => Within(NextCorner) = {})
  BY DEF Mint, Settles, Settling
<1>3. /\ Indexed /\ forms \in Forms /\ Sound(forms) /\ run.snap \in BOOLEAN
      /\ run.index \in Seq(Vertex) /\ forms.vertices \in Seq(Vertex)
  BY <1>2, RunFacts, FormFields
<1>4. id \in Nat /\ id \notin Held(forms)
  BY MintedIs DEF DrawingInv
<1>5. NextCorner \in Point /\ ToSet(run.vertices) \subseteq Held(forms)
  BY <1>2, NextCornerFacts
<1>6. Near(NextCorner, NextCorner)
  BY <1>5 DEF Near, DrawingConstants
<1>7. /\ v.id = id /\ v.at = NextCorner /\ v.by.snap = run.snap /\ v.by = By(run.snap)
      /\ v.by.batch = batch.number /\ v.by.done = batch.done /\ v \in Vertex
  BY <1>3, <1>4, <1>5 DEF By, Vertex, DrawingInv, DrawingTypeOK
<1>8. ASSUME NEW u \in ToSet(forms.vertices), v.by.snap, Near(u.at, v.at)
      PROVE  u.by.batch = v.by.batch /\ u.by.done # v.by.done
  <2>1. u \notin ToSet(run.index)
    <3>1. \A i \in DOMAIN run.index : ~Near(run.index[i].at, NextCorner)
      BY <1>2, <1>7, <1>8 DEF Within
    <3>2. QED  BY <1>7, <1>8, <3>1 DEF ToSet
  <2>2. u.by.done \in Nat /\ batch.done \in Nat
    <3>1. u \in Vertex
      BY <1>3, FormFields
    <3>2. u.by \in [batch : Nat, done : Nat, snap : BOOLEAN]
      BY <3>1 DEF Vertex
    <3>3. QED  BY <3>2 DEF DrawingInv, DrawingTypeOK
  <2>3. QED  BY <1>3, <1>7, <2>1, <2>2 DEF Indexed
<1>9. forms' = [forms EXCEPT !.vertices = Append(@, v)]
  BY <1>1 DEF Insert
<1>10. forms'.vertices = Append(forms.vertices, v)
  BY <1>3, <1>9 DEF Forms
<1>11. At(id, Append(run.index, v))
  BY <1>1
<1> HIDE DEF v, vertex
<1>12. forms' \in Forms /\ Sound(forms')
  BY <1>3, <1>4, <1>7, <1>8, <1>9, OneVertexMore
<1>13. /\ ToSet(forms'.vertices) = ToSet(forms.vertices) \cup {v}
       /\ ToSet(Append(run.index, v)) = ToSet(run.index) \cup {v}
       /\ Append(run.index, v) \in Seq(Vertex)
  BY <1>3, <1>7, <1>10, ToSetFacts
<1>14. /\ ToSet(Append(run.index, v)) \subseteq ToSet(forms'.vertices)
       /\ \A u \in ToSet(forms'.vertices) : \/ u \in ToSet(Append(run.index, v))
                                            \/ u.by.batch = batch.number /\ u.by.done < batch.done
  BY <1>3, <1>13 DEF Indexed
<1>15. \E u \in ToSet(forms'.vertices) : u.id = id /\ Near(u.at, NextCorner)
  BY <1>6, <1>7, <1>13
<1>16. id \notin ToSet(run.vertices) /\ ToSet(forms.vertices) \subseteq ToSet(forms'.vertices)
  BY <1>4, <1>5, <1>13
<1>17. \A u \in ToSet(forms'.vertices) : u \in ToSet(forms.vertices) \/ u.by = By(run.snap)
  BY <1>7, <1>13
<1>18. QED  BY <1>2, <1>4, <1>11, <1>12, <1>13, <1>14, <1>15, <1>16, <1>17,
          CornerSettles

(* An edge which joins the next two corners, and is in the model. *)
LEMMA EdgeSettles ==
    ASSUME DrawingInv, batch.phase = "corners", Len(run.read) = Corners,
           Len(run.edges) + 1 <= Corners, graph' = graph, NEW edge \in Nat,
           batch' = [batch EXCEPT !.run.edges = Append(@, edge)],
           forms' \in Forms, Sound(forms'), forms'.vertices = forms.vertices,
           ToSet(forms.edges) \subseteq ToSet(forms'.edges),
           \E e \in ToSet(forms'.edges) :
              LET k == Len(run.edges) + 1
                  v == run.vertices[k]
                  w == run.vertices[NextOf(k, Corners)]
              IN  e.id = edge /\ e.ends \in {<<v, w>>, <<w, v>>}
    PROVE  DrawingInv'
<1>1. /\ run.corners \in Seq(Point \cup {NoPoint}) /\ run.snap \in BOOLEAN
      /\ run.index \in Seq(Vertex) /\ run.read \in Seq(Point)
      /\ run.vertices \in Seq(Nat) /\ run.edges \in Seq(Nat)
      /\ Len(run.vertices) = Len(run.read)
      /\ Corners \in Nat /\ Corners >= 3 /\ Settled /\ Indexed
  BY RunFacts
<1> DEFINE next == [corners |-> run.corners, snap |-> run.snap, index |-> run.index,
                    read |-> run.read, vertices |-> run.vertices,
                    edges |-> Append(run.edges, edge)]
<1>2. /\ batch' = [number |-> batch.number, done |-> batch.done, phase |-> "corners", run |-> next]
      /\ run' = next
  BY DEF DrawingInv, DrawingTypeOK, Scaffolding, run
<1>3. next \in Scaffolding /\ Len(next.vertices) = Len(next.read)
  BY <1>1 DEF Scaffolding
<1>4. DrawingTypeOK'
  <2> HIDE DEF next
  <2>1. batch' \in [number : 0..MaxBatches, done : 0..MaxOperations,
                    phase : {"closed", "open", "corners"}, run : Scaffolding]
    <3>1. batch.number \in 0..MaxBatches /\ batch.done \in 0..MaxOperations
      BY DEF DrawingInv, DrawingTypeOK
    <3>2. QED  BY ONLY <1>2, <1>3, <3>1
  <2>2. QED  BY <1>2, <1>3, <2>1 DEF DrawingInv, DrawingTypeOK
<1>5. WallsAreShared'
  BY DEF DrawingInv, WallsAreShared
<1>6. Settled'
  <2>1. Corners' = Corners
    BY <1>2 DEF Corners
  <2>2. /\ run'.corners = run.corners /\ run'.read = run.read /\ run'.vertices = run.vertices
        /\ run'.edges = Append(run.edges, edge)
    BY <1>2
  <2>3. /\ DOMAIN Append(run.edges, edge) = 1..(Len(run.edges) + 1)
        /\ Len(Append(run.edges, edge)) = Len(run.edges) + 1 /\ Len(run.edges) \in Nat
        /\ DOMAIN run.edges = 1..Len(run.edges)
        /\ \A i \in DOMAIN run.edges : Append(run.edges, edge)[i] = run.edges[i]
        /\ Append(run.edges, edge)[Len(run.edges) + 1] = edge
    <3>1. run.edges \in Seq(Nat)
      BY <1>1
    <3>2. QED  BY ONLY <3>1, edge \in Nat
  <2>4. \A i \in DOMAIN Append(run.edges, edge) : \E e \in ToSet(forms'.edges) :
          /\ e.id = Append(run.edges, edge)[i]
          /\ e.ends \in {<<run.vertices[i], run.vertices[NextOf(i, Corners)]>>,
                         <<run.vertices[NextOf(i, Corners)], run.vertices[i]>>}
    <3> TAKE i \in DOMAIN Append(run.edges, edge)
    <3>1. CASE i \in DOMAIN run.edges
      <4>1. PICK e \in ToSet(forms.edges) :
                /\ e.id = run.edges[i]
                /\ e.ends \in {<<run.vertices[i], run.vertices[NextOf(i, Corners)]>>,
                               <<run.vertices[NextOf(i, Corners)], run.vertices[i]>>}
        BY <1>1, <3>1 DEF Settled
      <4>2. QED  BY <2>3, <3>1, <4>1
    <3>2. CASE i = Len(run.edges) + 1
      BY <2>3, <3>2
    <3>3. QED  BY <2>3, <3>1, <3>2
  <2>5. /\ Len(run'.corners) >= 4 /\ Len(run'.read) <= Corners' /\ Len(run'.edges) <= Corners'
        /\ run'.edges # <<>> => Len(run'.read) = Corners'
    BY <1>1, <2>1, <2>2, <2>3 DEF Settled
  <2>6. \A i \in DOMAIN run'.read :
            \E v \in ToSet(forms'.vertices) : v.id = run'.vertices[i] /\ Near(v.at, run'.read[i])
    BY <1>1, <2>2 DEF Settled
  <2>7. \A i, j \in DOMAIN run'.vertices : run'.vertices[i] = run'.vertices[j] => i = j
    BY <1>1, <2>2 DEF Settled
  <2>8. QED  BY <2>1, <2>2, <2>4, <2>5, <2>6, <2>7 DEF Settled
<1>7. Indexed'
  BY <1>1, <1>2 DEF Indexed
<1>8. Grown' /\ batch'.done < MaxOperations
  BY <1>2, RunFacts DEF Grown
<1>9. QED  BY <1>2, <1>4, <1>5, <1>6, <1>7, <1>8 DEF DrawingInv, RunInv

(* The corners an edge goes between are two of them. *)
LEMMA EndsDiffer ==
    ASSUME DrawingInv, batch.phase = "corners", Len(run.read) = Corners,
           NEW k \in 1..Corners
    PROVE  /\ NextOf(k, Corners) \in 1..Corners /\ NextOf(k, Corners) # k
           /\ run.vertices[k] # run.vertices[NextOf(k, Corners)]
           /\ {run.vertices[k], run.vertices[NextOf(k, Corners)]} \subseteq IdsOf(forms.vertices)
           /\ run.vertices[k] \in Nat /\ run.vertices[NextOf(k, Corners)] \in Nat
<1>1. /\ run.vertices \in Seq(Nat) /\ run.read \in Seq(Point)
      /\ Len(run.vertices) = Len(run.read) /\ Corners \in Nat /\ Corners >= 3 /\ Settled
  BY RunFacts
<1>2. NextOf(k, Corners) \in 1..Corners /\ NextOf(k, Corners) # k
  BY <1>1 DEF NextOf
<1>3. DOMAIN run.vertices = 1..Corners /\ DOMAIN run.read = 1..Corners
  BY <1>1
<1>4. \A i \in 1..Corners : run.vertices[i] \in IdsOf(forms.vertices) /\ run.vertices[i] \in Nat
  <2>1. \A i \in 1..Corners : run.vertices[i] \in Nat
    BY <1>1, <1>3
  <2>2. \A i \in 1..Corners : \E v \in ToSet(forms.vertices) : v.id = run.vertices[i]
    BY <1>1, <1>3 DEF Settled
  <2>3. QED  BY <2>1, <2>2 DEF IdsOf
<1>5. run.vertices[k] # run.vertices[NextOf(k, Corners)]
  BY <1>1, <1>2, <1>3 DEF Settled
<1>6. QED  BY <1>2, <1>4, <1>5

LEMMA WallStep == ASSUME DrawingConstants, DrawingInv, Wall PROVE DrawingInv'
<1> DEFINE k == Len(run.edges) + 1
           v == run.vertices[k]
           w == run.vertices[NextOf(k, Corners)]
<1>1. /\ batch.phase = "corners" /\ Len(run.read) = Corners /\ k <= Corners /\ graph' = graph
  BY DEF Wall
<1>2. /\ forms \in Forms /\ Sound(forms) /\ forms.edges \in Seq(Edge)
      /\ run.edges \in Seq(Nat) /\ Corners \in Nat /\ forms.vertices \in Seq(Vertex)
  BY <1>1, RunFacts, FormFields
<1>3. k \in 1..Corners
  BY <1>1, <1>2
<1>4. v # w /\ {v, w} \subseteq IdsOf(forms.vertices) /\ v \in Nat /\ w \in Nat
  BY <1>1, <1>3, EndsDiffer
<1>5. CASE /\ \E i \in Between(v, w) : batch' = [batch EXCEPT !.run.edges = Append(@, forms.edges[i].id)]
           /\ forms' = forms
  <2>1. PICK i \in Between(v, w) : batch' = [batch EXCEPT !.run.edges = Append(@, forms.edges[i].id)]
    BY <1>5
  <2>2. i \in DOMAIN forms.edges /\ forms.edges[i].ends \in {<<v, w>>, <<w, v>>}
    BY DEF Between
  <2>3. forms.edges[i] \in ToSet(forms.edges) /\ forms.edges[i] \in Edge
    BY <1>2, <2>2 DEF ToSet
  <2>4. forms.edges[i].id \in Nat
    BY <2>3 DEF Edge
  <2>5. QED  BY <1>1, <1>2, <1>5, <2>1, <2>2, <2>3, <2>4, EdgeSettles
<1>6. CASE /\ Between(v, w) = {}
           /\ \E id \in Minted :
                 /\ batch' = [batch EXCEPT !.run.edges = Append(@, id)]
                 /\ Insert("edges", [id |-> id, ends |-> <<v, w>>, scaffolded |-> TRUE])
  <2> DEFINE edge(id) == [id |-> id, ends |-> <<v, w>>, scaffolded |-> TRUE]
  <2>1. PICK id \in Minted : /\ batch' = [batch EXCEPT !.run.edges = Append(@, id)]
                             /\ Insert("edges", edge(id))
    BY <1>6
  <2> DEFINE e == edge(id)
  <2>2. id \in Nat /\ id \notin Held(forms)
    BY MintedIs DEF DrawingInv
  <2>3. /\ e \in Edge /\ e.id = id /\ e.ends = <<v, w>> /\ e.ends[1] = v /\ e.ends[2] = w
    BY <1>4, <2>2 DEF Edge
  <2>4. forms' = [forms EXCEPT !.edges = Append(@, e)]
    BY <2>1 DEF Insert
  <2>5. forms'.edges = Append(forms.edges, e) /\ forms'.vertices = forms.vertices
    BY <1>2, <2>4 DEF Forms
  <2> HIDE DEF e, edge
  <2>6. \A d \in ToSet(forms.edges) : d.ends \notin {e.ends, <<e.ends[2], e.ends[1]>>}
    BY <1>6, <2>3 DEF Between, ToSet
  <2>7. forms' \in Forms /\ Sound(forms')
    BY <1>2, <1>4, <2>2, <2>3, <2>4, <2>6, OneEdgeMore
  <2>8. ToSet(forms'.edges) = ToSet(forms.edges) \cup {e}
    BY <1>2, <2>3, <2>5, ToSetFacts
  <2>9. \E d \in ToSet(forms'.edges) : d.id = id /\ d.ends \in {<<v, w>>, <<w, v>>}
    BY <2>3, <2>8
  <2>10. QED  BY <1>1, <2>1, <2>2, <2>5, <2>7, <2>8, <2>9, EdgeSettles
<1>7. QED  BY <1>5, <1>6 DEF Wall

(* The loop written over the edges of a scaffold goes round its corners. *)
LEMMA RoomGoesRound ==
    ASSUME DrawingInv, batch.phase = "corners", Len(run.edges) = Corners,
           NEW l \in Loop, l.edges = run.edges, l.corners = run.read
    PROVE  GoesRound(forms, l) /\ ToSet(run.edges) \subseteq IdsOf(forms.edges)
<1> DEFINE from(i) == run.vertices[i]
           to(i) == run.vertices[NextOf(i, Corners)]
<1>1. /\ forms \in Forms /\ Sound(forms) /\ run.vertices \in Seq(Nat) /\ run.edges \in Seq(Nat)
      /\ run.read \in Seq(Point) /\ Corners \in Nat /\ Corners >= 3 /\ Settled
      /\ Len(run.vertices) = Len(run.read)
  BY RunFacts
<1>2. Loads(forms)
  BY <1>1 DEF Sound
<1>3. Len(run.read) = Corners
  <2>1. run.edges # <<>>
    BY <1>1
  <2>2. QED  BY <1>1, <2>1 DEF Settled
<1>4. /\ DOMAIN run.edges = 1..Corners /\ DOMAIN run.read = 1..Corners
      /\ DOMAIN run.vertices = 1..Corners
  BY <1>1, <1>3
<1>5. \A i \in 1..Corners : /\ run.edges[i] \in IdsOf(forms.edges)
                            /\ EndsOf(forms, run.edges[i]) \in {<<from(i), to(i)>>, <<to(i), from(i)>>}
  <2> TAKE i \in 1..Corners
  <2>1. PICK e \in ToSet(forms.edges) :
            e.id = run.edges[i] /\ e.ends \in {<<from(i), to(i)>>, <<to(i), from(i)>>}
    BY <1>1, <1>4 DEF Settled
  <2>2. EndsOf(forms, run.edges[i]) = e.ends
    BY <1>1, <1>2, <2>1, FoundById
  <2>3. QED  BY <2>1, <2>2 DEF IdsOf
<1>6. \A i \in 1..Corners : Near(PlaceOf(forms, from(i)), run.read[i])
  <2> TAKE i \in 1..Corners
  <2>1. PICK v \in ToSet(forms.vertices) : v.id = from(i) /\ Near(v.at, run.read[i])
    BY <1>1, <1>4 DEF Settled
  <2>2. PlaceOf(forms, from(i)) = v.at
    BY <1>1, <1>2, <2>1, FoundById
  <2>3. QED  BY <2>1, <2>2
<1>7. \A i, j \in 1..Corners : from(i) = from(j) => i = j
  BY <1>1, <1>4 DEF Settled
<1>8. \A i \in 1..Corners : NextOf(i, Corners) \in 1..Corners
  BY <1>1 DEF NextOf
<1> DEFINE ends(i) == EndsOf(forms, run.edges[i])
           ways == [i \in 1..Corners |-> IF ends(i) = <<from(i), to(i)>> THEN 1 ELSE 2]
<1>9. ways \in [1..Corners -> {1, 2}]
  OBVIOUS
<1>10. \A i \in 1..Corners : ends(i)[ways[i]] = from(i) /\ ends(i)[3 - ways[i]] = to(i)
  <2> TAKE i \in 1..Corners
  <2>1. CASE ends(i) = <<from(i), to(i)>>
    <3>1. ways[i] = 1
      BY <2>1
    <3>2. QED  BY <2>1, <3>1
  <2>2. CASE ends(i) # <<from(i), to(i)>>
    <3>1. ways[i] = 2
      BY <2>2
    <3>2. ends(i) = <<to(i), from(i)>>
      BY <1>5, <2>2
    <3>3. QED  BY <3>1, <3>2
  <2>3. QED  BY <2>1, <2>2
<1> HIDE DEF ways
<1>11. /\ \A i \in 1..Corners :
             /\ ends(i)[3 - ways[i]] = ends(NextOf(i, Corners))[ways[NextOf(i, Corners)]]
             /\ Near(PlaceOf(forms, ends(i)[ways[i]]), run.read[i])
       /\ \A i, j \in 1..Corners : ends(i)[ways[i]] = ends(j)[ways[j]] => i = j
  <2> HIDE DEF from, to, ends
  <2>1. \A i \in 1..Corners : to(i) = from(NextOf(i, Corners))
    BY DEF from, to
  <2>2. QED  BY <1>6, <1>7, <1>8, <1>10, <2>1
<1>12. GoesRound(forms, l)
  BY <1>3, <1>9, <1>11 DEF GoesRound
<1>13. ToSet(run.edges) \subseteq IdsOf(forms.edges)
  BY <1>4, <1>5 DEF ToSet
<1>14. QED  BY <1>12, <1>13

LEMMA WriteStep == ASSUME DrawingConstants, DrawingInv, WriteLoop PROVE DrawingInv'
<1> DEFINE outline(id) == [id |-> id, edges |-> run.edges, corners |-> run.read]
<1>1. PICK id \in Minted : Insert("loops", outline(id))
  BY DEF WriteLoop
<1>2. /\ batch.phase = "corners" /\ Len(run.edges) = Corners /\ graph' = graph
      /\ batch' = [batch EXCEPT !.phase = "open", !.done = @ + 1, !.run = NoScaffold]
  BY DEF WriteLoop
<1>3. /\ forms \in Forms /\ Sound(forms) /\ run.edges \in Seq(Nat) /\ run.read \in Seq(Point)
      /\ Grown /\ batch.done < MaxOperations
  BY <1>2, RunFacts
<1>4. id \in Nat /\ id \notin Held(forms)
  BY MintedIs DEF DrawingInv
<1> DEFINE l == outline(id)
<1>5. l \in Loop /\ l.id = id /\ l.edges = run.edges /\ l.corners = run.read
  BY <1>3, <1>4 DEF Loop
<1>6. forms' = [forms EXCEPT !.loops = Append(@, l)]
  BY <1>1 DEF Insert
<1>7. forms'.vertices = forms.vertices
  BY <1>3, <1>6 DEF Forms
<1> HIDE DEF l, outline
<1>8. GoesRound(forms, l) /\ ToSet(run.edges) \subseteq IdsOf(forms.edges)
  BY <1>2, <1>5, RoomGoesRound
<1>9. forms' \in Forms /\ Sound(forms')
  BY <1>3, <1>4, <1>5, <1>6, <1>8, OneLoopMore
<1>10. /\ batch' = [number |-> batch.number, done |-> batch.done + 1, phase |-> "open",
                    run |-> NoScaffold]
       /\ batch.number \in 0..MaxBatches /\ batch.done \in 0..MaxOperations
  BY <1>2 DEF DrawingInv, DrawingTypeOK
<1>11. run' = NoScaffold /\ batch.done + 1 \in 0..MaxOperations
  <2>1. run' = NoScaffold
    BY <1>10 DEF run
  <2>2. QED  BY <1>3, <1>10, <2>1 DEF DrawingConstants
<1>12. DrawingTypeOK'
  <2>1. batch' \in [number : 0..MaxBatches, done : 0..MaxOperations,
                    phase : {"closed", "open", "corners"}, run : Scaffolding]
    BY ONLY <1>10, <1>11, NothingScaffolded
  <2>2. QED  BY <1>2, <1>9, <1>11, <2>1, NothingScaffolded DEF DrawingInv, DrawingTypeOK
<1>13. WallsAreShared'
  BY <1>2, <1>9 DEF DrawingInv, WallsAreShared
<1>14. Earlier' /\ ToSet(graph'.vertices) \subseteq ToSet(forms'.vertices)
  <2>1. \A v \in ToSet(forms.vertices) : v.by.done \in Nat
    <3>1. ToSet(forms.vertices) \subseteq Vertex
      BY <1>3, FormFields
    <3>2. \A v \in Vertex : v.by.done \in Nat
      BY DEF Vertex
    <3>3. QED  BY <3>1, <3>2
  <2>2. batch'.number = batch.number /\ batch'.done = batch.done + 1 /\ batch.done \in Nat
    BY <1>10
  <2>3. QED  BY <1>2, <1>3, <1>7, <2>1, <2>2 DEF Earlier, Grown
<1>15. batch'.phase = "open"
  BY <1>10
<1>16. QED  BY <1>12, <1>13, <1>14, <1>15 DEF DrawingInv, RunInv
-----------------------------------------------------------------------------
LEMMA DrawingSteps == ASSUME DrawingConstants, DrawingInv, [DrawingNext]_drawing PROVE DrawingInv'
<1>1. CASE UNCHANGED drawing
  BY <1>1 DEF drawing, DrawingInv, DrawingTypeOK, WallsAreShared, RunInv, Settled, Indexed, Earlier,
              Grown, run, Corners
<1>2. CASE \E corners \in Rooms, snap \in BOOLEAN : Scaffold(corners, snap)
  BY <1>2, ScaffoldStep
<1>3. CASE BeginDrawing \/ Close \/ Commit \/ Refuses \/ ByHand
  BY <1>3, BeginStep, EndSteps, HandSteps
<1>4. CASE Snap \/ Mint \/ Wall \/ WriteLoop
  BY <1>4, SnapStep, MintStep, WallStep, WriteStep
<1>5. QED  BY <1>1, <1>2, <1>3, <1>4 DEF DrawingNext

LEMMA DrawingIsInv == ASSUME DrawingConstants PROVE DrawingSpec => []DrawingInv
<1>1. DrawingInit => DrawingInv
  BY DrawingBegins
<1>2. DrawingInv /\ [DrawingNext]_drawing => DrawingInv'
  BY DrawingSteps
<1>3. QED  BY <1>1, <1>2, PTL DEF DrawingSpec

(* The trees, the index and the scaffold under way are what the code has   *)
(* them be: a scaffold has settled as many vertices as it read corners.    *)
THEOREM DrawingTypes == ASSUME DrawingConstants PROVE DrawingSpec => []DrawingTypeOK
BY DrawingIsInv, PTL DEF DrawingInv

(* Whatever is drawn by hand or scaffolded, and in whatever batches: the   *)
(* model loads, no scaffold draws a second wall between two vertices, the  *)
(* loop of each goes round the corners it was asked for, and one which     *)
(* snaps leaves no sliver along what the model held (geometry.go Scaffold, *)
(* corner, mint, between, write).                                          *)
THEOREM RoomsShareWalls == ASSUME DrawingConstants PROVE DrawingSpec => []WallsAreShared
BY DrawingIsInv, PTL DEF DrawingInv
-----------------------------------------------------------------------------
(* A set of naturals which holds the first and the next of each is all.    *)
LEMMA Counting ==
    ASSUME NEW T \in SUBSET Nat, 0 \in T, \A n \in T : n + 1 \in T
    PROVE  T = Nat
<1> SUFFICES ASSUME Nat \ T # {} PROVE FALSE
  OBVIOUS
<1> DEFINE rest == Nat \ T
<1>1. PICK n \in rest : \A m \in rest : ~(<<m, n>> \in OpToRel(<, Nat))
  <2>1. rest \subseteq Nat /\ rest # {}
    OBVIOUS
  <2> HIDE DEF rest
  <2>2. QED  BY <2>1, NatLessThanWellFounded, WFMin
<1>2. \A m \in rest : ~(m < n)
  <2>1. \A m \in rest : m \in Nat /\ n \in Nat
    OBVIOUS
  <2> HIDE DEF rest
  <2>2. QED  BY <1>1, <2>1 DEF OpToRel
<1>3. n \in Nat \ T /\ n # 0 /\ n - 1 \in Nat /\ n - 1 < n /\ (n - 1) + 1 = n
  OBVIOUS
<1>4. n - 1 \in T
  BY <1>2, <1>3
<1>5. QED  BY <1>3, <1>4
-----------------------------------------------------------------------------
(* What is close through any number of the pairs. *)
Closed(pairs, s) == \A pair \in pairs : pair \cap s # {} => pair \subseteq s
MergedBy(pairs, v, w) == \A s \in SUBSET VertexIds : v \in s /\ Closed(pairs, s) => w \in s
ClassOf(pairs, v) == {w \in VertexIds : MergedBy(pairs, v, w)}

(* Being one corner is an equivalence. *)
LEMMA MergingIsOneCorner ==
    ASSUME NEW pairs \in SUBSET SUBSET VertexIds,
           NEW u \in VertexIds, NEW v \in VertexIds, NEW w \in VertexIds
    PROVE  /\ MergedBy(pairs, v, v)
           /\ MergedBy(pairs, u, v) => MergedBy(pairs, v, u)
           /\ MergedBy(pairs, u, v) /\ MergedBy(pairs, v, w) => MergedBy(pairs, u, w)
<1>1. MergedBy(pairs, v, v)
  BY DEF MergedBy
<1>2. ASSUME MergedBy(pairs, u, v) PROVE MergedBy(pairs, v, u)
  <2> SUFFICES ASSUME NEW s \in SUBSET VertexIds, v \in s, Closed(pairs, s), u \notin s PROVE FALSE
    BY DEF MergedBy
  <2>1. Closed(pairs, VertexIds \ s)
    BY DEF Closed
  <2>2. v \in VertexIds \ s
    BY <1>2, <2>1 DEF MergedBy
  <2>3. QED  BY <2>2
<1>3. ASSUME MergedBy(pairs, u, v), MergedBy(pairs, v, w) PROVE MergedBy(pairs, u, w)
  BY <1>3 DEF MergedBy
<1>4. QED  BY <1>1, <1>2, <1>3

(* The class of a vertex is closed, and two vertices have one class where  *)
(* they are one corner.                                                    *)
LEMMA ClassIsClosed ==
    ASSUME NEW pairs \in SUBSET SUBSET VertexIds, NEW v \in VertexIds
    PROVE  v \in ClassOf(pairs, v) /\ Closed(pairs, ClassOf(pairs, v))
<1>1. v \in ClassOf(pairs, v)
  BY MergingIsOneCorner DEF ClassOf
<1>2. ASSUME NEW pair \in pairs, NEW a \in pair, a \in ClassOf(pairs, v), NEW b \in pair
      PROVE  b \in ClassOf(pairs, v)
  <2>1. a \in VertexIds /\ b \in VertexIds
    OBVIOUS
  <2>2. MergedBy(pairs, v, a)
    BY <1>2 DEF ClassOf
  <2>3. MergedBy(pairs, a, b)
    BY DEF MergedBy, Closed
  <2>4. QED  BY <2>1, <2>2, <2>3, MergingIsOneCorner DEF ClassOf
<1>3. QED  BY <1>1, <1>2 DEF Closed

LEMMA ClassesAreCorners ==
    ASSUME NEW pairs \in SUBSET SUBSET VertexIds, NEW v \in VertexIds, NEW w \in VertexIds
    PROVE  ClassOf(pairs, v) = ClassOf(pairs, w) <=> MergedBy(pairs, v, w)
<1>1. ASSUME ClassOf(pairs, v) = ClassOf(pairs, w) PROVE MergedBy(pairs, v, w)
  <2>1. w \in ClassOf(pairs, v)
    BY <1>1, ClassIsClosed
  <2>2. QED  BY <2>1 DEF ClassOf
<1>2. ASSUME MergedBy(pairs, v, w) PROVE ClassOf(pairs, v) = ClassOf(pairs, w)
  <2>1. MergedBy(pairs, w, v)
    BY <1>2, MergingIsOneCorner
  <2>2. \A u \in VertexIds : MergedBy(pairs, v, u) <=> MergedBy(pairs, w, u)
    BY <1>2, <2>1, MergingIsOneCorner
  <2>3. QED  BY <2>2 DEF ClassOf
<1>3. QED  BY <1>1, <1>2

(* Merging one more pair. *)
LEMMA UniteMerges ==
    ASSUME NEW pairs \in SUBSET SUBSET VertexIds, NEW pair \in pairs, NEW merged,
           merged = [v \in VertexIds |-> ClassOf(pairs \ {pair}, v)]
    PROVE  Unite(pair, merged) = [v \in VertexIds |-> ClassOf(pairs, v)]
<1> DEFINE before == pairs \ {pair}
<1> DEFINE both == UNION {merged[v] : v \in pair}
<1>1. before \in SUBSET SUBSET VertexIds /\ pair \in SUBSET VertexIds /\ pairs = before \cup {pair}
  OBVIOUS
<1>0. \A w : w \in both <=> \E v \in pair : w \in merged[v]
  <2>1. ASSUME NEW w, w \in both PROVE \E v \in pair : w \in merged[v]
    BY <2>1
  <2>2. ASSUME NEW w, NEW v \in pair, w \in merged[v] PROVE w \in both
    BY <2>2
  <2>3. QED  BY <2>1, <2>2
<1>4. Unite(pair, merged) = [v \in VertexIds |-> IF v \in both THEN both ELSE merged[v]]
  BY DEF Unite
<1>6. \A v \in VertexIds : merged[v] = ClassOf(before, v)
  OBVIOUS
<1> HIDE DEF both
<1>2. both \subseteq VertexIds /\ Closed(before, both) /\ pair \subseteq both
  <2>1. \A v \in pair : /\ merged[v] \subseteq VertexIds /\ v \in merged[v]
                        /\ Closed(before, merged[v])
    BY <1>1, <1>6, ClassIsClosed DEF ClassOf
  <2>2. both \subseteq VertexIds /\ pair \subseteq both
    BY <1>0, <2>1
  <2>3. ASSUME NEW p \in before, NEW a \in p, a \in both, NEW b \in p PROVE b \in both
    <3>1. PICK v \in pair : a \in merged[v]
      BY <1>0, <2>3
    <3>2. b \in merged[v]
      BY <2>1, <3>1 DEF Closed
    <3>3. QED  BY <1>0, <3>2
  <2>4. QED  BY <2>2, <2>3 DEF Closed
<1>3. ASSUME NEW v \in VertexIds PROVE (IF v \in both THEN both ELSE merged[v]) = ClassOf(pairs, v)
  <2>1. CASE v \in both
    <3>1. ClassOf(pairs, v) \subseteq both
      <4>1. Closed(pairs, both)
        BY <1>1, <1>2 DEF Closed
      <4>2. QED  BY <2>1, <4>1, <1>2 DEF ClassOf, MergedBy
    <3>2. ASSUME NEW w \in both PROVE MergedBy(pairs, v, w)
      <4>1. PICK a \in pair : v \in merged[a]
        BY <1>0, <2>1
      <4>2. PICK b \in pair : w \in merged[b]
        BY <1>0, <3>2
      <4>3. a \in VertexIds /\ b \in VertexIds
        BY <1>1
      <4>4. MergedBy(before, a, v) /\ MergedBy(before, b, w)
        BY <1>6, <4>1, <4>2, <4>3 DEF ClassOf
      <4>5. MergedBy(before, v, a)
        BY <1>1, <4>3, <4>4, MergingIsOneCorner
      <4>6. ASSUME NEW s \in SUBSET VertexIds, v \in s, Closed(pairs, s) PROVE w \in s
        <5>1. Closed(before, s)
          BY <4>6 DEF Closed
        <5>2. a \in s
          BY <4>5, <4>6, <5>1 DEF MergedBy
        <5>3. b \in s
          BY <4>6, <5>2 DEF Closed
        <5>4. QED  BY <4>4, <5>1, <5>3 DEF MergedBy
      <4>7. QED  BY <4>6 DEF MergedBy
    <3>3. both \subseteq ClassOf(pairs, v)
      BY <3>2, <1>2 DEF ClassOf
    <3>4. QED  BY <2>1, <3>1, <3>3
  <2>2. CASE v \notin both
    <3> DEFINE class == ClassOf(before, v)
    <3>1. v \in class /\ Closed(before, class) /\ class \subseteq VertexIds
      BY <1>1, ClassIsClosed DEF ClassOf
    <3>2. pair \cap class = {}
      <4> SUFFICES ASSUME NEW a \in pair, a \in class PROVE FALSE
        OBVIOUS
      <4>1. MergedBy(before, v, a)
        BY DEF ClassOf
      <4>2. MergedBy(before, a, v)
        BY <4>1, <1>1, MergingIsOneCorner
      <4>3. v \in merged[a]
        BY <1>6, <4>2, <1>1 DEF ClassOf
      <4>4. QED  BY <1>0, <4>3, <2>2
    <3>3. Closed(pairs, class)
      BY <3>1, <3>2, <1>1 DEF Closed
    <3>4. ClassOf(pairs, v) \subseteq class
      BY <3>1, <3>3 DEF ClassOf, MergedBy
    <3>5. class \subseteq ClassOf(pairs, v)
      BY <1>1 DEF ClassOf, MergedBy, Closed
    <3>6. QED  BY <1>6, <2>2, <3>4, <3>5
  <2>3. QED  BY <2>1, <2>2
<1>5. QED  BY <1>3, <1>4

(* The fold over the pairs which are close merges them: its classes are    *)
(* those of what is close through any number of them.                      *)
Apart == [v \in VertexIds |-> {v}]
Chosen(s) == CHOOSE pair \in s : TRUE
Stage(iter, s) == IF s = {} THEN Apart ELSE Unite(Chosen(s), iter[s \ {Chosen(s)}])
Few(pairs, most) == {s \in SUBSET pairs : Cardinality(s) <= most}
LEMMA OneFewer ==
    ASSUME NEW s, IsFiniteSet(s), s # {}
    PROVE  /\ Chosen(s) \in s /\ IsFiniteSet(s \ {Chosen(s)})
           /\ Cardinality(s) \in Nat /\ Cardinality(s \ {Chosen(s)}) \in Nat
           /\ Cardinality(s \ {Chosen(s)}) = Cardinality(s) - 1
<1>1. Chosen(s) \in s
  BY DEF Chosen
<1>2. QED  BY <1>1, FS_RemoveElement, FS_CardinalityType

LEMMA MergingGoesOn ==
    ASSUME NEW pairs, IsFiniteSet(pairs), NEW n \in Nat
    PROVE  \E iter : iter = [s \in Few(pairs, n) |-> Stage(iter, s)]
<1> DEFINE T == {m \in Nat : \E iter : iter = [s \in Few(pairs, m) |-> Stage(iter, s)]}
<1>1. 0 \in T
  <2> DEFINE first == [s \in Few(pairs, 0) |-> Apart]
  <2>1. ASSUME NEW s \in Few(pairs, 0) PROVE s = {}
    <3>1. IsFiniteSet(s) /\ Cardinality(s) <= 0 /\ Cardinality(s) \in Nat
      BY FS_Subset, FS_CardinalityType DEF Few
    <3>2. Cardinality(s) = 0
      BY <3>1
    <3>3. QED  BY <3>1, <3>2, FS_EmptySet
  <2>2. \A s \in Few(pairs, 0) : Stage(first, s) = Apart
    BY <2>1 DEF Stage
  <2>3. first = [s \in Few(pairs, 0) |-> Stage(first, s)]
    BY <2>2
  <2>4. QED  BY <2>3
<1>2. ASSUME NEW m \in T PROVE m + 1 \in T
  <2>1. PICK iter : iter = [s \in Few(pairs, m) |-> Stage(iter, s)]
    OBVIOUS
  <2> DEFINE next == [s \in Few(pairs, m + 1) |-> Stage(iter, s)]
  <2>2. ASSUME NEW s \in Few(pairs, m) PROVE s \in Few(pairs, m + 1) /\ next[s] = iter[s]
    <3>1. IsFiniteSet(s) /\ Cardinality(s) \in Nat
      BY FS_Subset, FS_CardinalityType DEF Few
    <3>2. s \in Few(pairs, m + 1)
      BY <3>1 DEF Few
    <3>3. QED  BY <2>1, <3>2
  <2>3. ASSUME NEW s \in Few(pairs, m + 1), s # {}
        PROVE  s \ {Chosen(s)} \in Few(pairs, m)
    <3>1. IsFiniteSet(s)
      BY FS_Subset DEF Few
    <3>2. Cardinality(s \ {Chosen(s)}) = Cardinality(s) - 1 /\ Cardinality(s) \in Nat
      BY <2>3, <3>1, OneFewer
    <3>3. QED  BY <3>2 DEF Few
  <2>4. \A s \in Few(pairs, m + 1) : Stage(iter, s) = Stage(next, s)
    BY <2>2, <2>3 DEF Stage
  <2>5. next = [s \in Few(pairs, m + 1) |-> Stage(next, s)]
    BY <2>4
  <2> HIDE DEF next
  <2>6. \E g : g = [s \in Few(pairs, m + 1) |-> Stage(g, s)]
    BY <2>5
  <2>7. QED  BY <2>6
<1> HIDE DEF T
<1>3. T = Nat
  BY <1>1, <1>2, Counting DEF T
<1>4. QED  BY <1>3 DEF T

(* What the fold has merged, of any of the pairs.                          *)
LEMMA FoldMerges ==
    ASSUME NEW pairs, IsFiniteSet(pairs)
    PROVE  \E iter : /\ iter = [s \in SUBSET pairs |-> Stage(iter, s)]
                    /\ FoldSet(Unite, Apart, pairs) = iter[pairs]
<1>1. Cardinality(pairs) \in Nat
  BY FS_CardinalityType
<1>2. SUBSET pairs = Few(pairs, Cardinality(pairs))
  BY FS_Subset DEF Few
<1>3. \E iter : iter = [s \in SUBSET pairs |-> Stage(iter, s)]
  <2>1. \E iter : iter = [s \in Few(pairs, Cardinality(pairs)) |-> Stage(iter, s)]
    BY <1>1, MergingGoesOn
  <2>2. QED  BY <1>2, <2>1, Zenon
<1> DEFINE iter == CHOOSE g : g = [s \in SUBSET pairs |-> Stage(g, s)]
<1>4. iter = [s \in SUBSET pairs |-> Stage(iter, s)]
  BY <1>3
<1>5. FoldSet(Unite, Apart, pairs) = iter[pairs]
  BY DEF FoldSet, MapThenFoldSet, Stage, Chosen
<1>6. QED  BY <1>4, <1>5

LEMMA FoldIsOfClasses ==
    ASSUME IsFiniteSet(VertexIds), NEW pairs \in SUBSET SUBSET VertexIds
    PROVE  FoldSet(Unite, Apart, pairs) = [v \in VertexIds |-> ClassOf(pairs, v)]
<1>1. IsFiniteSet(pairs) /\ Cardinality(pairs) \in Nat
  BY FS_SUBSET, FS_Subset, FS_CardinalityType
<1>2. PICK iter : /\ iter = [s \in SUBSET pairs |-> Stage(iter, s)]
                  /\ FoldSet(Unite, Apart, pairs) = iter[pairs]
  BY <1>1, FoldMerges
<1> DEFINE Right(s) == iter[s] = [v \in VertexIds |-> ClassOf(s, v)]
<1> DEFINE T == {m \in Nat : \A s \in SUBSET pairs : Cardinality(s) = m => Right(s)}
<1>3. 0 \in T
  <2> SUFFICES ASSUME NEW s \in SUBSET pairs, Cardinality(s) = 0 PROVE Right(s)
    OBVIOUS
  <2>1. s = {}
    BY <1>1, FS_Subset, FS_EmptySet
  <2>2. iter[s] = Apart
    BY <1>2, <2>1 DEF Stage
  <2>3. ASSUME NEW v \in VertexIds PROVE {v} = ClassOf(s, v)
    <3>1. Closed(s, {v})
      BY <2>1 DEF Closed
    <3>2. QED  BY <3>1 DEF ClassOf, MergedBy
  <2>4. QED  BY <2>2, <2>3 DEF Apart
<1>4. ASSUME NEW m \in T PROVE m + 1 \in T
  <2> SUFFICES ASSUME NEW s \in SUBSET pairs, Cardinality(s) = m + 1 PROVE Right(s)
    OBVIOUS
  <2>1. IsFiniteSet(s) /\ s # {}
    BY <1>1, FS_Subset, FS_EmptySet
  <2>2. Chosen(s) \in s /\ Cardinality(s \ {Chosen(s)}) = m
    <3>1. Chosen(s) \in s /\ Cardinality(s \ {Chosen(s)}) = Cardinality(s) - 1
      BY <2>1, OneFewer
    <3>2. (m + 1) - 1 = m
      OBVIOUS
    <3>3. QED  BY <3>1, <3>2
  <2>3. Right(s \ {Chosen(s)})
    BY <2>2
  <2>4. iter[s] = Unite(Chosen(s), iter[s \ {Chosen(s)}])
    BY <1>2, <2>1 DEF Stage
  <2>5. QED  BY <2>2, <2>3, <2>4, UniteMerges
<1> HIDE DEF T
<1>5. T = Nat
  BY <1>3, <1>4, Counting DEF T
<1>6. Right(pairs)
  BY <1>1, <1>5 DEF T
<1>7. QED  BY <1>2, <1>6

(* Two vertices are one corner of the loop where they are close through    *)
(* any number of others of it.                                             *)
LEMMA SameIsMerges ==
    ASSUME IsFiniteSet(VertexIds), loop.near \in SUBSET SUBSET VertexIds,
           NEW v \in VertexIds, NEW w \in VertexIds
    PROVE  Same(v, w) <=> Merges(v, w)
<1>1. Coincident \in SUBSET SUBSET VertexIds
  BY DEF Coincident
<1>2. CornerOf = FoldSet(Unite, Apart, Coincident)
  BY DEF CornerOf, Apart
<1>3. CornerOf = [u \in VertexIds |-> ClassOf(Coincident, u)]
  BY <1>1, <1>2, FoldIsOfClasses
<1>4. Merges(v, w) <=> MergedBy(Coincident, v, w)
  BY DEF Merges, MergedBy, Closed
<1>5. QED  BY <1>1, <1>3, <1>4, ClassesAreCorners DEF Same
-----------------------------------------------------------------------------
(* The ends of n edges, and chains of m of them: an edge is walked from    *)
(* its end t[i] to the other, and at[e] is the corner of an end.           *)
EdgeEnds(n) == (1..n) \X {1, 2}
Other(e) == <<e[1], 3 - e[2]>>
(* No three ends meet, no end is loose, and no part is apart. *)
Plain(n, at) ==
    \A a, b, d \in EdgeEnds(n) : a # b /\ b # d /\ a # d => ~(at[a] = at[b] /\ at[b] = at[d])
Paired(n, at) == \A a \in EdgeEnds(n) : \E b \in EdgeEnds(n) : a # b /\ at[a] = at[b]
Whole(n, at) ==
    \A part \in SUBSET (1..n) : part # {} /\ part # 1..n =>
        \E a, b \in EdgeEnds(n) : a[1] \in part /\ b[1] \notin part /\ at[a] = at[b]
Chains(n, at, m) ==
    {t \in [1..m -> EdgeEnds(n)] :
        /\ \A i, j \in 1..m : t[i][1] = t[j][1] => i = j
        /\ \A i \in 1..(m - 1) : at[Other(t[i])] = at[t[i + 1]]}

LEMMA TwoEndsOfAnEdge ==
    ASSUME NEW n \in Nat, NEW e \in EdgeEnds(n)
    PROVE  /\ Other(e) \in EdgeEnds(n) /\ Other(e)[1] = e[1] /\ Other(e) # e /\ Other(Other(e)) = e
           /\ e[1] \in 1..n
           /\ \A f \in EdgeEnds(n) : f[1] = e[1] => f = e \/ f = Other(e)
<1>1. PICK i \in 1..n, k \in {1, 2} : e = <<i, k>>
  BY DEF EdgeEnds
<1>2. e[1] = i /\ e[2] = k
  BY <1>1
<1>3. Other(e) = <<i, 3 - k>> /\ 3 - k \in {1, 2} /\ 3 - k # k /\ 3 - (3 - k) = k
  BY <1>2 DEF Other
<1>4. Other(Other(e)) = e
  BY <1>1, <1>3 DEF Other
<1>5. Other(e) \in EdgeEnds(n) /\ Other(e)[1] = e[1] /\ Other(e) # e
  BY <1>1, <1>3 DEF EdgeEnds
<1>6. ASSUME NEW f \in EdgeEnds(n), f[1] = e[1] PROVE f = e \/ f = Other(e)
  <2>1. PICK j \in 1..n, l \in {1, 2} : f = <<j, l>>
    BY DEF EdgeEnds
  <2>2. j = i
    BY <2>1, <1>2, <1>6
  <2>3. l = k \/ l = 3 - k
    BY <1>3
  <2>4. QED  BY <2>1, <2>2, <2>3, <1>1, <1>3
<1>7. QED  BY <1>2, <1>4, <1>5, <1>6

(* A chain in which no three ends meet passes each corner once, but that   *)
(* it may end where it began.                                              *)
LEMMA ChainsAreSimple ==
    ASSUME NEW n \in Nat, NEW at, Plain(n, at), NEW m \in 1..n, NEW t \in Chains(n, at, m)
    PROVE  /\ \A i, j \in 1..m : i < j => at[t[i]] # at[t[j]]
           /\ \A i \in 2..m : at[Other(t[m])] # at[t[i]]
<1>1. /\ t \in [1..m -> EdgeEnds(n)]
      /\ \A i, j \in 1..m : t[i][1] = t[j][1] => i = j
      /\ \A i \in 1..(m - 1) : at[Other(t[i])] = at[t[i + 1]]
  BY DEF Chains
<1>2. \A i \in 1..m : /\ t[i] \in EdgeEnds(n) /\ Other(t[i]) \in EdgeEnds(n)
                      /\ Other(t[i])[1] = t[i][1] /\ Other(t[i]) # t[i]
  BY <1>1, TwoEndsOfAnEdge
<1>3. ASSUME NEW i \in 1..m, NEW j \in 1..m, i < j, at[t[i]] = at[t[j]] PROVE FALSE
  <2>1. j - 1 \in 1..m /\ j - 1 \in 1..(m - 1) /\ (j - 1) + 1 = j /\ i # j /\ j - 1 # j
    BY <1>3
  <2>2. at[Other(t[j - 1])] = at[t[j]]
    BY <1>1, <2>1
  <2>3. t[i][1] # t[j][1] /\ t[j - 1][1] # t[j][1]
    BY <1>1, <2>1
  <2>4. Other(t[j - 1]) # t[i]
    BY <1>1, <1>2, <2>1
  <2>5. t[i] # t[j] /\ Other(t[j - 1]) # t[j]
    BY <1>2, <2>1, <2>3
  <2>6. QED  BY <1>2, <1>3, <2>1, <2>2, <2>4, <2>5 DEF Plain
<1>4. ASSUME NEW i \in 2..m, at[Other(t[m])] = at[t[i]] PROVE FALSE
  <2>1. i \in 1..m /\ m \in 1..m /\ i - 1 \in 1..m /\ i - 1 \in 1..(m - 1) /\ (i - 1) + 1 = i
        /\ i - 1 # m /\ i - 1 # i
    OBVIOUS
  <2>2. at[Other(t[i - 1])] = at[t[i]]
    BY <1>1, <2>1
  <2>3. Other(t[i - 1]) # t[i] /\ Other(t[i - 1]) # Other(t[m])
    BY <1>1, <1>2, <2>1
  <2>4. Other(t[m]) # t[i]
    BY <1>1, <1>2, <2>1
  <2>5. QED  BY <1>2, <1>4, <2>1, <2>2, <2>3, <2>4 DEF Plain
<1>5. QED  BY <1>3, <1>4

(* A chain of as many edges as there are passes them all.                  *)
LEMMA ChainsCover ==
    ASSUME NEW n \in Nat, NEW at, NEW t \in Chains(n, at, n), NEW e \in EdgeEnds(n)
    PROVE  \E i \in 1..n : e = t[i] \/ e = Other(t[i])
<1>1. t \in [1..n -> EdgeEnds(n)] /\ \A i, j \in 1..n : t[i][1] = t[j][1] => i = j
  BY DEF Chains
<1>2. \A i \in 1..n : t[i][1] \in 1..n
  BY <1>1, TwoEndsOfAnEdge
<1> DEFINE edge == [i \in 1..n |-> t[i][1]]
<1>3. edge \in Injection(1..n, 1..n)
  BY <1>1, <1>2 DEF Injection, IsInjective
<1>4. IsFiniteSet(1..n)
  BY FS_Interval
<1>5. edge \in Surjection(1..n, 1..n)
  BY <1>3, <1>4, FS_Injection
<1>6. e[1] \in 1..n
  BY TwoEndsOfAnEdge
<1>7. PICK i \in 1..n : t[i][1] = e[1]
  BY <1>5, <1>6 DEF Surjection
<1>8. QED  BY <1>1, <1>7, TwoEndsOfAnEdge

(* Where each corner is passed once, but that the last may be the first,   *)
(* no three ends meet.                                                     *)
LEMMA SimpleChainsArePlain ==
    ASSUME NEW n \in Nat \ {0}, NEW at, NEW t \in Chains(n, at, n),
           \A i, j \in 1..n : i < j => at[t[i]] # at[t[j]],
           \A i \in 2..n : at[Other(t[n])] # at[t[i]]
    PROVE  Plain(n, at)
<1>1. t \in [1..n -> EdgeEnds(n)] /\ \A i \in 1..(n - 1) : at[Other(t[i])] = at[t[i + 1]]
  BY DEF Chains
<1> DEFINE node == [p \in 1..(n + 1) |-> IF p = n + 1 THEN at[Other(t[n])] ELSE at[t[p]]]
<1> DEFINE Is(p, e) == (p # n + 1 /\ e = t[p]) \/ (p # 1 /\ e = Other(t[p - 1]))
<1>2. ASSUME NEW e \in EdgeEnds(n) PROVE \E p \in 1..(n + 1) : Is(p, e) /\ at[e] = node[p]
  <2>1. PICK i \in 1..n : e = t[i] \/ e = Other(t[i])
    BY ChainsCover
  <2>2. CASE e = t[i]
    <3>1. i \in 1..(n + 1) /\ i # n + 1
      OBVIOUS
    <3>2. QED  BY <2>2, <3>1
  <2>3. CASE e = Other(t[i])
    <3>1. i + 1 \in 1..(n + 1) /\ i + 1 # 1 /\ (i + 1) - 1 = i
      OBVIOUS
    <3>2. at[e] = node[i + 1]
      <4>1. CASE i = n
        BY <2>3, <4>1, <3>1
      <4>2. CASE i # n
        <5>1. i \in 1..(n - 1) /\ i + 1 # n + 1
          BY <4>2
        <5>2. QED  BY <1>1, <2>3, <5>1, <3>1
      <4>3. QED  BY <4>1, <4>2
    <3>3. Is(i + 1, e)
      BY <2>3, <3>1
    <3>4. QED  BY <3>1, <3>2, <3>3
  <2>4. QED  BY <2>1, <2>2, <2>3
<1>3. ASSUME NEW p \in 1..(n + 1), NEW q \in 1..(n + 1), node[p] = node[q], p < q
      PROVE  p = 1 /\ q = n + 1
  <2>1. p \in 1..n /\ node[p] = at[t[p]]
    BY <1>3
  <2>2. CASE q = n + 1
    <3>1. node[q] = at[Other(t[n])]
      BY <2>2
    <3>2. p \notin 2..n
      BY <1>3, <2>1, <3>1
    <3>3. QED  BY <2>1, <2>2, <3>2
  <2>3. CASE q # n + 1
    <3>1. q \in 1..n /\ node[q] = at[t[q]]
      BY <2>3
    <3>2. QED  BY <1>3, <2>1, <3>1
  <2>4. QED  BY <2>2, <2>3
<1> HIDE DEF node
<1> SUFFICES ASSUME NEW a \in EdgeEnds(n), NEW b \in EdgeEnds(n), NEW d \in EdgeEnds(n),
                    a # b, b # d, a # d, at[a] = at[b], at[b] = at[d]
             PROVE  FALSE
  BY DEF Plain
<1>4. PICK p \in 1..(n + 1) : Is(p, a) /\ at[a] = node[p]
  BY <1>2
<1>5. PICK q \in 1..(n + 1) : Is(q, b) /\ at[b] = node[q]
  BY <1>2
<1>6. PICK r \in 1..(n + 1) : Is(r, d) /\ at[d] = node[r]
  BY <1>2
<1>7. node[p] = node[q] /\ node[q] = node[r] /\ node[p] = node[r]
  BY <1>4, <1>5, <1>6
<1>8. /\ p = q \/ (p = 1 /\ q = n + 1) \/ (q = 1 /\ p = n + 1)
      /\ q = r \/ (q = 1 /\ r = n + 1) \/ (r = 1 /\ q = n + 1)
      /\ p = r \/ (p = 1 /\ r = n + 1) \/ (r = 1 /\ p = n + 1)
  <2>1. \A x, y \in 1..(n + 1) : x = y \/ x < y \/ y < x
    OBVIOUS
  <2>2. QED  BY <1>3, <1>7, <2>1
<1>9. 1 # n + 1
  OBVIOUS
<1>10. QED
  <2>1. CASE p = q /\ q = r
    BY <1>4, <1>5, <1>6, <2>1
  <2>2. CASE p = q /\ p # r
    BY <1>4, <1>5, <1>8, <1>9, <2>2
  <2>3. CASE p = r /\ p # q
    BY <1>4, <1>6, <1>8, <1>9, <2>3
  <2>4. CASE p # q /\ p # r
    BY <1>5, <1>6, <1>8, <1>9, <2>4
  <2>5. QED  BY <2>1, <2>2, <2>3, <2>4

(* A chain which comes back to where it began leaves no end loose; and     *)
(* where no end is loose, a chain which passes every edge comes back.      *)
LEMMA RoundsArePaired ==
    ASSUME NEW n \in Nat \ {0}, NEW at, NEW t \in Chains(n, at, n), at[Other(t[n])] = at[t[1]]
    PROVE  Paired(n, at)
<1>1. /\ t \in [1..n -> EdgeEnds(n)]
      /\ \A i, j \in 1..n : t[i][1] = t[j][1] => i = j
      /\ \A i \in 1..(n - 1) : at[Other(t[i])] = at[t[i + 1]]
  BY DEF Chains
<1>2. \A i \in 1..n : /\ t[i] \in EdgeEnds(n) /\ Other(t[i]) \in EdgeEnds(n)
                      /\ Other(t[i])[1] = t[i][1] /\ Other(t[i]) # t[i]
  BY <1>1, TwoEndsOfAnEdge
<1>3. ASSUME NEW i \in 1..n, NEW j \in 1..n PROVE t[i] # Other(t[j])
  BY <1>1, <1>2
<1>4. ASSUME NEW i \in 1..n
      PROVE  /\ \E b \in EdgeEnds(n) : t[i] # b /\ at[t[i]] = at[b]
             /\ \E b \in EdgeEnds(n) : Other(t[i]) # b /\ at[Other(t[i])] = at[b]
  <2>2. \E b \in EdgeEnds(n) : Other(t[i]) # b /\ at[Other(t[i])] = at[b]
    <3>1. CASE i = n
      <4>1. 1 \in 1..n
        OBVIOUS
      <4>2. QED  BY <1>2, <1>3, <3>1, <4>1
    <3>2. CASE i # n
      <4>1. i \in 1..(n - 1) /\ i + 1 \in 1..n
        BY <3>2
      <4>2. QED  BY <1>1, <1>2, <1>3, <4>1
    <3>3. QED  BY <3>1, <3>2
  <2>1. CASE i = 1
    <3>1. n \in 1..n
      OBVIOUS
    <3>2. t[i] # Other(t[n]) /\ at[t[i]] = at[Other(t[n])]
      BY <1>3, <2>1, <3>1
    <3>3. QED  BY <1>2, <3>1, <3>2, <2>2
  <2>3. CASE i # 1
    <3>1. i - 1 \in 1..(n - 1) /\ i - 1 \in 1..n /\ (i - 1) + 1 = i
      BY <2>3
    <3>2. t[i] # Other(t[i - 1]) /\ at[t[i]] = at[Other(t[i - 1])]
      BY <1>1, <1>3, <3>1
    <3>3. QED  BY <1>2, <3>1, <3>2, <2>2
  <2>4. QED  BY <2>1, <2>2, <2>3
<1>5. QED  BY <1>4, ChainsCover DEF Paired

LEMMA PairedChainsComeBack ==
    ASSUME NEW n \in Nat \ {0}, NEW at, Plain(n, at), Paired(n, at), NEW t \in Chains(n, at, n)
    PROVE  at[Other(t[n])] = at[t[1]]
<1>1. /\ t \in [1..n -> EdgeEnds(n)]
      /\ \A i, j \in 1..n : t[i][1] = t[j][1] => i = j
      /\ \A i \in 1..(n - 1) : at[Other(t[i])] = at[t[i + 1]]
  BY DEF Chains
<1>2. \A i \in 1..n : /\ t[i] \in EdgeEnds(n) /\ Other(t[i]) \in EdgeEnds(n)
                      /\ Other(t[i])[1] = t[i][1] /\ Other(t[i]) # t[i]
  BY <1>1, TwoEndsOfAnEdge
<1>3. ASSUME NEW i \in 1..n, NEW j \in 1..n PROVE t[i] # Other(t[j])
  BY <1>1, <1>2
<1>4. n \in 1..n
  OBVIOUS
<1>5. PICK b \in EdgeEnds(n) : Other(t[n]) # b /\ at[Other(t[n])] = at[b]
  BY <1>2, <1>4 DEF Paired
<1>6. PICK i \in 1..n : b = t[i] \/ b = Other(t[i])
  BY ChainsCover
<1>7. CASE b = t[i]
  <2>1. ~(i \in 2..n)
    BY <1>4, <1>5, <1>7, ChainsAreSimple
  <2>2. i = 1
    BY <2>1
  <2>3. QED  BY <1>5, <1>7, <2>2
<1>8. CASE b = Other(t[i])
  <2>1. i # n
    BY <1>5, <1>8
  <2>2. i \in 1..(n - 1) /\ i + 1 \in 1..n
    BY <2>1
  <2>3. at[b] = at[t[i + 1]]
    BY <1>1, <1>8, <2>2
  <2>4. t[i + 1] # b /\ t[i + 1] # Other(t[n])
    BY <1>3, <1>4, <1>8, <2>2
  <2>5. QED  BY <1>2, <1>4, <1>5, <2>2, <2>3, <2>4 DEF Plain
<1>9. QED  BY <1>6, <1>7, <1>8

(* Edges which make a chain as they are listed do not fall apart.          *)
LEMMA ListedChainsAreWhole ==
    ASSUME NEW n \in Nat \ {0}, NEW at, NEW t \in Chains(n, at, n), \A i \in 1..n : t[i][1] = i
    PROVE  Whole(n, at)
<1>1. t \in [1..n -> EdgeEnds(n)] /\ \A i \in 1..(n - 1) : at[Other(t[i])] = at[t[i + 1]]
  BY DEF Chains
<1> SUFFICES ASSUME NEW part \in SUBSET (1..n), part # {}, part # 1..n,
                    \A a, b \in EdgeEnds(n) : ~(a[1] \in part /\ b[1] \notin part /\ at[a] = at[b])
             PROVE  FALSE
  BY DEF Whole
<1>2. ASSUME NEW i \in 1..(n - 1) PROVE i \in part <=> i + 1 \in part
  <2>1. i \in 1..n /\ i + 1 \in 1..n
    OBVIOUS
  <2>2. Other(t[i]) \in EdgeEnds(n) /\ Other(t[i])[1] = i /\ t[i + 1] \in EdgeEnds(n)
        /\ t[i + 1][1] = i + 1 /\ at[Other(t[i])] = at[t[i + 1]]
    BY <1>1, <2>1, TwoEndsOfAnEdge
  <2>3. QED  BY <2>2
<1> DEFINE T == {m \in Nat : m + 1 \in 1..n => (m + 1 \in part <=> 1 \in part)}
<1>3. 0 \in T
  OBVIOUS
<1>4. ASSUME NEW m \in T PROVE m + 1 \in T
  <2> SUFFICES ASSUME (m + 1) + 1 \in 1..n PROVE (m + 1) + 1 \in part <=> 1 \in part
    OBVIOUS
  <2>1. m + 1 \in 1..(n - 1) /\ m + 1 \in 1..n
    OBVIOUS
  <2>2. QED  BY <1>2, <2>1
<1> HIDE DEF T
<1>5. T = Nat
  BY <1>3, <1>4, Counting DEF T
<1>6. ASSUME NEW i \in 1..n PROVE i \in part <=> 1 \in part
  <2>1. i - 1 \in Nat /\ (i - 1) + 1 = i
    OBVIOUS
  <2>2. i - 1 \in T
    BY <1>5, <2>1
  <2>3. QED  BY <2>1, <2>2 DEF T
<1>7. QED  BY <1>6

(* Edges which do not fall apart, and of which no three meet, make a chain *)
(* in some order: a chain which has not passed them all goes on at one of  *)
(* its ends.                                                               *)
LEMMA ChainsGrow ==
    ASSUME NEW n \in Nat, NEW at, Plain(n, at), Whole(n, at), NEW m \in 1..n, m # n,
           NEW t \in Chains(n, at, m)
    PROVE  Chains(n, at, m + 1) # {}
<1>1. /\ t \in [1..m -> EdgeEnds(n)]
      /\ \A i, j \in 1..m : t[i][1] = t[j][1] => i = j
      /\ \A i \in 1..(m - 1) : at[Other(t[i])] = at[t[i + 1]]
  BY DEF Chains
<1>2. \A i \in 1..m : /\ t[i] \in EdgeEnds(n) /\ Other(t[i]) \in EdgeEnds(n)
                      /\ Other(t[i])[1] = t[i][1] /\ Other(t[i]) # t[i] /\ t[i][1] \in 1..n
  BY <1>1, TwoEndsOfAnEdge
<1> DEFINE passed == {t[i][1] : i \in 1..m}
<1>3. passed \in SUBSET (1..n) /\ passed # {} /\ passed # 1..n
  <2>1. passed \in SUBSET (1..n) /\ t[1][1] \in passed
    BY <1>2
  <2>2. ASSUME passed = 1..n PROVE FALSE
    <3> DEFINE edge == [i \in 1..m |-> t[i][1]]
    <3>1. edge \in Surjection(1..m, 1..n)
      <4>1. edge \in [1..m -> 1..n]
        BY <1>2
      <4>2. \A k \in 1..n : \E i \in 1..m : edge[i] = k
        BY <2>2
      <4>3. QED  BY <4>1, <4>2 DEF Surjection
    <3>2. IsFiniteSet(1..m) /\ Cardinality(1..m) = m /\ Cardinality(1..n) = n
      BY FS_Interval
    <3>3. Cardinality(1..n) <= Cardinality(1..m)
      BY <3>1, <3>2, FS_Surjection
    <3>4. QED  BY <3>2, <3>3
  <2>3. QED  BY <2>1, <2>2
<1>4. PICK a \in EdgeEnds(n), b \in EdgeEnds(n) : a[1] \in passed /\ b[1] \notin passed /\ at[a] = at[b]
  BY <1>3 DEF Whole
<1>5. PICK i \in 1..m : a[1] = t[i][1]
  BY <1>4
<1>6. a = t[i] \/ a = Other(t[i])
  BY <1>2, <1>5, TwoEndsOfAnEdge
<1>7. b[1] \in 1..n /\ Other(b) \in EdgeEnds(n) /\ Other(b)[1] = b[1] /\ Other(Other(b)) = b
      /\ \A j \in 1..m : t[j][1] # b[1] /\ t[j] # b /\ Other(t[j]) # b
  BY <1>2, <1>4, TwoEndsOfAnEdge
<1> HIDE DEF passed
<1>8. CASE a = t[i]
  <2>1. i = 1
    <3> SUFFICES ASSUME i # 1 PROVE FALSE
      OBVIOUS
    <3>1. i - 1 \in 1..(m - 1) /\ i - 1 \in 1..m /\ (i - 1) + 1 = i /\ i - 1 # i
      OBVIOUS
    <3>2. at[Other(t[i - 1])] = at[a]
      BY <1>1, <1>8, <3>1
    <3>3. Other(t[i - 1]) # a /\ Other(t[i - 1]) # b /\ a # b
      BY <1>1, <1>2, <1>7, <1>8, <3>1
    <3>4. QED  BY <1>2, <1>4, <3>1, <3>2, <3>3 DEF Plain
  <2> DEFINE next == [j \in 1..(m + 1) |-> IF j = 1 THEN Other(b) ELSE t[j - 1]]
  <2>2. next[1] = Other(b) /\ \A j \in 1..m : j + 1 \in 1..(m + 1) /\ next[j + 1] = t[j]
    OBVIOUS
  <2>3. ASSUME NEW j \in 1..(m + 1), j # 1 PROVE j - 1 \in 1..m /\ next[j] = t[j - 1] /\ j - 1 \in 1..m
    BY <2>3
  <2>4. next \in [1..(m + 1) -> EdgeEnds(n)]
    BY <1>2, <1>7
  <2> HIDE DEF next
  <2>5. ASSUME NEW j \in 1..(m + 1), NEW k \in 1..(m + 1), next[j][1] = next[k][1] PROVE j = k
    <3>1. CASE j = 1 /\ k # 1
      BY <1>7, <2>2, <2>3, <2>5, <3>1
    <3>2. CASE j # 1 /\ k = 1
      BY <1>7, <2>2, <2>3, <2>5, <3>2
    <3>3. CASE j # 1 /\ k # 1
      <4>1. j - 1 = k - 1
        BY <1>1, <2>3, <2>5, <3>3
      <4>2. QED  BY <4>1
    <3>4. QED  BY <3>1, <3>2, <3>3
  <2>6. ASSUME NEW j \in 1..((m + 1) - 1) PROVE at[Other(next[j])] = at[next[j + 1]]
    <3>1. j \in 1..m /\ j \in 1..(m + 1) /\ next[j + 1] = t[j]
      BY <2>2
    <3>2. CASE j = 1
      BY <1>4, <1>7, <1>8, <2>1, <2>2, <3>1, <3>2
    <3>3. CASE j # 1
      <4>1. j - 1 \in 1..(m - 1) /\ (j - 1) + 1 = j /\ next[j] = t[j - 1]
        BY <2>3, <3>1, <3>3
      <4>2. QED  BY <1>1, <3>1, <4>1
    <3>4. QED  BY <3>2, <3>3
  <2>7. next \in Chains(n, at, m + 1)
    BY <2>4, <2>5, <2>6 DEF Chains
  <2>8. QED  BY <2>7
<1>9. CASE a = Other(t[i])
  <2>1. i = m
    <3> SUFFICES ASSUME i # m PROVE FALSE
      OBVIOUS
    <3>1. i \in 1..(m - 1) /\ i + 1 \in 1..m /\ i + 1 # i
      OBVIOUS
    <3>2. at[t[i + 1]] = at[a]
      BY <1>1, <1>9, <3>1
    <3>3. t[i + 1] # a /\ t[i + 1] # b /\ a # b
      BY <1>1, <1>2, <1>7, <1>9, <3>1
    <3>4. QED  BY <1>2, <1>4, <3>1, <3>2, <3>3 DEF Plain
  <2> DEFINE next == [j \in 1..(m + 1) |-> IF j = m + 1 THEN b ELSE t[j]]
  <2>2. next[m + 1] = b /\ \A j \in 1..m : j \in 1..(m + 1) /\ next[j] = t[j]
    OBVIOUS
  <2>3. \A j \in 1..(m + 1) : j = m + 1 \/ j \in 1..m
    OBVIOUS
  <2>4. next \in [1..(m + 1) -> EdgeEnds(n)]
    BY <1>2
  <2> HIDE DEF next
  <2>5. ASSUME NEW j \in 1..(m + 1), NEW k \in 1..(m + 1), next[j][1] = next[k][1] PROVE j = k
    BY <1>1, <1>7, <2>2, <2>3, <2>5
  <2>6. ASSUME NEW j \in 1..((m + 1) - 1) PROVE at[Other(next[j])] = at[next[j + 1]]
    <3>1. j \in 1..m /\ next[j] = t[j]
      BY <2>2
    <3>2. CASE j = m
      BY <1>4, <1>9, <2>1, <2>2, <3>1, <3>2
    <3>3. CASE j # m
      <4>1. j \in 1..(m - 1) /\ j + 1 \in 1..m
        BY <3>1, <3>3
      <4>2. QED  BY <1>1, <2>2, <3>1, <4>1
    <3>4. QED  BY <3>2, <3>3
  <2>7. next \in Chains(n, at, m + 1)
    BY <2>4, <2>5, <2>6 DEF Chains
  <2>8. QED  BY <2>7
<1>10. QED  BY <1>6, <1>8, <1>9

LEMMA WholeMakesAChain ==
    ASSUME NEW n \in Nat \ {0}, NEW at, Plain(n, at), Whole(n, at)
    PROVE  Chains(n, at, n) # {}
<1> DEFINE T == {m \in Nat : m + 1 \in 1..n => Chains(n, at, m + 1) # {}}
<1>1. 0 \in T
  <2>1. <<1, 1>> \in EdgeEnds(n)
    BY DEF EdgeEnds
  <2>2. [i \in 1..1 |-> <<1, 1>>] \in Chains(n, at, 1)
    BY <2>1 DEF Chains
  <2>3. 0 + 1 = 1
    OBVIOUS
  <2>4. QED  BY <2>2, <2>3
<1>2. ASSUME NEW m \in T PROVE m + 1 \in T
  <2> SUFFICES ASSUME (m + 1) + 1 \in 1..n PROVE Chains(n, at, (m + 1) + 1) # {}
    OBVIOUS
  <2>1. m + 1 \in 1..n /\ m + 1 # n
    OBVIOUS
  <2>2. PICK t : t \in Chains(n, at, m + 1)
    BY <2>1
  <2>3. QED  BY <2>1, <2>2, ChainsGrow
<1> HIDE DEF T
<1>3. T = Nat
  BY <1>1, <1>2, Counting DEF T
<1>4. n - 1 \in Nat /\ (n - 1) + 1 = n /\ n \in 1..n
  OBVIOUS
<1>5. QED  BY <1>3, <1>4 DEF T

(* A walk along the first k edges, as the end each is left from. *)
WalksTo(n, at, s, k) ==
    /\ \A i \in 1..k : s[i] \in EdgeEnds(n) /\ s[i][1] = i
    /\ \A i \in 1..(k - 1) : at[Other(s[i])] = at[s[i + 1]]

(* Where the edges make a chain as they are listed, a walk along the first *)
(* of them meets the next, whatever way the chain was walked.              *)
LEMMA WalksMeetTheNext ==
    ASSUME NEW n \in Nat, NEW at, Plain(n, at), NEW t \in Chains(n, at, n),
           \A i \in 1..n : t[i][1] = i,
           NEW k \in 1..(n - 1), k # 1, NEW s, WalksTo(n, at, s, k)
    PROVE  t[k + 1] \in EdgeEnds(n) /\ t[k + 1][1] = k + 1 /\ at[Other(s[k])] = at[t[k + 1]]
<1>1. t \in [1..n -> EdgeEnds(n)] /\ \A i \in 1..(n - 1) : at[Other(t[i])] = at[t[i + 1]]
  BY DEF Chains
<1>2. /\ k \in 1..n /\ k + 1 \in 1..n /\ k \in 1..k /\ k - 1 \in 1..k /\ k - 1 \in 1..(k - 1)
      /\ (k - 1) + 1 = k /\ k - 1 # k + 1
  OBVIOUS
<1>3. /\ t[k] \in EdgeEnds(n) /\ t[k][1] = k /\ t[k + 1] \in EdgeEnds(n) /\ t[k + 1][1] = k + 1
      /\ at[Other(t[k])] = at[t[k + 1]]
      /\ s[k] \in EdgeEnds(n) /\ s[k][1] = k /\ s[k - 1] \in EdgeEnds(n) /\ s[k - 1][1] = k - 1
      /\ at[Other(s[k - 1])] = at[s[k]]
  BY <1>1, <1>2 DEF WalksTo
<1>4. /\ Other(s[k - 1]) \in EdgeEnds(n) /\ Other(s[k - 1])[1] = k - 1
      /\ Other(t[k]) \in EdgeEnds(n) /\ Other(t[k])[1] = k
      /\ s[k] = t[k] \/ s[k] = Other(t[k])
  BY <1>3, TwoEndsOfAnEdge
<1>5. CASE s[k] = t[k]
  BY <1>3, <1>5
<1>6. CASE s[k] = Other(t[k])
  <2>1. Other(s[k - 1]) # s[k] /\ s[k] # t[k + 1] /\ Other(s[k - 1]) # t[k + 1]
    BY <1>2, <1>3, <1>4
  <2>2. QED  BY <1>3, <1>4, <1>6, <2>1 DEF Plain
<1>7. QED  BY <1>4, <1>3, <1>5, <1>6
-----------------------------------------------------------------------------
(* The ends of a loop which resolves. *)
LoopInv == loop \in Loops
AtCorner == [e \in EdgeEnds(Count) |-> CornerOf[Drawn(e[1])[e[2]]]]

LEMMA LoopIs ==
    ASSUME RingConstants, LoopInv
    PROVE  /\ loop.edges \in Seq(EdgeIds) /\ Count \in Nat /\ loop.open \in BOOLEAN
           /\ loop.near \in SUBSET SUBSET VertexIds
           /\ IsFiniteSet(VertexIds) /\ NoVertexId \notin VertexIds
           /\ \A i \in 1..Count : Drawn(i) \in (VertexIds \cup {NoVertexId}) \X (VertexIds \cup {NoVertexId})
<1>1. loop \in [edges : Seq(EdgeIds),
                ends : [EdgeIds -> (VertexIds \cup {NoVertexId}) \X (VertexIds \cup {NoVertexId})],
                near : SUBSET SUBSET VertexIds, open : BOOLEAN]
  BY DEF RingConstants, LoopInv
<1>2. Count \in Nat /\ \A i \in 1..Count : loop.edges[i] \in EdgeIds
  BY <1>1 DEF Count
<1>3. \A i \in 1..Count : Drawn(i) \in (VertexIds \cup {NoVertexId}) \X (VertexIds \cup {NoVertexId})
  BY <1>1, <1>2 DEF Drawn
<1>4. QED  BY <1>1, <1>2, <1>3 DEF RingConstants

LEMMA EndsAreVertices ==
    ASSUME RingConstants, LoopInv, Resolves
    PROVE  /\ Count \in Nat \ {0}
           /\ \A i \in 1..Count : Drawn(i)[1] \in VertexIds /\ Drawn(i)[2] \in VertexIds
                                 /\ Drawn(i) = <<Drawn(i)[1], Drawn(i)[2]>>
           /\ \A e \in EdgeEnds(Count) : Drawn(e[1])[e[2]] \in Met /\ Drawn(e[1])[e[2]] \in VertexIds
           /\ \A v \in Met : v \in VertexIds /\ \E e \in EdgeEnds(Count) : v = Drawn(e[1])[e[2]]
<1>1. Count \in Nat /\ Count # 0
  BY LoopIs DEF Resolves
<1>2. ASSUME NEW i \in 1..Count
      PROVE  /\ Drawn(i)[1] \in VertexIds /\ Drawn(i)[2] \in VertexIds
             /\ Drawn(i) = <<Drawn(i)[1], Drawn(i)[2]>>
  BY LoopIs DEF Resolves
<1>3. ASSUME NEW e \in EdgeEnds(Count)
      PROVE  Drawn(e[1])[e[2]] \in Met /\ Drawn(e[1])[e[2]] \in VertexIds
  <2>1. e[1] \in 1..Count /\ e[2] \in {1, 2}
    BY DEF EdgeEnds
  <2>2. QED  BY <1>2, <2>1 DEF Met
<1>4. ASSUME NEW v \in Met PROVE v \in VertexIds /\ \E e \in EdgeEnds(Count) : v = Drawn(e[1])[e[2]]
  <2>1. PICK i \in 1..Count : v \in {Drawn(i)[1], Drawn(i)[2]}
    BY DEF Met
  <2>2. PICK k \in {1, 2} : v = Drawn(i)[k]
    BY <2>1
  <2>3. <<i, k>> \in EdgeEnds(Count) /\ <<i, k>>[1] = i /\ <<i, k>>[2] = k
    BY DEF EdgeEnds
  <2>4. v = Drawn(<<i, k>>[1])[<<i, k>>[2]]
    BY <2>2, <2>3
  <2>5. v \in VertexIds
    BY <1>2, <2>1
  <2>6. QED  BY <2>3, <2>4, <2>5
<1>5. QED  BY <1>1, <1>2, <1>3, <1>4

(* What a set has at most two of, and what it has exactly two of.          *)
LEMMA Twos ==
    ASSUME NEW S, IsFiniteSet(S)
    PROVE  /\ Cardinality(S) \in Nat
           /\ Cardinality(S) > 2 <=> \E a, b, d \in S : a # b /\ b # d /\ a # d
           /\ \A a \in S : Cardinality(S) >= 2 <=> \E b \in S : a # b
<1>1. Cardinality(S) \in Nat
  BY FS_CardinalityType
<1>2. ASSUME NEW a \in S
      PROVE  /\ IsFiniteSet(S \ {a}) /\ Cardinality(S \ {a}) \in Nat
             /\ Cardinality(S \ {a}) = Cardinality(S) - 1
             /\ Cardinality(S \ {a}) = 0 <=> S \ {a} = {}
  BY FS_RemoveElement, FS_CardinalityType, FS_EmptySet
<1>3. ASSUME NEW a \in S PROVE Cardinality(S) >= 2 <=> \E b \in S : a # b
  <2>1. S \ {a} = {} <=> ~ \E b \in S : a # b
    OBVIOUS
  <2>2. Cardinality(S) - 1 = 0 <=> S \ {a} = {}
    BY <1>2
  <2>3. Cardinality(S) - 1 \in Nat
    BY <1>2
  <2>4. Cardinality(S) >= 2 <=> Cardinality(S) - 1 # 0
    BY <1>1, <2>3
  <2>5. QED  BY <2>1, <2>2, <2>4
<1>4. ASSUME NEW a \in S, NEW b \in S \ {a}
      PROVE  Cardinality(S) > 2 <=> \E d \in S : a # d /\ b # d
  <2>1. /\ IsFiniteSet(S \ {a}) /\ Cardinality(S \ {a}) = Cardinality(S) - 1
    BY <1>2
  <2>2. /\ Cardinality((S \ {a}) \ {b}) = Cardinality(S) - 2
        /\ Cardinality((S \ {a}) \ {b}) = 0 <=> (S \ {a}) \ {b} = {}
        /\ Cardinality((S \ {a}) \ {b}) \in Nat
    <3>1. IsFiniteSet((S \ {a}) \ {b}) /\ Cardinality((S \ {a}) \ {b}) = Cardinality(S \ {a}) - 1
      BY <2>1, FS_RemoveElement
    <3>2. Cardinality((S \ {a}) \ {b}) \in Nat
      BY <3>1, FS_CardinalityType
    <3>3. Cardinality((S \ {a}) \ {b}) = 0 <=> (S \ {a}) \ {b} = {}
      BY <3>1, FS_EmptySet
    <3>4. Cardinality((S \ {a}) \ {b}) = (Cardinality(S) - 1) - 1
      BY <2>1, <3>1
    <3>5. (Cardinality(S) - 1) - 1 = Cardinality(S) - 2
      BY <1>1
    <3>6. QED  BY <3>2, <3>3, <3>4, <3>5
  <2>3. QED  BY <1>1, <2>2
<1>5. Cardinality(S) > 2 => \E a \in S : \E b \in S \ {a} : TRUE
  <2> SUFFICES ASSUME Cardinality(S) > 2 PROVE \E a \in S : \E b \in S \ {a} : TRUE
    OBVIOUS
  <2>1. PICK a : a \in S
    BY FS_EmptySet
  <2>2. QED  BY <1>1, <1>3, <2>1
<1>6. QED  BY <1>1, <1>3, <1>4, <1>5

(* The ends which meet at the corner of a vertex. *)
EndsAt(v) == {e \in EdgeEnds(Count) : AtCorner[e] = CornerOf[v]}
LEMMA DegreeIs ==
    ASSUME RingConstants, LoopInv, NEW v
    PROVE  Degree(v) = Cardinality(EndsAt(v)) /\ IsFiniteSet(EndsAt(v))
<1>1. EndsAt(v) = {end \in (1..Count) \X {1, 2} : Same(Drawn(end[1])[end[2]], v)}
  BY DEF EndsAt, AtCorner, EdgeEnds, Same
<1>2. IsFiniteSet(1..Count) /\ IsFiniteSet({1, 2})
  <2>1. {1, 2} = {1} \cup {2}
    OBVIOUS
  <2>2. IsFiniteSet({1} \cup {2})
    BY FS_Singleton, FS_AddElement
  <2>3. IsFiniteSet(1..Count)
    BY LoopIs, FS_Interval
  <2>4. QED  BY <2>1, <2>2, <2>3
<1>3. IsFiniteSet(EdgeEnds(Count))
  BY <1>2, FS_Product DEF EdgeEnds
<1>4. IsFiniteSet(EndsAt(v))
  BY <1>3, FS_Subset DEF EndsAt
<1>5. QED  BY <1>1, <1>4 DEF Degree

(* No corner has a branch where no three ends meet, and every corner has   *)
(* two of them where, besides, none is loose.                              *)
LEMMA BranchingIs ==
    ASSUME RingConstants, LoopInv, Resolves
    PROVE  (\E v \in Met : Degree(v) > 2) <=> ~Plain(Count, AtCorner)
<1>1. ASSUME NEW v \in Met, Degree(v) > 2 PROVE ~Plain(Count, AtCorner)
  <2>1. Cardinality(EndsAt(v)) > 2 /\ IsFiniteSet(EndsAt(v))
    BY <1>1, DegreeIs
  <2>2. PICK a \in EndsAt(v), b \in EndsAt(v), d \in EndsAt(v) : a # b /\ b # d /\ a # d
    BY <2>1, Twos
  <2>3. QED  BY <2>2 DEF EndsAt, Plain
<1>2. ASSUME ~Plain(Count, AtCorner) PROVE \E v \in Met : Degree(v) > 2
  <2>1. PICK a \in EdgeEnds(Count), b \in EdgeEnds(Count), d \in EdgeEnds(Count) :
            a # b /\ b # d /\ a # d /\ AtCorner[a] = AtCorner[b] /\ AtCorner[b] = AtCorner[d]
    BY <1>2 DEF Plain
  <2> DEFINE v == Drawn(a[1])[a[2]]
  <2>2. v \in Met /\ AtCorner[a] = CornerOf[v]
    BY EndsAreVertices DEF AtCorner
  <2> HIDE DEF v
  <2>3. a \in EndsAt(v) /\ b \in EndsAt(v) /\ d \in EndsAt(v)
    BY <2>1, <2>2 DEF EndsAt
  <2>4. IsFiniteSet(EndsAt(v)) /\ Degree(v) = Cardinality(EndsAt(v))
    BY DegreeIs
  <2>5. Cardinality(EndsAt(v)) > 2
    BY <2>1, <2>3, <2>4, Twos
  <2>6. QED  BY <2>2, <2>4, <2>5
<1>3. QED  BY <1>1, <1>2

LEMMA IsRingIs ==
    ASSUME RingConstants, LoopInv, Resolves, Plain(Count, AtCorner)
    PROVE  IsRing <=> Paired(Count, AtCorner)
<1>1. ASSUME NEW a \in EdgeEnds(Count)
      PROVE  Degree(Drawn(a[1])[a[2]]) = 2 <=> \E b \in EdgeEnds(Count) : a # b /\ AtCorner[a] = AtCorner[b]
  <2> DEFINE v == Drawn(a[1])[a[2]]
  <2>1. v \in Met /\ AtCorner[a] = CornerOf[v]
    BY EndsAreVertices DEF AtCorner
  <2> HIDE DEF v
  <2>2. IsFiniteSet(EndsAt(v)) /\ Degree(v) = Cardinality(EndsAt(v))
    BY DegreeIs
  <2>3. ~(Degree(v) > 2)
    BY <2>1, BranchingIs
  <2>4. a \in EndsAt(v)
    BY <2>1 DEF EndsAt
  <2>5. Cardinality(EndsAt(v)) \in Nat /\ (Cardinality(EndsAt(v)) >= 2 <=> \E b \in EndsAt(v) : a # b)
    BY <2>2, <2>4, Twos
  <2>6. Degree(v) = 2 <=> \E b \in EndsAt(v) : a # b
    BY <2>2, <2>3, <2>5
  <2>7. QED  BY <2>1, <2>6 DEF EndsAt, v
<1>2. QED  BY <1>1, EndsAreVertices DEF IsRing, Paired

LEMMA SeparateIs ==
    ASSUME RingConstants, LoopInv, Resolves
    PROVE  Separate <=> ~Whole(Count, AtCorner)
<1>1. ASSUME NEW i \in 1..Count, NEW k \in {1, 2}
      PROVE  <<i, k>> \in EdgeEnds(Count) /\ <<i, k>>[1] = i /\ AtCorner[<<i, k>>] = CornerOf[Drawn(i)[k]]
  <2>1. <<i, k>> \in EdgeEnds(Count)
    BY DEF EdgeEnds
  <2>2. QED  BY <2>1 DEF AtCorner
<1>2. ASSUME NEW a \in EdgeEnds(Count)
      PROVE  \E i \in 1..Count, k \in {1, 2} : a = <<i, k>>
  BY DEF EdgeEnds
<1>3. ASSUME NEW part \in SUBSET (1..Count), part # {}, part # 1..Count
      PROVE  (\A i \in part, j \in (1..Count) \ part, k \in {1, 2}, l \in {1, 2} :
                 ~Same(Drawn(i)[k], Drawn(j)[l]))
             <=> ~ \E a, b \in EdgeEnds(Count) : a[1] \in part /\ b[1] \notin part /\ AtCorner[a] = AtCorner[b]
  <2>1. ASSUME NEW a \in EdgeEnds(Count), NEW b \in EdgeEnds(Count),
               a[1] \in part, b[1] \notin part, AtCorner[a] = AtCorner[b]
        PROVE  \E i \in part, j \in (1..Count) \ part : \E k, l \in {1, 2} : Same(Drawn(i)[k], Drawn(j)[l])
    <3>1. PICK i \in 1..Count, k \in {1, 2} : a = <<i, k>>
      BY <1>2
    <3>2. PICK j \in 1..Count, l \in {1, 2} : b = <<j, l>>
      BY <1>2
    <3>3. i \in part /\ j \in (1..Count) \ part
      BY <1>1, <2>1, <3>1, <3>2
    <3>4. CornerOf[Drawn(i)[k]] = CornerOf[Drawn(j)[l]]
      BY <1>1, <2>1, <3>1, <3>2
    <3>5. QED  BY <3>3, <3>4 DEF Same
  <2>2. ASSUME NEW i \in part, NEW j \in (1..Count) \ part, NEW k \in {1, 2}, NEW l \in {1, 2},
               Same(Drawn(i)[k], Drawn(j)[l])
        PROVE  \E a, b \in EdgeEnds(Count) : a[1] \in part /\ b[1] \notin part /\ AtCorner[a] = AtCorner[b]
    <3>1. i \in 1..Count /\ j \in 1..Count
      OBVIOUS
    <3>2. AtCorner[<<i, k>>] = AtCorner[<<j, l>>]
      BY <1>1, <2>2, <3>1 DEF Same
    <3>3. QED  BY <1>1, <3>1, <3>2
  <2>3. QED  BY <2>1, <2>2
<1> DEFINE Parted(part) ==
              \A i \in part, j \in (1..Count) \ part, k \in {1, 2}, l \in {1, 2} :
                  ~Same(Drawn(i)[k], Drawn(j)[l])
           Meeting(part) ==
              \E a, b \in EdgeEnds(Count) : a[1] \in part /\ b[1] \notin part /\ AtCorner[a] = AtCorner[b]
<1>4. \A part \in SUBSET (1..Count) : part # {} /\ part # 1..Count => (Parted(part) <=> ~Meeting(part))
  BY <1>3
<1>5. Separate <=> \E part \in SUBSET (1..Count) : part # {} /\ part # 1..Count /\ Parted(part)
  BY DEF Separate
<1>6. Whole(Count, AtCorner) <=> \A part \in SUBSET (1..Count) : part # {} /\ part # 1..Count => Meeting(part)
  BY DEF Whole
<1> HIDE DEF Parted, Meeting
<1>7. QED  BY <1>4, <1>5, <1>6, Zenon

(* What the edges are is settled by the three. *)
LEMMA FoundIs ==
    ASSUME RingConstants, LoopInv
    PROVE  /\ Found \in {"none", "unresolved", "repeated", "branching", "separate"}
           /\ Found = "unresolved" <=> ~Resolves
           /\ Resolves => (Found = "none" <=> ~Repeats /\ Plain(Count, AtCorner) /\ Whole(Count, AtCorner))
<1>1. CASE ~Resolves
  BY <1>1 DEF Found
<1>2. CASE Resolves
  BY <1>2, BranchingIs, SeparateIs DEF Found
<1>3. QED  BY <1>1, <1>2
-----------------------------------------------------------------------------
(* An order and the way each edge is walked in it, as the ends walked from. *)
Course(order, ways) == [i \in 1..Count |-> <<order[i], IF ways[i] THEN 1 ELSE 2>>]

LEMMA CourseIs ==
    ASSUME RingConstants, LoopInv, Resolves, NEW o \in Orders, NEW w \in Ways
    PROVE  /\ Course(o, w) \in [1..Count -> EdgeEnds(Count)]
           /\ \A i, j \in 1..Count : Course(o, w)[i][1] = Course(o, w)[j][1] => i = j
           /\ \A i \in 1..Count :
                 /\ Course(o, w)[i][1] = o[i]
                 /\ From(o, w, i) \in VertexIds /\ CornerOf[From(o, w, i)] = AtCorner[Course(o, w)[i]]
                 /\ To(o, w, i) \in VertexIds /\ CornerOf[To(o, w, i)] = AtCorner[Other(Course(o, w)[i])]
<1>1. ASSUME NEW i \in 1..Count
      PROVE  /\ Course(o, w)[i] \in EdgeEnds(Count) /\ Course(o, w)[i][1] = o[i]
             /\ From(o, w, i) \in VertexIds /\ CornerOf[From(o, w, i)] = AtCorner[Course(o, w)[i]]
             /\ To(o, w, i) \in VertexIds /\ CornerOf[To(o, w, i)] = AtCorner[Other(Course(o, w)[i])]
  <2> DEFINE k == IF w[i] THEN 1 ELSE 2
  <2>1. o[i] \in 1..Count /\ w[i] \in BOOLEAN /\ k \in {1, 2}
    BY DEF Orders, Ways
  <2>2. Course(o, w)[i] = <<o[i], k>> /\ From(o, w, i) = Drawn(o[i])[k]
    BY DEF Course, From
  <2>3. To(o, w, i) = Drawn(o[i])[3 - k] /\ 3 - k \in {1, 2}
    BY <2>1 DEF To
  <2> HIDE DEF k
  <2>4. <<o[i], k>> \in EdgeEnds(Count) /\ <<o[i], 3 - k>> \in EdgeEnds(Count)
    BY <2>1, <2>3 DEF EdgeEnds
  <2>5. Other(Course(o, w)[i]) = <<o[i], 3 - k>>
    BY <2>2 DEF Other
  <2>6. AtCorner[<<o[i], k>>] = CornerOf[Drawn(o[i])[k]] /\ AtCorner[<<o[i], 3 - k>>] = CornerOf[Drawn(o[i])[3 - k]]
    BY <2>4 DEF AtCorner
  <2>7. Drawn(o[i])[k] \in VertexIds /\ Drawn(o[i])[3 - k] \in VertexIds
    BY <2>1, <2>3, EndsAreVertices
  <2>8. QED  BY <2>2, <2>3, <2>4, <2>5, <2>6, <2>7
<1>2. Course(o, w) \in [1..Count -> EdgeEnds(Count)]
  BY <1>1 DEF Course
<1>3. \A i, j \in 1..Count : o[i] = o[j] => i = j
  BY DEF Orders
<1>4. QED  BY <1>1, <1>2, <1>3

(* Edges can be walked in an order where their ends make a chain and no    *)
(* three of them meet; and walked round where the chain comes back.        *)
LEMMA WalkableIs ==
    ASSUME RingConstants, LoopInv, Resolves, NEW o \in Orders, NEW w \in Ways
    PROVE  /\ Walkable(o, w) <=> Course(o, w) \in Chains(Count, AtCorner, Count) /\ Plain(Count, AtCorner)
           /\ Rounded(o, w) <=> /\ Course(o, w) \in Chains(Count, AtCorner, Count) /\ Plain(Count, AtCorner)
                                /\ AtCorner[Other(Course(o, w)[Count])] = AtCorner[Course(o, w)[1]]
<1> DEFINE t == Course(o, w)
<1>1. Count \in Nat \ {0} /\ Count \in 1..Count /\ 1 \in 1..Count
  BY EndsAreVertices
<1>2. /\ t \in [1..Count -> EdgeEnds(Count)]
      /\ \A i, j \in 1..Count : t[i][1] = t[j][1] => i = j
      /\ \A i \in 1..Count :
            /\ From(o, w, i) \in VertexIds /\ CornerOf[From(o, w, i)] = AtCorner[t[i]]
            /\ To(o, w, i) \in VertexIds /\ CornerOf[To(o, w, i)] = AtCorner[Other(t[i])]
  BY CourseIs
<1>3. \A v, x \in VertexIds : Merges(v, x) <=> CornerOf[v] = CornerOf[x]
  BY LoopIs, SameIsMerges DEF Same
<1> HIDE DEF t
<1>4. \A i, j \in 1..Count :
          /\ Merges(To(o, w, i), From(o, w, j)) <=> AtCorner[Other(t[i])] = AtCorner[t[j]]
          /\ Merges(From(o, w, i), From(o, w, j)) <=> AtCorner[t[i]] = AtCorner[t[j]]
  BY <1>2, <1>3
<1>5. \A i \in 1..(Count - 1) : i \in 1..Count /\ i + 1 \in 1..Count
  BY <1>1
<1>6. \A i \in 2..Count : i \in 1..Count
  BY <1>1
<1>7. ASSUME Walkable(o, w) PROVE t \in Chains(Count, AtCorner, Count) /\ Plain(Count, AtCorner)
  <2>1. \A i \in 1..(Count - 1) : AtCorner[Other(t[i])] = AtCorner[t[i + 1]]
    BY <1>4, <1>5, <1>7 DEF Walkable
  <2>2. t \in Chains(Count, AtCorner, Count)
    BY <1>2, <2>1 DEF Chains
  <2>3. \A i, j \in 1..Count : i < j => AtCorner[t[i]] # AtCorner[t[j]]
    BY <1>4, <1>7 DEF Walkable
  <2>4. \A i \in 2..Count : AtCorner[Other(t[Count])] # AtCorner[t[i]]
    BY <1>1, <1>4, <1>6, <1>7 DEF Walkable
  <2>5. QED  BY <1>1, <2>2, <2>3, <2>4, SimpleChainsArePlain
<1>8. ASSUME t \in Chains(Count, AtCorner, Count), Plain(Count, AtCorner) PROVE Walkable(o, w)
  <2>1. \A i \in 1..(Count - 1) : AtCorner[Other(t[i])] = AtCorner[t[i + 1]]
    BY <1>8 DEF Chains
  <2>2. /\ \A i, j \in 1..Count : i < j => AtCorner[t[i]] # AtCorner[t[j]]
        /\ \A i \in 2..Count : AtCorner[Other(t[Count])] # AtCorner[t[i]]
    BY <1>1, <1>8, ChainsAreSimple
  <2>3. \A i \in 1..(Count - 1) : Merges(To(o, w, i), From(o, w, i + 1))
    BY <1>4, <1>5, <2>1
  <2>4. \A i, j \in 1..Count : i < j => ~Merges(From(o, w, i), From(o, w, j))
    BY <1>4, <2>2
  <2>5. \A i \in 2..Count : ~Merges(To(o, w, Count), From(o, w, i))
    BY <1>1, <1>4, <1>6, <2>2
  <2>6. QED  BY <2>3, <2>4, <2>5 DEF Walkable
<1>9. Rounded(o, w) <=> Walkable(o, w) /\ AtCorner[Other(t[Count])] = AtCorner[t[1]]
  BY <1>1, <1>4 DEF Rounded
<1>10. QED  BY <1>7, <1>8, <1>9 DEF t

LEMMA ChainsAreCourses ==
    ASSUME RingConstants, LoopInv, Resolves, NEW t \in Chains(Count, AtCorner, Count)
    PROVE  \E o \in Orders, w \in Ways : t = Course(o, w) /\ ((\A i \in 1..Count : t[i][1] = i) => o = Listed)
<1> DEFINE o == [i \in 1..Count |-> t[i][1]]
           w == [i \in 1..Count |-> t[i][2] = 1]
<1>1. t \in [1..Count -> EdgeEnds(Count)] /\ \A i, j \in 1..Count : t[i][1] = t[j][1] => i = j
  BY DEF Chains
<1>2. \A i \in 1..Count : t[i][1] \in 1..Count /\ t[i][2] \in {1, 2} /\ t[i] = <<t[i][1], t[i][2]>>
  BY <1>1 DEF EdgeEnds
<1>3. o \in Orders /\ w \in Ways
  BY <1>1, <1>2 DEF Orders, Ways
<1>4. \A i \in 1..Count : Course(o, w)[i] = t[i]
  BY <1>2 DEF Course
<1>5. t = Course(o, w)
  BY <1>1, <1>4 DEF Course
<1>6. (\A i \in 1..Count : t[i][1] = i) => o = Listed
  BY DEF Listed
<1> HIDE DEF o, w
<1>7. QED  BY <1>3, <1>5, <1>6

(* What the property says a loop is, of its edges as they are listed and   *)
(* in every order.                                                         *)
Makes(order) == \E w \in Ways : Walkable(order, w)
MakesARing(order) == \E w \in Ways : Rounded(order, w)

LEMMA Verdicts ==
    ASSUME RingConstants, LoopInv, Resolves
    PROVE  /\ Listed \in Orders
           /\ \A o \in Orders : MakesARing(o) => Makes(o) /\ Plain(Count, AtCorner) /\ Paired(Count, AtCorner)
           /\ Makes(Listed) => Plain(Count, AtCorner) /\ Whole(Count, AtCorner)
           /\ Plain(Count, AtCorner) /\ Whole(Count, AtCorner) =>
                 \E o \in Orders : Makes(o) /\ (Paired(Count, AtCorner) => MakesARing(o))
<1>1. Listed \in Orders
  BY DEF Listed, Orders
<1>2. Count \in Nat \ {0}
  BY EndsAreVertices
<1>3. ASSUME NEW o \in Orders, MakesARing(o)
      PROVE  Makes(o) /\ Plain(Count, AtCorner) /\ Paired(Count, AtCorner)
  <2>1. PICK w \in Ways : Rounded(o, w)
    BY <1>3 DEF MakesARing
  <2>2. /\ Course(o, w) \in Chains(Count, AtCorner, Count) /\ Plain(Count, AtCorner)
        /\ AtCorner[Other(Course(o, w)[Count])] = AtCorner[Course(o, w)[1]]
    BY <2>1, WalkableIs
  <2>3. Paired(Count, AtCorner)
    BY <1>2, <2>2, RoundsArePaired
  <2>4. Makes(o)
    BY <2>1 DEF Makes, Rounded
  <2>5. QED  BY <2>2, <2>3, <2>4
<1>4. ASSUME Makes(Listed) PROVE Plain(Count, AtCorner) /\ Whole(Count, AtCorner)
  <2>1. PICK w \in Ways : Walkable(Listed, w)
    BY <1>4 DEF Makes
  <2>2. Course(Listed, w) \in Chains(Count, AtCorner, Count) /\ Plain(Count, AtCorner)
    BY <1>1, <2>1, WalkableIs
  <2>3. \A i \in 1..Count : Course(Listed, w)[i][1] = i
    BY <1>1, CourseIs DEF Listed
  <2>4. QED  BY <1>2, <2>2, <2>3, ListedChainsAreWhole
<1>5. ASSUME Plain(Count, AtCorner), Whole(Count, AtCorner)
      PROVE  \E o \in Orders : Makes(o) /\ (Paired(Count, AtCorner) => MakesARing(o))
  <2>1. PICK t : t \in Chains(Count, AtCorner, Count)
    BY <1>2, <1>5, WholeMakesAChain
  <2>2. PICK o \in Orders, w \in Ways : t = Course(o, w)
    BY <2>1, ChainsAreCourses
  <2>3. Walkable(o, w)
    BY <1>5, <2>1, <2>2, WalkableIs
  <2>4. ASSUME Paired(Count, AtCorner) PROVE Rounded(o, w)
    <3>1. AtCorner[Other(t[Count])] = AtCorner[t[1]]
      BY <1>2, <1>5, <2>1, <2>4, PairedChainsComeBack
    <3>2. QED  BY <1>5, <2>1, <2>2, <3>1, WalkableIs
  <2>5. QED  BY <2>3, <2>4 DEF Makes, MakesARing
<1>6. QED  BY <1>1, <1>3, <1>4, <1>5
-----------------------------------------------------------------------------
(* What an answer says, of the loop it is about; the property is that it   *)
(* is so of the answer a walk which is done has given.                     *)
Answered(found, closed) ==
    /\ found # "unresolved" =>
          /\ found = "none" <=> ~Repeats /\ IF loop.open THEN Makes(Listed) ELSE MakesARing(Listed)
          /\ closed <=> ~Repeats /\ MakesARing(Listed)
    /\ found = "disordered" => \E o \in Orders : IF loop.open THEN Makes(o) ELSE MakesARing(o)
    /\ found = "gap" => ~ \E o \in Orders : MakesARing(o)

LEMMA PropertyIs ==
    AssembledIsARing <=> (assembling.phase = "done" => Answered(assembly.found, assembly.closed))
<1>1. OnlyRingsAssemble <=>
        (assembling.phase = "done" /\ assembly.found # "unresolved" =>
          /\ assembly.found = "none" <=> ~Repeats /\ IF loop.open THEN Makes(Listed) ELSE MakesARing(Listed)
          /\ assembly.closed <=> ~Repeats /\ MakesARing(Listed))
  BY DEF OnlyRingsAssemble, Makes, MakesARing
<1>2. DisorderIsNoGap <=>
        (assembling.phase = "done" =>
          /\ assembly.found = "disordered" => \E o \in Orders : IF loop.open THEN Makes(o) ELSE MakesARing(o)
          /\ assembly.found = "gap" => ~ \E o \in Orders : MakesARing(o))
  BY DEF DisorderIsNoGap, Makes, MakesARing
<1>3. QED  BY <1>1, <1>2 DEF AssembledIsARing, Answered

(* What a walk under way has: steps along the edges in turn, one way round *)
(* or the other, which join for as long as nothing broke; and nothing      *)
(* breaks of a loop whose edges make a chain as they are listed.           *)
BothWays(i) == {<<Drawn(i)[1], Drawn(i)[2]>>, <<Drawn(i)[2], Drawn(i)[1]>>}
Walked(steps, breaks) ==
    /\ Found = "none" /\ Resolves
    /\ steps \in Seq(VertexIds \X VertexIds) /\ Len(steps) \in 1..Count
    /\ \A i \in 1..Len(steps) : steps[i] \in BothWays(i)
    /\ steps[1] = FirstStep
    /\ breaks \in Nat /\ breaks < Len(steps)
    /\ breaks = 0 => \A i \in 1..(Len(steps) - 1) : Same(steps[i][2], steps[i + 1][1])
    /\ breaks # 0 => ~Makes(Listed)

RingsInv ==
    /\ LoopInv
    /\ assembling.phase \in {"begun", "walking", "done"}
    /\ assembling.steps \in Seq(VertexIds \X VertexIds) /\ Len(assembling.steps) <= Count
    /\ assembling.breaks \in Nat /\ assembling.breaks <= Len(assembling.steps)
    /\ assembly \in [closed : BOOLEAN, found : LoopFindings]
    /\ assembling.phase = "begun" => assembling.steps = <<>> /\ assembling.breaks = 0
    /\ assembling.phase = "walking" => Walked(assembling.steps, assembling.breaks)
    /\ AssembledIsARing

(* The loop stays as it is, and so does all that is said of it.            *)
LEMMA LoopStands ==
    ASSUME loop' = loop, NEW a, NEW b
    PROVE  /\ Answered(a, b)' <=> Answered(a, b)
           /\ Walked(a, b)' <=> Walked(a, b)
           /\ Count' = Count /\ LoopInv' <=> LoopInv
<1>1. Count' = Count /\ \A i : Drawn(i)' = Drawn(i)
  BY DEF Count, Drawn
<1>2. Met' = Met
  BY <1>1 DEF Met
<1>3. Coincident' = Coincident
  BY <1>2 DEF Coincident
<1>4. CornerOf' = CornerOf
  BY <1>3 DEF CornerOf
<1>5. \A v, w : Same(v, w)' <=> Same(v, w)
  BY <1>4 DEF Same
<1>6. \A v, w : Merges(v, w)' <=> Merges(v, w)
  BY <1>3 DEF Merges
<1>7. /\ Resolves' <=> Resolves
      /\ Repeats' <=> Repeats
      /\ Separate' <=> Separate
      /\ \A v, i : Joins(v, i)' <=> Joins(v, i)
  BY <1>1, <1>5 DEF Resolves, Repeats, Separate, Joins
<1>8. \A v : Degree(v)' = Degree(v)
  BY <1>1, <1>5 DEF Degree
<1>9. (Found = "none")' <=> Found = "none"
  BY <1>2, <1>7, <1>8 DEF Found
<1>10. FirstStep' = FirstStep
  BY <1>1, <1>7 DEF FirstStep
<1>11. Ways' = Ways /\ Orders' = Orders /\ Listed' = Listed
  BY <1>1 DEF Ways, Orders, Listed
<1>12. \A o, w, i : From(o, w, i)' = From(o, w, i) /\ To(o, w, i)' = To(o, w, i)
  BY <1>1 DEF From, To
<1>13. \A o, w : Walkable(o, w)' <=> Walkable(o, w)
  BY <1>1, <1>6, <1>12 DEF Walkable
<1>14. \A o, w : Rounded(o, w)' <=> Rounded(o, w)
  BY <1>1, <1>6, <1>12, <1>13 DEF Rounded
<1>15. \A o : (Makes(o)' <=> Makes(o)) /\ (MakesARing(o)' <=> MakesARing(o))
  BY <1>11, <1>13, <1>14 DEF Makes, MakesARing
<1>16. Answered(a, b)' <=> Answered(a, b)
  BY <1>7, <1>11, <1>15 DEF Answered
<1>17. \A i : BothWays(i)' = BothWays(i)
  BY <1>1 DEF BothWays
<1>18. Walked(a, b)' <=> Walked(a, b)
  BY <1>1, <1>5, <1>7, <1>9, <1>10, <1>11, <1>15, <1>17 DEF Walked
<1>19. QED  BY <1>1, <1>16, <1>18 DEF LoopInv

(* The steps of a walk as the ends they leave from. *)
GoAlong(steps, k) == \A i \in 1..k : steps[i] \in BothWays(i)
LeaveFrom(s, steps, k) ==
    /\ s \in [1..k -> EdgeEnds(Count)]
    /\ \A i \in 1..k : /\ s[i][1] = i
                       /\ AtCorner[s[i]] = CornerOf[steps[i][1]]
                       /\ AtCorner[Other(s[i])] = CornerOf[steps[i][2]]
LEMMA StepsAreEnds ==
    ASSUME RingConstants, LoopInv, Resolves, NEW k \in 1..Count, NEW steps, GoAlong(steps, k)
    PROVE  \E s : LeaveFrom(s, steps, k)
<1>1. Count \in Nat /\ \A i \in 1..k : i \in 1..Count
  BY EndsAreVertices
<1> DEFINE s == [i \in 1..k |-> IF steps[i] = <<Drawn(i)[1], Drawn(i)[2]>> THEN <<i, 1>> ELSE <<i, 2>>]
<1>2. ASSUME NEW i \in 1..k
      PROVE  /\ s[i] \in EdgeEnds(Count) /\ s[i][1] = i
             /\ AtCorner[s[i]] = CornerOf[steps[i][1]]
             /\ AtCorner[Other(s[i])] = CornerOf[steps[i][2]]
  <2>1. <<i, 1>> \in EdgeEnds(Count) /\ <<i, 2>> \in EdgeEnds(Count)
    BY <1>1 DEF EdgeEnds
  <2>2. Other(<<i, 1>>) = <<i, 2>> /\ Other(<<i, 2>>) = <<i, 1>>
    BY DEF Other
  <2>3. AtCorner[<<i, 1>>] = CornerOf[Drawn(i)[1]] /\ AtCorner[<<i, 2>>] = CornerOf[Drawn(i)[2]]
    BY <2>1 DEF AtCorner
  <2>4. CASE steps[i] = <<Drawn(i)[1], Drawn(i)[2]>>
    BY <2>1, <2>2, <2>3, <2>4
  <2>5. CASE steps[i] # <<Drawn(i)[1], Drawn(i)[2]>>
    <3>1. steps[i] = <<Drawn(i)[2], Drawn(i)[1]>>
      BY <2>5 DEF BothWays, GoAlong
    <3>2. QED  BY <2>1, <2>2, <2>3, <2>5, <3>1
  <2>6. QED  BY <2>4, <2>5
<1>3. s \in [1..k -> EdgeEnds(Count)]
  BY <1>2
<1> HIDE DEF s
<1>4. LeaveFrom(s, steps, k)
  BY <1>2, <1>3 DEF LeaveFrom
<1>5. QED  BY <1>4

(* An end of an edge is one of the two it is drawn between.                *)
LEMMA EndIsDrawn ==
    ASSUME RingConstants, LoopInv, Resolves, NEW e \in EdgeEnds(Count)
    PROVE  /\ e[1] \in 1..Count
           /\ AtCorner[e] = CornerOf[Drawn(e[1])[1]] \/ AtCorner[e] = CornerOf[Drawn(e[1])[2]]
<1>1. e[1] \in 1..Count /\ e[2] \in {1, 2}
  BY DEF EdgeEnds
<1>2. AtCorner[e] = CornerOf[Drawn(e[1])[e[2]]]
  BY DEF AtCorner
<1>3. QED  BY <1>1, <1>2

(* A walk along edges which make a chain as they are listed meets the next *)
(* edge wherever it is.                                                    *)
LEMMA NothingBreaks ==
    ASSUME RingConstants, LoopInv, Makes(Listed), NEW steps, NEW breaks, Walked(steps, breaks),
           Len(steps) < Count
    PROVE  Joins(steps[Len(steps)][2], Len(steps) + 1)
<1> DEFINE k == Len(steps)
<1>1. /\ Resolves /\ k \in 1..Count /\ breaks = 0 /\ steps[1] = FirstStep
      /\ \A i \in 1..k : steps[i] \in BothWays(i)
      /\ \A i \in 1..(k - 1) : CornerOf[steps[i][2]] = CornerOf[steps[i + 1][1]]
  BY DEF Walked, Same
<1>2. Count \in Nat \ {0} /\ Listed \in Orders /\ Plain(Count, AtCorner)
  BY <1>1, EndsAreVertices, Verdicts
<1>3. PICK w \in Ways : Walkable(Listed, w)
  BY DEF Makes
<1> DEFINE t == Course(Listed, w)
<1>4. t \in Chains(Count, AtCorner, Count) /\ \A i \in 1..Count : t[i][1] = i
  BY <1>1, <1>2, <1>3, WalkableIs, CourseIs DEF Listed
<1>5. PICK s \in [1..k -> EdgeEnds(Count)] :
          \A i \in 1..k : /\ s[i][1] = i
                          /\ AtCorner[s[i]] = CornerOf[steps[i][1]]
                          /\ AtCorner[Other(s[i])] = CornerOf[steps[i][2]]
  <2>1. GoAlong(steps, k)
    BY <1>1 DEF GoAlong
  <2>2. PICK s : LeaveFrom(s, steps, k)
    BY <1>1, <2>1, StepsAreEnds
  <2>3. QED  BY <2>2 DEF LeaveFrom
<1> HIDE DEF t
<1> SUFFICES Joins(steps[k][2], k + 1)
  OBVIOUS
<1>6. k < Count /\ k \in 1..(Count - 1) /\ k + 1 \in 1..Count /\ k \in 1..k
  BY <1>1, <1>2
<1> HIDE DEF k
<1>7. \A e \in EdgeEnds(Count) : e[1] = k + 1 /\ CornerOf[steps[k][2]] = AtCorner[e] => Joins(steps[k][2], k + 1)
  BY <1>1, EndIsDrawn DEF Joins, Same
<1>8. CASE k # 1
  <2>1. \A i \in 1..(k - 1) : AtCorner[Other(s[i])] = AtCorner[s[i + 1]]
    <3>1. \A i \in 1..(k - 1) : i \in 1..k /\ i + 1 \in 1..k
      BY <1>6
    <3>2. QED  BY <1>1, <1>5, <3>1
  <2>2. Count \in Nat /\ \A i \in 1..k : s[i] \in EdgeEnds(Count) /\ s[i][1] = i
    BY <1>2, <1>5
  <2>4. t[k + 1] \in EdgeEnds(Count) /\ t[k + 1][1] = k + 1 /\ AtCorner[Other(s[k])] = AtCorner[t[k + 1]]
    <3>1. \A i \in 1..Count : t[i][1] = i
      BY <1>4
    <3>2. Plain(Count, AtCorner) /\ t \in Chains(Count, AtCorner, Count) /\ k \in 1..(Count - 1)
      BY <1>2, <1>4, <1>6
    <3>3. PICK n \in Nat, at \in {AtCorner} : n = Count /\ at = AtCorner
      BY <1>2
    <3>4. /\ Plain(n, at) /\ t \in Chains(n, at, n) /\ \A i \in 1..n : t[i][1] = i
          /\ k \in 1..(n - 1) /\ WalksTo(n, at, s, k)
      BY <2>1, <2>2, <3>1, <3>2, <3>3 DEF WalksTo
    <3>5. t[k + 1] \in EdgeEnds(n) /\ t[k + 1][1] = k + 1 /\ at[Other(s[k])] = at[t[k + 1]]
      BY <1>8, <3>4, WalksMeetTheNext
    <3>6. QED  BY <3>3, <3>5
  <2>5. QED  BY <1>5, <1>6, <1>7, <2>4
<1>9. CASE k = 1
  <2>1. /\ t[1] \in EdgeEnds(Count) /\ t[2] \in EdgeEnds(Count) /\ t[1][1] = 1 /\ t[2][1] = 2
        /\ AtCorner[Other(t[1])] = AtCorner[t[2]]
    <3>1. 1 \in 1..Count /\ 2 \in 1..Count /\ 1 \in 1..(Count - 1) /\ 1 + 1 = 2
      BY <1>2, <1>6, <1>9
    <3>2. QED  BY <1>4, <3>1 DEF Chains
  <2>2. Other(t[1]) \in EdgeEnds(Count) /\ Other(t[1])[1] = 1
    BY <1>2, <2>1, TwoEndsOfAnEdge
  <2>3. \/ AtCorner[Other(t[1])] = CornerOf[Drawn(1)[1]]
        \/ AtCorner[Other(t[1])] = CornerOf[Drawn(1)[2]]
    BY <1>1, <2>2, EndIsDrawn
  <2>4. \/ AtCorner[t[2]] = CornerOf[Drawn(2)[1]]
        \/ AtCorner[t[2]] = CornerOf[Drawn(2)[2]]
    BY <1>1, <2>1, EndIsDrawn
  <2>5. Joins(Drawn(1)[1], 2) \/ Joins(Drawn(1)[2], 2)
    BY <2>1, <2>3, <2>4 DEF Joins, Same
  <2>6. Count > 1
    BY <1>2, <1>6, <1>9
  <2>7. Joins(FirstStep[2], 2)
    BY <2>5, <2>6 DEF FirstStep
  <2>8. QED  BY <1>1, <1>9, <2>7
<1>10. QED  BY <1>8, <1>9

(* A walk which has passed every edge, and where nothing broke, has walked *)
(* a chain; and it is round a ring where it comes back.                    *)
LEMMA WalksPassAChain ==
    ASSUME RingConstants, LoopInv, NEW steps, Walked(steps, 0), Len(steps) = Count
    PROVE  /\ Makes(Listed)
           /\ MakesARing(Listed) <=> Same(steps[Count][2], steps[1][1])
<1>1. /\ Resolves /\ Plain(Count, AtCorner) /\ Count \in Nat \ {0}
      /\ \A i \in 1..Count : steps[i] \in BothWays(i)
      /\ \A i \in 1..(Count - 1) : CornerOf[steps[i][2]] = CornerOf[steps[i + 1][1]]
  BY FoundIs, EndsAreVertices DEF Walked, Same
<1>2. Count \in 1..Count /\ 1 \in 1..Count
      /\ \A i \in 1..(Count - 1) : i \in 1..Count /\ i + 1 \in 1..Count
  BY <1>1
<1>3. PICK s \in [1..Count -> EdgeEnds(Count)] :
          \A i \in 1..Count : /\ s[i][1] = i
                              /\ AtCorner[s[i]] = CornerOf[steps[i][1]]
                              /\ AtCorner[Other(s[i])] = CornerOf[steps[i][2]]
  <2>1. Resolves
    BY <1>1
  <2>2. Count \in 1..Count /\ \A i \in 1..Count : steps[i] \in BothWays(i)
    BY <1>1, <1>2
  <2>3. GoAlong(steps, Count)
    BY <2>2 DEF GoAlong
  <2>4. PICK s : LeaveFrom(s, steps, Count)
    BY <2>1, <2>2, <2>3, StepsAreEnds
  <2>5. QED  BY <2>4 DEF LeaveFrom
<1>4. s \in Chains(Count, AtCorner, Count)
  BY <1>1, <1>2, <1>3 DEF Chains
<1>5. PICK w \in Ways : s = Course(Listed, w)
  BY <1>1, <1>3, <1>4, ChainsAreCourses
<1>6. Listed \in Orders
  BY <1>1, Verdicts
<1>7. Walkable(Listed, w)
  BY <1>1, <1>4, <1>5, <1>6, WalkableIs
<1>8. AtCorner[Other(s[Count])] = AtCorner[s[1]] <=> Same(steps[Count][2], steps[1][1])
  BY <1>2, <1>3 DEF Same
<1>9. ASSUME Same(steps[Count][2], steps[1][1]) PROVE MakesARing(Listed)
  <2>1. Rounded(Listed, w)
    BY <1>1, <1>4, <1>5, <1>6, <1>8, <1>9, WalkableIs
  <2>2. QED  BY <2>1 DEF MakesARing
<1>10. ASSUME MakesARing(Listed) PROVE Same(steps[Count][2], steps[1][1])
  <2>1. Paired(Count, AtCorner)
    BY <1>1, <1>6, <1>10, Verdicts
  <2>2. QED  BY <1>1, <1>4, <1>8, <2>1, PairedChainsComeBack
<1>11. QED  BY <1>7, <1>9, <1>10 DEF Makes
-----------------------------------------------------------------------------
(* What is found of the edges themselves is so. *)
LEMMA EdgesAreAnswered ==
    ASSUME RingConstants, LoopInv, Found # "none"
    PROVE  Answered(Found, FALSE)
<1>1. Found \notin {"none", "disordered", "gap"}
  BY FoundIs
<1>2. CASE ~Resolves
  BY <1>1, <1>2, FoundIs DEF Answered
<1>3. CASE Resolves
  <2>1. ~Repeats => ~(Plain(Count, AtCorner) /\ Whole(Count, AtCorner))
    BY <1>3, FoundIs
  <2>2. Makes(Listed) => Plain(Count, AtCorner) /\ Whole(Count, AtCorner)
    BY <1>3, Verdicts
  <2>3. MakesARing(Listed) => Makes(Listed)
    BY <1>3, Verdicts
  <2>4. ~Repeats => ~Makes(Listed) /\ ~MakesARing(Listed)
    BY <2>1, <2>2, <2>3
  <2>5. ~(~Repeats /\ IF loop.open THEN Makes(Listed) ELSE MakesARing(Listed))
    BY <2>4
  <2>6. QED  BY <1>1, <2>4, <2>5 DEF Answered
<1>4. QED  BY <1>2, <1>3

(* What is found of the walk is so. *)
LEMMA WalksAreAnswered ==
    ASSUME RingConstants, LoopInv, NEW steps, NEW breaks, Walked(steps, breaks), Len(steps) = Count,
           NEW joined \in BOOLEAN, joined <=> Same(steps[Count][2], steps[1][1]),
           NEW broken, broken = breaks + IF ~joined /\ ~loop.open THEN 1 ELSE 0
    PROVE  Answered(IF broken = 0 THEN "none" ELSE IF loop.open \/ IsRing THEN "disordered" ELSE "gap",
                    broken = 0 /\ joined)
<1>1. Resolves /\ ~Repeats /\ Plain(Count, AtCorner) /\ Whole(Count, AtCorner) /\ breaks \in Nat
  BY FoundIs DEF Walked
<1>2. loop.open \in BOOLEAN
  BY LoopIs
<1>3. /\ Listed \in Orders
      /\ MakesARing(Listed) => Makes(Listed)
      /\ \E o \in Orders : Makes(o) /\ (Paired(Count, AtCorner) => MakesARing(o))
      /\ \A o \in Orders : MakesARing(o) => Paired(Count, AtCorner)
  BY <1>1, Verdicts
<1>4. IsRing <=> Paired(Count, AtCorner)
  BY <1>1, IsRingIs
<1>5. /\ breaks = 0 => Makes(Listed) /\ (MakesARing(Listed) <=> joined)
      /\ breaks # 0 => ~Makes(Listed)
  BY WalksPassAChain DEF Walked
<1>6. broken = 0 <=> breaks = 0 /\ (joined \/ loop.open)
  BY <1>1, <1>2
<1>7. CASE broken = 0
  BY <1>1, <1>2, <1>3, <1>5, <1>6, <1>7 DEF Answered
<1>8. CASE broken # 0
  <2>1. ~(IF loop.open THEN Makes(Listed) ELSE MakesARing(Listed)) /\ ~MakesARing(Listed)
    BY <1>3, <1>5, <1>6, <1>8
  <2>2. CASE loop.open \/ IsRing
    <3>1. \E o \in Orders : IF loop.open THEN Makes(o) ELSE MakesARing(o)
      BY <1>3, <1>4, <2>2
    <3>2. QED  BY <1>8, <2>1, <2>2, <3>1 DEF Answered
  <2>3. CASE ~(loop.open \/ IsRing)
    <3>1. ~ \E o \in Orders : MakesARing(o)
      BY <1>3, <1>4, <2>3
    <3>2. QED  BY <1>8, <2>1, <2>3, <3>1 DEF Answered
  <2>4. QED  BY <2>2, <2>3
<1>9. QED  BY <1>7, <1>8

(* A walk which goes on along the next edge is a walk.                     *)
LEMMA WalksGoOn ==
    ASSUME RingConstants, LoopInv, NEW steps, NEW breaks, Walked(steps, breaks), Len(steps) < Count,
           NEW step \in BothWays(Len(steps) + 1), NEW broken \in {0, 1},
           broken = 0 => Same(steps[Len(steps)][2], step[1]),
           broken = 1 => ~Joins(steps[Len(steps)][2], Len(steps) + 1)
    PROVE  Walked(Append(steps, step), breaks + broken)
<1> DEFINE k == Len(steps)
           next == Append(steps, step)
<1>1. /\ Found = "none" /\ Resolves
      /\ steps \in Seq(VertexIds \X VertexIds) /\ k \in 1..Count
      /\ \A i \in 1..k : steps[i] \in BothWays(i)
      /\ steps[1] = FirstStep
      /\ breaks \in Nat /\ breaks < k
      /\ breaks = 0 => \A i \in 1..(k - 1) : Same(steps[i][2], steps[i + 1][1])
      /\ breaks # 0 => ~Makes(Listed)
  BY DEF Walked
<1>2. k + 1 \in 1..Count /\ k \in Nat /\ 1 \in 1..k /\ k \in 1..k
  BY <1>1, LoopIs
<1>3. step \in VertexIds \X VertexIds
  BY <1>1, <1>2, EndsAreVertices DEF BothWays
<1>4. /\ next \in Seq(VertexIds \X VertexIds) /\ Len(next) = k + 1 /\ next[k + 1] = step
      /\ \A i \in 1..k : next[i] = steps[i]
  BY <1>1, <1>3
<1>5. ~(broken = 1 /\ Makes(Listed))
  BY NothingBreaks
<1> HIDE DEF next, k
<1>6. \A i \in 1..(k + 1) : i \in 1..k \/ i = k + 1
  BY <1>2
<1>7. \A i \in 1..(k + 1) : next[i] \in BothWays(i)
  BY <1>1, <1>4, <1>6 DEF k
<1>8. ASSUME breaks + broken = 0, NEW i \in 1..((k + 1) - 1) PROVE Same(next[i][2], next[i + 1][1])
  <2>1. breaks = 0 /\ broken = 0
    BY <1>1, <1>8
  <2>2. i \in 1..k
    BY <1>2
  <2>3. CASE i = k
    BY <1>2, <1>4, <2>1, <2>3 DEF k
  <2>4. CASE i # k
    <3>1. i \in 1..(k - 1) /\ i + 1 \in 1..k
      BY <1>2, <2>2, <2>4
    <3>2. QED  BY <1>1, <1>4, <2>1, <2>2, <3>1
  <2>5. QED  BY <2>3, <2>4
<1>9. breaks + broken # 0 => ~Makes(Listed)
  BY <1>1, <1>5
<1>10. breaks + broken \in Nat /\ breaks + broken < k + 1
  BY <1>1, <1>2
<1>11. Walked(next, breaks + broken)
  BY <1>1, <1>2, <1>4, <1>7, <1>8, <1>9, <1>10 DEF Walked
<1>12. QED  BY <1>11 DEF next
-----------------------------------------------------------------------------
LEMMA PropertyIsThen ==
    AssembledIsARing' <=> (assembling.phase = "done" => Answered(assembly.found, assembly.closed))'
BY PropertyIs, PTL

LEMMA RingsStart ==
    ASSUME RingConstants, RingsInit
    PROVE  RingsInv
<1>1. LoopInv
  BY DEF RingsInit, LoopInv
<1>2. Count \in Nat
  BY <1>1, LoopIs
<1>3. /\ assembling.phase = "begun" /\ assembling.steps = <<>> /\ assembling.breaks = 0
      /\ assembly = [closed |-> FALSE, found |-> "none"]
  BY DEF RingsInit
<1>4. assembling.steps \in Seq(VertexIds \X VertexIds) /\ Len(assembling.steps) = 0
  BY <1>3
<1>5. AssembledIsARing
  BY <1>3, PropertyIs
<1>6. QED  BY <1>1, <1>2, <1>3, <1>4, <1>5 DEF RingsInv, LoopFindings

LEMMA ExamineKeeps ==
    ASSUME RingConstants, RingsInv, Examine
    PROVE  RingsInv'
<1>1. LoopInv /\ loop' = loop /\ assembly' = [closed |-> FALSE, found |-> Found]
  BY DEF Examine, RingsInv
<1>2. Found \in LoopFindings
  BY <1>1, FoundIs DEF LoopFindings
<1>3. PICK f : f = Found
  OBVIOUS
<1>4. Count' = Count /\ LoopInv'
  BY <1>1, LoopStands
<1>5. CASE Found = "none"
  <2>1. assembling' = [phase |-> "walking", steps |-> <<FirstStep>>, breaks |-> 0]
    BY <1>5 DEF Examine
  <2>2. Resolves
    BY <1>1, <1>5, FoundIs
  <2>3. Count \in Nat \ {0} /\ 1 \in 1..Count
    BY <1>1, <2>2, EndsAreVertices
  <2>4. FirstStep \in BothWays(1) /\ FirstStep \in VertexIds \X VertexIds
    BY <1>1, <2>2, <2>3, EndsAreVertices DEF FirstStep, BothWays
  <2>5. PICK steps : steps = <<FirstStep>>
    OBVIOUS
  <2>6. /\ steps \in Seq(VertexIds \X VertexIds) /\ Len(steps) = 1 /\ steps[1] = FirstStep
    BY <2>4, <2>5
  <2>7. Walked(steps, 0)
    BY <1>5, <2>2, <2>3, <2>4, <2>6 DEF Walked
  <2>8. Walked(steps, 0)'
    BY <1>1, <2>7, LoopStands
  <2>9. assembling'.phase = "walking" /\ assembling'.steps = steps /\ assembling'.breaks = 0
    BY <2>1, <2>5
  <2>10. Walked(assembling.steps, assembling.breaks)'
    BY <2>8, <2>9 DEF Walked
  <2>11. AssembledIsARing'
    BY <2>9, PropertyIsThen
  <2>12. /\ assembling'.steps \in Seq(VertexIds \X VertexIds) /\ Len(assembling'.steps) <= Count'
         /\ assembling'.breaks \in Nat /\ assembling'.breaks <= Len(assembling'.steps)
    BY <1>4, <2>3, <2>6, <2>9
  <2>13. assembly' \in [closed : BOOLEAN, found : LoopFindings]
    BY <1>1, <1>2
  <2> QED  BY <1>4, <2>9, <2>10, <2>11, <2>12, <2>13 DEF RingsInv
<1>6. CASE Found # "none"
  <2>1. /\ assembling'.phase = "done" /\ assembling'.steps = assembling.steps
        /\ assembling'.breaks = assembling.breaks
    BY <1>6 DEF Examine
  <2>2. Answered(f, FALSE)
    BY <1>1, <1>3, <1>6, EdgesAreAnswered
  <2>3. Answered(f, FALSE)'
    BY <1>1, <2>2, LoopStands
  <2>4. Answered(assembly.found, assembly.closed)'
    BY <1>1, <1>3, <2>3 DEF Answered
  <2>5. AssembledIsARing'
    BY <2>4, PropertyIsThen
  <2>6. QED  BY <1>1, <1>2, <1>4, <2>1, <2>5 DEF RingsInv
<1>7. QED  BY <1>5, <1>6

LEMMA AlongKeeps ==
    ASSUME RingConstants, RingsInv, Walking, NEW from, NEW to, NEW broken \in {0, 1},
           <<from, to>> \in BothWays(Len(assembling.steps) + 1),
           broken = 0 => Same(Reached, from),
           broken = 1 => ~Joins(Reached, Len(assembling.steps) + 1),
           Along(from, to, broken)
    PROVE  RingsInv'
<1>1. LoopInv /\ loop' = loop /\ assembly' = assembly /\ assembly \in [closed : BOOLEAN, found : LoopFindings]
  BY DEF Along, RingsInv
<1>2. PICK steps, breaks : steps = assembling.steps /\ breaks = assembling.breaks
  OBVIOUS
<1>3. Walked(steps, breaks) /\ Len(steps) < Count
  BY <1>2 DEF RingsInv, Walking
<1>4. PICK next : next = Append(steps, <<from, to>>)
  OBVIOUS
<1>5. <<from, to>>[1] = from
  OBVIOUS
<1>6. Walked(next, breaks + broken)
  BY <1>1, <1>2, <1>3, <1>4, <1>5, WalksGoOn DEF Reached
<1>7. Walked(next, breaks + broken)' /\ Count' = Count /\ LoopInv'
  BY <1>1, <1>6, LoopStands
<1>8. /\ assembling'.phase = "walking" /\ assembling'.steps = next
      /\ assembling'.breaks = breaks + broken
  BY <1>2, <1>4 DEF Along
<1>9. Walked(assembling.steps, assembling.breaks)'
  BY <1>7, <1>8 DEF Walked
<1>10. AssembledIsARing'
  BY <1>8, PropertyIsThen
<1>11. /\ next \in Seq(VertexIds \X VertexIds) /\ Len(next) \in 1..Count
       /\ breaks + broken \in Nat /\ breaks + broken < Len(next)
  BY <1>6 DEF Walked
<1>12. /\ assembling'.steps \in Seq(VertexIds \X VertexIds) /\ Len(assembling'.steps) <= Count'
       /\ assembling'.breaks \in Nat /\ assembling'.breaks <= Len(assembling'.steps)
  BY <1>1, <1>7, <1>8, <1>11, LoopIs
<1>13. assembly' \in [closed : BOOLEAN, found : LoopFindings]
  BY <1>1
<1>14. QED  BY <1>7, <1>8, <1>9, <1>10, <1>12, <1>13 DEF RingsInv

LEMMA ContinueKeeps ==
    ASSUME RingConstants, RingsInv, Continue
    PROVE  RingsInv'
<1> DEFINE i == Len(assembling.steps) + 1
           next == Drawn(i)
<1>1. /\ Walking
      /\ \/ Same(Reached, next[1]) /\ Along(next[1], next[2], 0)
         \/ Same(Reached, next[2]) /\ Along(next[2], next[1], 0)
  BY DEF Continue
<1>2. <<next[1], next[2]>> \in BothWays(i) /\ <<next[2], next[1]>> \in BothWays(i)
  BY DEF BothWays
<1> HIDE DEF next
<1>3. CASE Same(Reached, next[1]) /\ Along(next[1], next[2], 0)
  BY <1>1, <1>2, <1>3, AlongKeeps
<1>4. CASE Same(Reached, next[2]) /\ Along(next[2], next[1], 0)
  BY <1>1, <1>2, <1>4, AlongKeeps
<1>5. QED  BY <1>1, <1>3, <1>4

LEMMA BreakKeeps ==
    ASSUME RingConstants, RingsInv, Break
    PROVE  RingsInv'
<1> DEFINE i == Len(assembling.steps) + 1
<1>1. Walking /\ ~Joins(Reached, i)
  BY DEF Break
<1>2. PICK near \in {1, 2} : Along(Drawn(i)[near], Drawn(i)[3 - near], 1)
  BY DEF Break
<1>3. <<Drawn(i)[near], Drawn(i)[3 - near]>> \in BothWays(i)
  BY DEF BothWays
<1>4. QED  BY <1>1, <1>2, <1>3, AlongKeeps

LEMMA ReturnKeeps ==
    ASSUME RingConstants, RingsInv, Return
    PROVE  RingsInv'
<1>1. /\ LoopInv /\ loop' = loop /\ assembling.phase = "walking" /\ Len(assembling.steps) = Count
  BY DEF Return, RingsInv
<1>2. PICK steps, breaks : steps = assembling.steps /\ breaks = assembling.breaks
  OBVIOUS
<1>3. Walked(steps, breaks) /\ Len(steps) = Count
  BY <1>1, <1>2 DEF RingsInv
<1>4. Count \in Nat /\ Count > 0 /\ breaks \in Nat /\ breaks < Count
  BY <1>1, <1>3, LoopIs DEF Walked
<1>5. PICK joined \in BOOLEAN : joined <=> Same(steps[Count][2], steps[1][1])
  OBVIOUS
<1>6. PICK broken : broken = breaks + IF ~joined /\ ~loop.open THEN 1 ELSE 0
  OBVIOUS
<1>7. PICK found : found = IF broken = 0 THEN "none" ELSE IF loop.open \/ IsRing THEN "disordered" ELSE "gap"
  OBVIOUS
<1>8. PICK closed \in BOOLEAN : closed = (broken = 0 /\ joined)
  OBVIOUS
<1>9. Same(Reached, assembling.steps[1][1]) <=> joined
  BY <1>1, <1>2, <1>5 DEF Reached
<1>10. /\ assembling' = [phase |-> "done", steps |-> steps, breaks |-> broken]
       /\ assembly' = [closed |-> closed, found |-> found]
  <2>1. broken = assembling.breaks + IF ~Same(Reached, assembling.steps[1][1]) /\ ~loop.open THEN 1 ELSE 0
    BY <1>2, <1>6, <1>9
  <2>2. closed = (broken = 0 /\ Same(Reached, assembling.steps[1][1]))
    BY <1>8, <1>9
  <2>3. QED  BY <1>2, <1>7, <2>1, <2>2 DEF Return
<1>11. Answered(found, closed)
  BY <1>1, <1>3, <1>5, <1>6, <1>7, <1>8, WalksAreAnswered
<1>12. Answered(found, closed)' /\ Count' = Count /\ LoopInv'
  BY <1>1, <1>11, LoopStands
<1>13. assembly'.found = found /\ assembly'.closed = closed
  BY <1>10
<1>14. Answered(assembly.found, assembly.closed)'
  BY <1>12, <1>13 DEF Answered
<1>15. AssembledIsARing'
  BY <1>14, PropertyIsThen
<1>16. broken \in Nat /\ broken <= Count
  BY <1>4, <1>6
<1>17. /\ assembling'.steps \in Seq(VertexIds \X VertexIds) /\ Len(assembling'.steps) <= Count'
       /\ assembling'.breaks \in Nat /\ assembling'.breaks <= Len(assembling'.steps)
       /\ assembling'.phase = "done"
  BY <1>2, <1>3, <1>4, <1>10, <1>12, <1>16 DEF RingsInv
<1>18. found \in LoopFindings
  BY <1>7 DEF LoopFindings
<1>19. assembly' \in [closed : BOOLEAN, found : LoopFindings]
  BY <1>10, <1>18
<1>20. QED  BY <1>12, <1>15, <1>17, <1>19 DEF RingsInv

LEMMA RingsStutter ==
    ASSUME RingConstants, RingsInv, UNCHANGED rings
    PROVE  RingsInv'
<1>1. loop' = loop /\ assembling' = assembling /\ assembly' = assembly
  BY DEF rings
<1>2. PICK steps, breaks, found, closed :
          /\ steps = assembling.steps /\ breaks = assembling.breaks
          /\ found = assembly.found /\ closed = assembly.closed
  OBVIOUS
<1>3. /\ Count' = Count /\ LoopInv' <=> LoopInv
      /\ Walked(steps, breaks)' <=> Walked(steps, breaks)
      /\ Answered(found, closed)' <=> Answered(found, closed)
  BY <1>1, LoopStands
<1>4. assembling.phase = "walking" => Walked(assembling.steps, assembling.breaks)'
  <2>1. assembling.phase = "walking" => Walked(steps, breaks)'
    BY <1>2, <1>3 DEF RingsInv
  <2>2. QED  BY <1>1, <1>2, <2>1 DEF Walked
<1>5. assembling.phase = "done" => Answered(assembly.found, assembly.closed)'
  <2>1. assembling.phase = "done" => Answered(found, closed)'
    BY <1>2, <1>3, PropertyIs DEF RingsInv
  <2>2. QED  BY <1>1, <1>2, <2>1 DEF Answered
<1>6. AssembledIsARing'
  BY <1>1, <1>5, PropertyIsThen
<1>7. QED  BY <1>1, <1>3, <1>4, <1>6 DEF RingsInv

(* Whatever the corners, however close, a loop which assembles is a ring   *)
(* in the order it is listed, and a run a chain; edges out of order make   *)
(* one in another, and edges with a gap make a ring in none.               *)
THEOREM LoopsAssembleAsRings ==
    ASSUME RingConstants
    PROVE  RingsSpec => []AssembledIsARing
<1>1. RingsInit => RingsInv
  BY RingsStart
<1>2. RingsInv /\ [RingsNext]_rings => RingsInv'
  BY ExamineKeeps, ContinueKeeps, BreakKeeps, ReturnKeeps, RingsStutter DEF RingsNext
<1>3. RingsInv => AssembledIsARing
  BY DEF RingsInv
<1>4. QED  BY <1>1, <1>2, <1>3, PTL DEF RingsSpec

(* The steps of a walk are between vertices, no more of them than edges,   *)
(* and no more of them break.                                              *)
THEOREM RingsTypes ==
    ASSUME RingConstants
    PROVE  RingsSpec => []RingsTypeOK
<1>1. RingsInit => RingsInv
  BY RingsStart
<1>2. RingsInv /\ [RingsNext]_rings => RingsInv'
  BY ExamineKeeps, ContinueKeeps, BreakKeeps, ReturnKeeps, RingsStutter DEF RingsNext
<1>3. RingsInv => RingsTypeOK
  <2> SUFFICES ASSUME RingsInv PROVE RingsTypeOK
    OBVIOUS
  <2>1. loop.edges \in Seq(EdgeIds) /\ Count \in Nat
    BY LoopIs DEF RingsInv
  <2>2. assembling.breaks \in 0..Count
    BY <2>1 DEF RingsInv
  <2>3. QED  BY <2>1, <2>2 DEF RingsInv, RingsTypeOK
<1>4. QED  BY <1>1, <1>2, <1>3, PTL DEF RingsSpec
=============================================================================
