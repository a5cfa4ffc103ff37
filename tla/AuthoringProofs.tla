-------------------------- MODULE AuthoringProofs ---------------------------
(***************************************************************************)
(* Proofs about Authoring for every set of ids and predicates, every model *)
(* to begin with and any number of operations.  Growth carries them: what  *)
(* the forms of a batch say includes what the graph it loaded says, so an  *)
(* answer given by the graph is never undone by an earlier operation.      *)
(***************************************************************************)
EXTENDS AuthoringLedger, FiniteSetTheorems, TLAPS

(* What is written once stays written, and grows only at its end. *)
ClaimKept(a, b) ==
    /\ b.id = a.id /\ b.pred = a.pred
    /\ Len(a.by) <= Len(b.by)
    /\ \A j \in 1..Len(a.by) : b.by[j] = a.by[j]
FormKept(a, b) ==
    /\ a.tag # "none" => b.tag = a.tag
    /\ a.retired # <<>> => b.retired # <<>>
    /\ Len(a.claims) <= Len(b.claims)
    /\ \A k \in 1..Len(a.claims) : ClaimKept(a.claims[k], b.claims[k])
Grown(f, g) == \A i \in Ids : FormKept(f[i], g[i])

(* A model an operation may be asked to change. *)
Model(f) ==
    /\ f \in [Ids -> Forms]
    /\ f[Frame].tag = "frame"
    /\ \A i \in Ids : f[i].tag = "none" => f[i] = Blank

LEMMA BlankForm ==
    /\ Blank.tag = "none" /\ Blank.within = NoId /\ Blank.backing = <<>>
    /\ Blank.transform = NoId /\ Blank.retired = <<>> /\ Blank.claims = <<>>
    /\ Blank \in Forms
BY DEF Blank, Forms

LEMMA IdsApart ==
    /\ NoId \notin Ids /\ Frame \in Ids /\ Names \subseteq Ids /\ Chosen \subseteq Ids
    /\ Frame \notin Names /\ Frame \notin Chosen
BY ConstantsOK DEF Ids

LEMMA FormFields ==
    ASSUME NEW a \in Forms
    PROVE  /\ a.tag \in {"none", "node", "edge", "frame"}
           /\ a.within \in Ids \cup {NoId} /\ a.backing \in Seq(Ids)
           /\ a.transform \in Ids \cup {NoId}
           /\ a.retired \in Seq(Ids \cup {NoId}) /\ a.claims \in Seq(Claims)
           /\ Len(a.claims) \in Nat
           /\ DOMAIN a.claims = 1..Len(a.claims)
           /\ \A k \in 1..Len(a.claims) : a.claims[k] \in Claims
BY DEF Forms

LEMMA ClaimFields ==
    ASSUME NEW c \in Claims
    PROVE  /\ c.id \in Ids \cup {NoId} /\ c.pred \in Predicates /\ c.by \in Seq(Ids)
           /\ Len(c.by) \in Nat /\ DOMAIN c.by = 1..Len(c.by)
           /\ \A j \in 1..Len(c.by) : c.by[j] \in Ids
           /\ Deprecated(c) <=> Len(c.by) > 0
BY DEF Claims, Deprecated

LEMMA ClaimKeptTransitive ==
    ASSUME NEW a \in Claims, NEW b \in Claims, NEW c \in Claims,
           ClaimKept(a, b), ClaimKept(b, c)
    PROVE  ClaimKept(a, c)
BY ClaimFields DEF ClaimKept

LEMMA FormKeptTransitive ==
    ASSUME NEW a \in Forms, NEW b \in Forms, NEW c \in Forms,
           FormKept(a, b), FormKept(b, c)
    PROVE  FormKept(a, c)
<1>1. a.tag # "none" => c.tag = a.tag
  BY DEF FormKept
<1>2. a.retired # <<>> => c.retired # <<>>
  BY DEF FormKept
<1>3. /\ Len(a.claims) \in Nat /\ Len(b.claims) \in Nat /\ Len(c.claims) \in Nat
      /\ Len(a.claims) <= Len(b.claims) /\ Len(b.claims) <= Len(c.claims)
  BY FormFields DEF FormKept
<1>4. ASSUME NEW k \in 1..Len(a.claims)
      PROVE  ClaimKept(a.claims[k], c.claims[k])
  <2>1. k \in 1..Len(b.claims) /\ k \in 1..Len(c.claims)
    BY <1>3
  <2>2. a.claims[k] \in Claims /\ b.claims[k] \in Claims /\ c.claims[k] \in Claims
    BY <2>1, FormFields
  <2>3. ClaimKept(a.claims[k], b.claims[k]) /\ ClaimKept(b.claims[k], c.claims[k])
    BY <2>1 DEF FormKept
  <2>4. QED  BY <2>2, <2>3, ClaimKeptTransitive
<1>5. QED  BY <1>1, <1>2, <1>3, <1>4 DEF FormKept

LEMMA FormKeptReflexive == ASSUME NEW a \in Forms PROVE FormKept(a, a)
BY FormFields, ClaimFields DEF FormKept, ClaimKept

LEMMA GrownReflexive == ASSUME NEW f \in [Ids -> Forms] PROVE Grown(f, f)
BY FormKeptReflexive DEF Grown

LEMMA GrownTransitive ==
    ASSUME NEW f \in [Ids -> Forms], NEW g \in [Ids -> Forms], NEW h \in [Ids -> Forms],
           Grown(f, g), Grown(g, h)
    PROVE  Grown(f, h)
BY FormKeptTransitive DEF Grown

(* One form is changed, and kept. *)
LEMMA OneForm ==
    ASSUME NEW f, Model(f), NEW i \in Ids, NEW form \in Forms,
           FormKept(f[i], form), form.tag # "none", i = Frame => form.tag = "frame"
    PROVE  Model([f EXCEPT ![i] = form]) /\ Grown(f, [f EXCEPT ![i] = form])
BY FormKeptReflexive DEF Model, Grown
-----------------------------------------------------------------------------
(* Every operation leaves a model which has grown.                         *)

LEMMA Arguments ==
    /\ \A i \in Names : i \in Ids /\ i # Frame
    /\ \A i \in Chosen : i \in Ids /\ i # Frame /\ i # NoId
    /\ Frame \in Ids /\ NoId \notin Ids
BY IdsApart

LEMMA AddNodeGrows ==
    ASSUME Model(forms), NEW id \in Chosen, AddNodeAllowed(id)
    PROVE  Model(NodeAdded(id)) /\ Grown(forms, NodeAdded(id))
<1> DEFINE form == [Blank EXCEPT !.tag = "node"]
<1>1. id \in Ids /\ id # Frame
  BY Arguments
<1>2. forms[id] = Blank
  BY <1>1 DEF AddNodeAllowed, Unheld, Written, Model
<1>3. form \in Forms /\ form.tag = "node"
  BY BlankForm DEF Forms
<1>4. FormKept(forms[id], form)
  BY <1>2, BlankForm DEF FormKept, Forms
<1>5. QED  BY <1>1, <1>3, <1>4, OneForm DEF NodeAdded

LEMMA AddEdgeGrows ==
    ASSUME Model(forms), NEW id \in Chosen, NEW backing \in Names \cup {NoId},
           AddEdgeAllowed(id, backing)
    PROVE  Model(EdgeAdded(id, backing)) /\ Grown(forms, EdgeAdded(id, backing))
<1> DEFINE list == IF backing = NoId THEN <<>> ELSE <<backing>>
<1> DEFINE form == [Blank EXCEPT !.tag = "edge", !.backing = list]
<1>1. id \in Ids /\ id # Frame
  BY Arguments
<1>2. forms[id] = Blank
  BY <1>1 DEF AddEdgeAllowed, Unheld, Written, Model
<1>3. list \in Seq(Ids)
  BY Arguments
<1> HIDE DEF list
<1>4. form \in Forms /\ form.tag = "edge"
  BY <1>3, BlankForm DEF Forms
<1>5. FormKept(forms[id], form)
  BY <1>2, BlankForm DEF FormKept, Forms
<1>6. EdgeAdded(id, backing) = [forms EXCEPT ![id] = form]
  BY DEF EdgeAdded, list
<1> HIDE DEF form
<1>7. /\ Model([forms EXCEPT ![id] = form])
      /\ Grown(forms, [forms EXCEPT ![id] = form])
  BY <1>1, <1>4, <1>5, OneForm
<1>8. QED  BY <1>6, <1>7

(* What a relation is written on is there, and keeps what else it says.    *)
LEMMA ReferredIsWritten ==
    ASSUME Model(graph), Model(forms), Grown(graph, forms), NEW id \in Ids,
           NEW tag \in {"node", "edge"}, Refers(id, tag)
    PROVE  forms[id].tag = tag
BY DEF Refers, Entities, Grown, FormKept

LEMMA RelateGrows ==
    ASSUME Model(graph), Model(forms), Grown(graph, forms),
           NEW id \in Names, NEW within \in Names, RelateAllowed(id)
    PROVE  Model(Related(id, within)) /\ Grown(forms, Related(id, within))
<1> DEFINE form == [forms[id] EXCEPT !.within = within]
<1>1. id \in Ids /\ id # Frame /\ within \in Ids
  BY Arguments
<1>2. forms[id] \in Forms /\ forms[id].tag = "node"
  BY <1>1, ReferredIsWritten DEF RelateAllowed, Model
<1>3. form \in Forms /\ form.tag = "node"
  BY <1>1, <1>2 DEF Forms
<1>4. form.claims = forms[id].claims /\ form.retired = forms[id].retired
  BY <1>2 DEF Forms
<1>5. FormKept(forms[id], form)
  BY <1>2, <1>3, <1>4, FormKeptReflexive DEF FormKept
<1>6. Related(id, within) = [forms EXCEPT ![id] = form]
  BY DEF Related
<1> HIDE DEF form
<1>7. /\ Model([forms EXCEPT ![id] = form])
      /\ Grown(forms, [forms EXCEPT ![id] = form])
  BY <1>1, <1>3, <1>5, OneForm
<1>8. QED  BY <1>6, <1>7

LEMMA SetBackingGrows ==
    ASSUME Model(graph), Model(forms), Grown(graph, forms),
           NEW id \in Names, NEW backing \in Names \cup {NoId}, SetBackingAllowed(id)
    PROVE  Model(BackedAs(id, backing)) /\ Grown(forms, BackedAs(id, backing))
<1> DEFINE list == IF backing = NoId THEN <<>> ELSE <<backing>>
<1> DEFINE form == [forms[id] EXCEPT !.backing = list]
<1>1. id \in Ids /\ id # Frame /\ list \in Seq(Ids)
  BY Arguments
<1>2. forms[id] \in Forms /\ forms[id].tag = "edge"
  BY <1>1, ReferredIsWritten DEF SetBackingAllowed, Model
<1> HIDE DEF list
<1>3. form \in Forms /\ form.tag = "edge"
  BY <1>1, <1>2 DEF Forms
<1>4. form.claims = forms[id].claims /\ form.retired = forms[id].retired
  BY <1>2 DEF Forms
<1>5. FormKept(forms[id], form)
  BY <1>2, <1>3, <1>4, FormKeptReflexive DEF FormKept
<1>6. BackedAs(id, backing) = [forms EXCEPT ![id] = form]
  BY DEF BackedAs, list
<1> HIDE DEF form
<1>7. /\ Model([forms EXCEPT ![id] = form])
      /\ Grown(forms, [forms EXCEPT ![id] = form])
  BY <1>1, <1>3, <1>5, OneForm
<1>8. QED  BY <1>6, <1>7

(* A claim is written at the end of its subject's.                         *)
LEMMA RecordGrows ==
    ASSUME Model(graph), Model(forms), Grown(graph, forms), NEW s \in Names \cup {Frame},
           NEW p \in Predicates, NEW id \in Ids \cup {NoId}, Subject(s)
    PROVE  Model(Recorded(s, p, id)) /\ Grown(forms, Recorded(s, p, id))
<1> DEFINE claim == [id |-> id, pred |-> p, by |-> <<>>]
<1> DEFINE form == [forms[s] EXCEPT !.claims = Append(@, claim)]
<1>1. s \in Ids
  BY Arguments
<1>2. forms[s] \in Forms /\ forms[s].tag # "none"
  BY <1>1 DEF Subject, Model, Entities, Grown, FormKept
<1>3. claim \in Claims
  BY DEF Claims
<1> HIDE DEF claim
<1>4. forms[s].claims \in Seq(Claims)
  BY <1>2, FormFields
<1>5. Append(forms[s].claims, claim) \in Seq(Claims)
  BY <1>3, <1>4
<1>6. /\ form \in Forms /\ form.tag = forms[s].tag /\ form.retired = forms[s].retired
      /\ form.claims = Append(forms[s].claims, claim)
  BY <1>2, <1>5 DEF Forms
<1>7. Len(form.claims) = Len(forms[s].claims) + 1
      /\ \A k \in 1..Len(forms[s].claims) : form.claims[k] = forms[s].claims[k]
  BY <1>3, <1>4, <1>6
<1>8. FormKept(forms[s], form)
  BY <1>2, <1>6, <1>7, FormKeptReflexive, FormFields DEF FormKept
<1>9. Recorded(s, p, id) = [forms EXCEPT ![s] = form]
  BY DEF Recorded, claim
<1>10. s = Frame => form.tag = "frame"
  BY <1>6 DEF Model
<1> HIDE DEF form
<1>11. /\ Model([forms EXCEPT ![s] = form])
       /\ Grown(forms, [forms EXCEPT ![s] = form])
  BY <1>1, <1>2, <1>6, <1>8, <1>10, OneForm
<1>12. QED  BY <1>9, <1>11

(* A place is an id and the position of a claim written under it.          *)
LEMMA PlacesAre ==
    ASSUME NEW f, Model(f)
    PROVE  \A at : at \in Places(f) <=>
               \E i \in Ids : \E k \in 1..Len(f[i].claims) : at = <<i, k>>
<1>1. \A i \in Ids : f[i] \in Forms
  BY DEF Model
<1>2. \A i \in Ids : DOMAIN f[i].claims = 1..Len(f[i].claims) /\ f[i].claims \in Seq(Claims)
  BY <1>1, FormFields
<1>3. \A i \in Ids : f[i].claims = <<>> => 1..Len(f[i].claims) = {}
  OBVIOUS
<1>4. ASSUME NEW at
      PROVE  at \in Places(f) <=>
                 \E i \in Ids : at \in {i} \X DOMAIN f[i].claims /\ f[i].claims # <<>>
  BY DEF Places
<1>5. QED  BY <1>2, <1>3, <1>4

LEMMA PlaceFields ==
    ASSUME NEW f, Model(f), NEW at \in Places(f)
    PROVE  /\ at[1] \in Ids /\ at[2] \in 1..Len(f[at[1]].claims)
           /\ at = <<at[1], at[2]>>
           /\ At(f, at) = f[at[1]].claims[at[2]]
           /\ At(f, at) \in Claims
<1>0. PICK i \in Ids : \E k \in 1..Len(f[i].claims) : at = <<i, k>>
  BY PlacesAre
<1>1. PICK k \in 1..Len(f[i].claims) : at = <<i, k>>
  BY <1>0
<1>2. at[1] = i /\ at[2] = k
  BY <1>1
<1>3. f[i] \in Forms
  BY DEF Model
<1>4. f[i].claims[k] \in Claims
  BY <1>3, FormFields
<1>5. QED  BY <1>1, <1>2, <1>4 DEF At

LEMMA PlacesGrow ==
    ASSUME NEW f, NEW g, Model(f), Model(g), Grown(f, g), NEW at \in Places(f)
    PROVE  at \in Places(g) /\ ClaimKept(At(f, at), At(g, at))
<1> DEFINE i == at[1]
           k == at[2]
<1>1. i \in Ids /\ k \in 1..Len(f[i].claims) /\ at = <<i, k>>
  BY PlaceFields
<1>2. FormKept(f[i], g[i])
  BY <1>1 DEF Grown
<1>3. f[i] \in Forms /\ g[i] \in Forms
  BY <1>1 DEF Model
<1>4. Len(f[i].claims) \in Nat /\ Len(g[i].claims) \in Nat
  BY <1>3, FormFields
<1>5. Len(f[i].claims) <= Len(g[i].claims) /\ ClaimKept(f[i].claims[k], g[i].claims[k])
  BY <1>1, <1>2 DEF FormKept
<1>6. k \in 1..Len(g[i].claims)
  BY <1>1, <1>4, <1>5
<1>7. at \in Places(g)
  BY <1>1, <1>6, PlacesAre
<1>8. QED  BY <1>5, <1>7 DEF At

(* The frame of g is where the claim the frame of f named leads in g.      *)
Follows(f, g) ==
    \A ids \in SUBSET Ids :
        f[Frame].transform \in ids /\ Closed(g, ids) => g[Frame].transform \in ids

LEMMA ClosedBefore ==
    ASSUME NEW f, NEW g, Model(f), Model(g), Grown(f, g), NEW ids, Closed(g, ids)
    PROVE  Closed(f, ids)
<1> SUFFICES ASSUME NEW at \in Places(f), At(f, at).id \in ids, NEW k \in DOMAIN At(f, at).by
             PROVE  At(f, at).by[k] \in ids
  BY DEF Closed
<1>1. at \in Places(g) /\ ClaimKept(At(f, at), At(g, at))
  BY PlacesGrow
<1>2. At(f, at) \in Claims /\ At(g, at) \in Claims
  BY <1>1, PlaceFields
<1>3. k \in 1..Len(At(f, at).by) /\ k \in DOMAIN At(g, at).by
  BY <1>1, <1>2, ClaimFields DEF ClaimKept
<1>4. At(g, at).by[k] \in ids
  BY <1>1, <1>3 DEF Closed, ClaimKept
<1>5. QED  BY <1>1, <1>3, <1>4 DEF ClaimKept

LEMMA FollowsTransitive ==
    ASSUME NEW f, NEW g, NEW h, Model(g), Model(h), Grown(g, h), Follows(f, g), Follows(g, h)
    PROVE  Follows(f, h)
BY ClosedBefore DEF Follows

LEMMA SameTransform ==
    ASSUME NEW f, NEW g, g[Frame].transform = f[Frame].transform
    PROVE  Follows(f, g)
BY DEF Follows

LEMMA ClaimGrows ==
    ASSUME NEW c \in Claims, NEW by \in Ids
    PROVE  LET d == [c EXCEPT !.by = Append(@, by)]
           IN  /\ d \in Claims /\ d.id = c.id /\ d.pred = c.pred
               /\ d.by = Append(c.by, by) /\ ClaimKept(c, d)
<1> DEFINE list == Append(c.by, by)
           d == [c EXCEPT !.by = list]
<1>1. c.by \in Seq(Ids) /\ Len(c.by) \in Nat
  BY ClaimFields
<1>2. list \in Seq(Ids) /\ Len(list) = Len(c.by) + 1
      /\ \A j \in 1..Len(c.by) : list[j] = c.by[j]
  BY <1>1
<1> HIDE DEF list
<1>3. d \in Claims /\ d.id = c.id /\ d.pred = c.pred /\ d.by = list
  BY <1>2 DEF Claims
<1> HIDE DEF d
<1>4. ClaimKept(c, d)
  BY <1>1, <1>2, <1>3 DEF ClaimKept
<1>5. QED  BY <1>3, <1>4 DEF list, d

(* A retraction is written at the end of a claim's, and moves the frame.   *)
LEMMA RetractGrows ==
    ASSUME Model(graph), NEW f, Model(f), Grown(graph, f), NEW at \in Places(graph),
           NEW by \in Ids
    PROVE  /\ Model(Retracted(f, at, by)) /\ Grown(f, Retracted(f, at, by))
           /\ Follows(f, Retracted(f, at, by))
           /\ \A j \in Ids : Len(Retracted(f, at, by)[j].claims) = Len(f[j].claims)
<1> DEFINE i == at[1]
           k == at[2]
           claim == [f[i].claims[k] EXCEPT !.by = Append(@, by)]
           list == [f[i].claims EXCEPT ![k] = claim]
           form == [f[i] EXCEPT !.claims = list]
           marked == [f EXCEPT ![i] = form]
           frame == [marked[Frame] EXCEPT !.transform = by]
<1>1. at \in Places(f)
  BY PlacesGrow
<1>2. i \in Ids /\ k \in 1..Len(f[i].claims)
  BY <1>1, PlaceFields
<1>3. f[i] \in Forms
  BY <1>2 DEF Model
<1>4. f[i].claims \in Seq(Claims) /\ f[i].claims[k] \in Claims
  BY <1>2, <1>3, FormFields
<1>5. claim \in Claims
  BY <1>4, ClaimGrows
<1>6. ClaimKept(f[i].claims[k], claim)
  BY <1>4, ClaimGrows
<1>7. claim.by = Append(f[i].claims[k].by, by)
  BY <1>4, ClaimGrows
<1> HIDE DEF claim
<1>8. /\ list \in Seq(Claims) /\ Len(list) = Len(f[i].claims)
      /\ \A j \in 1..Len(f[i].claims) :
            list[j] = IF j = k THEN claim ELSE f[i].claims[j]
  BY <1>2, <1>4, <1>5
<1> HIDE DEF list
<1>9. /\ form \in Forms /\ form.tag = f[i].tag /\ form.retired = f[i].retired
      /\ form.claims = list /\ form.transform = f[i].transform
  BY <1>3, <1>8 DEF Forms
<1>10. form.tag # "none"
  <2>1. CASE f[i].tag = "none"
    <3>1. f[i].claims = <<>>
      BY <2>1, <1>2, BlankForm DEF Model
    <3>2. QED  BY <3>1, <1>2
  <2>2. QED  BY <2>1, <1>9
<1>11. FormKept(f[i], form)
  <2>1. \A j \in 1..Len(f[i].claims) : ClaimKept(f[i].claims[j], f[i].claims[j])
    BY <1>3, FormKeptReflexive DEF FormKept
  <2>2. Len(f[i].claims) \in Nat
    BY <1>3, FormFields
  <2>3. QED  BY <1>6, <1>8, <1>9, <2>1, <2>2 DEF FormKept
<1>12. i = Frame => form.tag = "frame"
  BY <1>9 DEF Model
<1> HIDE DEF form
<1>13. Model(marked) /\ Grown(f, marked)
  BY <1>2, <1>9, <1>10, <1>11, <1>12, OneForm
<1>14. /\ marked[Frame].transform = f[Frame].transform
       /\ marked[i].claims = list
       /\ \A j \in Ids : Len(marked[j].claims) = Len(f[j].claims)
  BY <1>2, <1>8, <1>9 DEF Model
<1> HIDE DEF marked
<1>15. marked[Frame] \in Forms /\ marked[Frame].tag = "frame" /\ Frame \in Ids
  BY <1>13, IdsApart DEF Model
<1>16. /\ frame \in Forms /\ frame.tag = "frame" /\ frame.retired = marked[Frame].retired
       /\ frame.claims = marked[Frame].claims /\ frame.transform = by
  BY <1>15 DEF Forms
<1>17. FormKept(marked[Frame], frame)
  BY <1>15, <1>16, FormKeptReflexive DEF FormKept
<1> HIDE DEF frame
<1>18. /\ Model([marked EXCEPT ![Frame] = frame])
       /\ Grown(marked, [marked EXCEPT ![Frame] = frame])
  BY <1>13, <1>15, <1>16, <1>17, OneForm
<1>19. Grown(f, [marked EXCEPT ![Frame] = frame])
  BY <1>13, <1>18, GrownTransitive DEF Model
<1>20. \/ Retracted(f, at, by) = marked
       \/ /\ Retracted(f, at, by) = [marked EXCEPT ![Frame] = frame]
          /\ f[Frame].transform = At(graph, at).id
  BY DEF Retracted, marked, form, list, claim, frame
<1>21. Follows(f, marked)
  BY <1>14, SameTransform
<1>22. f[Frame].transform = At(graph, at).id => Follows(f, [marked EXCEPT ![Frame] = frame])
  <2> DEFINE g == [marked EXCEPT ![Frame] = frame]
  <2>1. g[Frame].transform = by /\ g[i].claims = list
    BY <1>2, <1>13, <1>15, <1>16, <1>14 DEF Model
  <2>2. at \in Places(g) /\ At(g, at) = claim
    BY <1>1, <1>2, <1>8, <1>18, <1>19, <2>1, PlacesGrow DEF At
  <2> HIDE DEF g
  <2>3. claim.id = At(graph, at).id
    <3>1. claim.id = f[i].claims[k].id
      BY <1>6 DEF ClaimKept
    <3>2. At(f, at) = f[i].claims[k] /\ At(f, at).id = At(graph, at).id
      BY <1>1, PlacesGrow DEF ClaimKept, At
    <3>3. QED  BY <3>1, <3>2
  <2>4. \E j \in DOMAIN claim.by : claim.by[j] = by
    <3>1. f[i].claims[k].by \in Seq(Ids)
      BY <1>4, ClaimFields
    <3>2. claim.by = Append(f[i].claims[k].by, by)
      BY <1>7
    <3> DEFINE old == f[i].claims[k].by
    <3>3. old \in Seq(Ids) /\ claim.by = Append(old, by)
      BY <3>1, <3>2
    <3> HIDE DEF old
    <3>4. Len(Append(old, by)) = Len(old) + 1 /\ Append(old, by)[Len(old) + 1] = by
          /\ DOMAIN Append(old, by) = 1..(Len(old) + 1) /\ Len(old) \in Nat
      BY <3>3
    <3>5. QED  BY <3>3, <3>4
  <2>5. QED  BY <2>1, <2>2, <2>3, <2>4 DEF Follows, Closed, g
<1>23. \A j \in Ids : Len([marked EXCEPT ![Frame] = frame][j].claims) = Len(f[j].claims)
  BY <1>13, <1>16, <1>14 DEF Model
<1>24. QED  BY <1>13, <1>18, <1>19, <1>20, <1>21, <1>14, <1>22, <1>23

LEMMA RepointedList ==
    ASSUME NEW S, NEW list \in Seq(S), NEW id, NEW by \in S
    PROVE  /\ Repointed(list, id, by) \in Seq(S)
           /\ list # <<>> => Repointed(list, id, by) # <<>>
<1> DEFINE g == [k \in 1..Len(list) |-> IF list[k] = id THEN by ELSE list[k]]
<1>1. Len(list) \in Nat /\ DOMAIN list = 1..Len(list)
      /\ \A k \in 1..Len(list) : list[k] \in S
  OBVIOUS
<1>2. Repointed(list, id, by) = g
  BY <1>1 DEF Repointed
<1>3. \A k \in 1..Len(list) : (IF list[k] = id THEN by ELSE list[k]) \in S
  BY <1>1
<1>4. g \in [1..Len(list) -> S]
  BY <1>3
<1>5. g \in Seq(S) /\ Len(g) = Len(list)
  BY <1>1, <1>4
<1>6. list # <<>> => Len(list) # 0
  OBVIOUS
<1>7. g # <<>> \/ Len(g) = 0
  OBVIOUS
<1>8. QED  BY <1>2, <1>5, <1>6, <1>7

LEMMA RedirectGrows ==
    ASSUME NEW a \in Forms, NEW id, NEW by \in Ids
    PROVE  /\ Redirected(a, id, by) \in Forms /\ FormKept(a, Redirected(a, id, by))
           /\ Redirected(a, id, by).tag = a.tag
           /\ Redirected(a, id, by).transform = a.transform
<1> DEFINE within == IF a.within = id THEN by ELSE a.within
           backing == Repointed(a.backing, id, by)
           retired == Repointed(a.retired, id, by)
           form == [a EXCEPT !.within = within, !.backing = backing, !.retired = retired]
<1>1. within \in Ids \cup {NoId}
  BY FormFields
<1>2. backing \in Seq(Ids)
  BY FormFields, RepointedList
<1>3. retired \in Seq(Ids \cup {NoId}) /\ (a.retired # <<>> => retired # <<>>)
  BY FormFields, RepointedList
<1>4. Redirected(a, id, by) = form
  BY DEF Redirected, within, backing, retired, Forms
<1> HIDE DEF within, backing, retired
<1>5. /\ form \in Forms /\ form.tag = a.tag /\ form.retired = retired
      /\ form.claims = a.claims /\ form.transform = a.transform
  BY <1>1, <1>2, <1>3 DEF Forms
<1> HIDE DEF form
<1>6. FormKept(a, form)
  BY <1>3, <1>5, FormKeptReflexive DEF FormKept
<1>7. QED  BY <1>4, <1>5, <1>6

LEMMA RetireGrows ==
    ASSUME Model(graph), Model(forms), Grown(graph, forms),
           NEW id \in Names, NEW by \in Names \cup {NoId}, RetireAllowed(id, by)
    PROVE  Model(RetiredAs(id, by)) /\ Grown(forms, RetiredAs(id, by))
<1> DEFINE moved == [i \in Ids |->
              IF i \in References(graph, id) THEN Redirected(forms[i], id, by) ELSE forms[i]]
           list == Append(moved[id].retired, by)
           form == [moved[id] EXCEPT !.retired = list]
<1>1. id \in Ids /\ id # Frame /\ (by # NoId => by \in Ids) /\ by \in Ids \cup {NoId}
  BY Arguments
<1>2. forms \in [Ids -> Forms] /\ \A i \in Ids : forms[i] \in Forms
  BY DEF Model
<1>3. ASSUME NEW i \in Ids
      PROVE  /\ moved[i] \in Forms /\ FormKept(forms[i], moved[i])
             /\ moved[i].tag = forms[i].tag
             /\ i \notin References(graph, id) => moved[i] = forms[i]
  <2>1. CASE i \in References(graph, id)
    <3>1. by \in Ids
      BY <2>1, <1>1 DEF RetireAllowed
    <3>2. QED  BY <2>1, <3>1, <1>2, RedirectGrows
  <2>2. CASE i \notin References(graph, id)
    BY <2>2, <1>2, FormKeptReflexive
  <2>3. QED  BY <2>1, <2>2
<1>4. moved \in [Ids -> Forms] /\ Grown(forms, moved)
  BY <1>3 DEF Grown
<1>5. \A i \in References(graph, id) : i \in Ids /\ forms[i].tag # "none"
  BY DEF References, Entities, Grown, FormKept
<1>6. Model(moved)
  <2>1. moved[Frame].tag = "frame"
    BY <1>3, IdsApart DEF Model
  <2>2. \A i \in Ids : moved[i].tag = "none" => moved[i] = Blank
    BY <1>3, <1>5 DEF Model
  <2>3. QED  BY <1>4, <2>1, <2>2 DEF Model
<1>7. moved[id] \in Forms /\ moved[id].tag # "none"
  BY <1>1, <1>3 DEF RetireAllowed, NodesOf, Grown, FormKept
<1>8. RetiredAs(id, by) = [moved EXCEPT ![id] = form]
  BY DEF RetiredAs
<1> HIDE DEF moved
<1>9. list \in Seq(Ids \cup {NoId}) /\ list # <<>>
  <2>1. moved[id].retired \in Seq(Ids \cup {NoId})
    BY <1>7, FormFields
  <2>2. list \in Seq(Ids \cup {NoId}) /\ Len(list) = Len(moved[id].retired) + 1
        /\ Len(moved[id].retired) \in Nat
    BY <2>1, <1>1
  <2>3. QED  BY <2>2
<1> HIDE DEF list
<1>10. /\ form \in Forms /\ form.tag = moved[id].tag /\ form.retired = list
       /\ form.claims = moved[id].claims
  BY <1>7, <1>9 DEF Forms
<1> HIDE DEF form
<1>11. FormKept(moved[id], form)
  BY <1>7, <1>9, <1>10, FormKeptReflexive DEF FormKept
<1>12. /\ Model([moved EXCEPT ![id] = form])
       /\ Grown(moved, [moved EXCEPT ![id] = form])
  BY <1>1, <1>6, <1>7, <1>10, <1>11, OneForm
<1>13. Grown(forms, [moved EXCEPT ![id] = form])
  BY <1>2, <1>4, <1>12, GrownTransitive DEF Model
<1>14. QED  BY <1>8, <1>12, <1>13
-----------------------------------------------------------------------------
(* Every operation leaves a model which has grown, its frame followed.     *)
Continues(f, g) == Model(g) /\ Grown(f, g) /\ Follows(f, g)
(* What the operations of a batch assume of one another. *)
Batch == Model(graph) /\ Model(forms) /\ Grown(graph, forms)

LEMMA OtherFormsFollow ==
    ASSUME Model(forms), NEW id \in Ids, id # Frame, NEW form
    PROVE  Follows(forms, [forms EXCEPT ![id] = form])
<1>1. [forms EXCEPT ![id] = form][Frame] = forms[Frame]
  BY IdsApart DEF Model
<1>2. QED  BY <1>1, SameTransform

LEMMA AddNodeSound == Batch /\ AddNode => Continues(forms, forms')
<1> SUFFICES ASSUME Batch, AddNode PROVE Continues(forms, forms')
  OBVIOUS
<1>1. PICK id \in Chosen : AddNodeAllowed(id) /\ forms' = NodeAdded(id)
  BY DEF AddNode, Operation
<1>2. Model(NodeAdded(id)) /\ Grown(forms, NodeAdded(id))
  BY <1>1, AddNodeGrows DEF Batch
<1>3. Follows(forms, NodeAdded(id))
  BY Arguments, OtherFormsFollow DEF NodeAdded, Batch
<1>4. QED  BY <1>1, <1>2, <1>3 DEF Continues

LEMMA AddEdgeSound == Batch /\ AddEdge => Continues(forms, forms')
<1> SUFFICES ASSUME Batch, AddEdge PROVE Continues(forms, forms')
  OBVIOUS
<1>1. PICK id \in Chosen, backing \in Names \cup {NoId} :
          AddEdgeAllowed(id, backing) /\ forms' = EdgeAdded(id, backing)
  BY DEF AddEdge, Operation
<1>2. Model(EdgeAdded(id, backing)) /\ Grown(forms, EdgeAdded(id, backing))
  BY <1>1, AddEdgeGrows DEF Batch
<1>3. EdgeAdded(id, backing)[Frame] = forms[Frame]
  BY Arguments DEF EdgeAdded, Batch, Model
<1>4. Follows(forms, EdgeAdded(id, backing))
  BY <1>3, SameTransform
<1>5. QED  BY <1>1, <1>2, <1>4 DEF Continues

LEMMA RelateSound == Batch /\ Relate => Continues(forms, forms')
<1> SUFFICES ASSUME Batch, Relate PROVE Continues(forms, forms')
  OBVIOUS
<1>1. PICK id \in Names, within \in Names :
          RelateAllowed(id) /\ forms' = Related(id, within)
  BY DEF Relate, Operation
<1>2. Model(Related(id, within)) /\ Grown(forms, Related(id, within))
  BY <1>1, RelateGrows DEF Batch
<1>3. Related(id, within)[Frame] = forms[Frame]
  BY Arguments DEF Related, Batch, Model
<1>4. Follows(forms, Related(id, within))
  BY <1>3, SameTransform
<1>5. QED  BY <1>1, <1>2, <1>4 DEF Continues

LEMMA SetBackingSound == Batch /\ SetBacking => Continues(forms, forms')
<1> SUFFICES ASSUME Batch, SetBacking PROVE Continues(forms, forms')
  OBVIOUS
<1>1. PICK id \in Names, backing \in Names \cup {NoId} :
          SetBackingAllowed(id) /\ forms' = BackedAs(id, backing)
  BY DEF SetBacking, Operation
<1>2. Model(BackedAs(id, backing)) /\ Grown(forms, BackedAs(id, backing))
  BY <1>1, SetBackingGrows DEF Batch
<1>3. BackedAs(id, backing)[Frame] = forms[Frame]
  BY Arguments DEF BackedAs, Batch, Model
<1>4. Follows(forms, BackedAs(id, backing))
  BY <1>3, SameTransform
<1>5. QED  BY <1>1, <1>2, <1>4 DEF Continues

LEMMA AnnotateSound == Batch /\ Annotate => Continues(forms, forms')
BY GrownReflexive, SameTransform DEF Batch, Annotate, Operation, Continues, Model

LEMMA RecordSound ==
    ASSUME Batch, NEW s \in Names \cup {Frame}, NEW p \in Predicates,
           NEW id \in Ids \cup {NoId}, Subject(s)
    PROVE  Continues(forms, Recorded(s, p, id))
<1>1. Model(Recorded(s, p, id)) /\ Grown(forms, Recorded(s, p, id))
  BY RecordGrows DEF Batch
<1>2. s \in Ids /\ Frame \in Ids /\ forms[s] \in Forms
  BY Arguments DEF Batch, Model
<1>3. Recorded(s, p, id)[Frame].transform = forms[Frame].transform
  BY <1>2 DEF Recorded, Batch, Model, Forms
<1>4. QED  BY <1>1, <1>3, SameTransform DEF Continues

LEMMA AddClaimSound == Batch /\ AddClaim => Continues(forms, forms')
<1> SUFFICES ASSUME Batch, AddClaim PROVE Continues(forms, forms')
  OBVIOUS
<1>1. PICK s \in Names \cup {Frame}, p \in Predicates, id \in Chosen \cup {NoId} :
          RecordAllowed(s, id) /\ forms' = Recorded(s, p, id)
  BY DEF AddClaim, Operation
<1>2. Subject(s) /\ id \in Ids \cup {NoId}
  BY <1>1, Arguments DEF RecordAllowed
<1>3. QED  BY <1>1, <1>2, RecordSound

LEMMA RetractSound ==
    ASSUME Batch, NEW f, Continues(forms, f), NEW at \in Places(graph), NEW by \in Ids
    PROVE  Continues(forms, Retracted(f, at, by))
<1>1. Model(f) /\ Grown(graph, f) /\ Grown(forms, f) /\ Follows(forms, f)
  BY GrownTransitive DEF Batch, Continues, Model
<1>2. /\ Model(Retracted(f, at, by)) /\ Grown(f, Retracted(f, at, by))
      /\ Follows(f, Retracted(f, at, by))
  BY <1>1, RetractGrows DEF Batch
<1>3. Grown(forms, Retracted(f, at, by))
  BY <1>1, <1>2, GrownTransitive DEF Batch, Model
<1>4. Follows(forms, Retracted(f, at, by))
  BY <1>1, <1>2, FollowsTransitive
<1>5. QED  BY <1>2, <1>3, <1>4 DEF Continues

LEMMA SupersededSound ==
    ASSUME Batch, NEW s \in Names \cup {Frame}, NEW p \in Predicates, NEW id \in Ids,
           SupersedeAllowed(s, p, id)
    PROVE  Continues(forms, Superseded(s, p, id))
<1> DEFINE at == CHOOSE at \in Live(graph, s, p) : TRUE
<1>1. Live(graph, s, p) # {}
  BY FS_EmptySet DEF SupersedeAllowed
<1>2. at \in Places(graph)
  BY <1>1 DEF Live
<1>3. Continues(forms, Recorded(s, p, id))
  BY RecordSound DEF SupersedeAllowed, RecordAllowed
<1>4. Superseded(s, p, id) = Retracted(Recorded(s, p, id), at, id)
  BY DEF Superseded
<1> HIDE DEF at
<1>5. QED  BY <1>2, <1>3, <1>4, RetractSound

LEMMA SupersedeSound == Batch /\ Supersede => Continues(forms, forms')
<1> SUFFICES ASSUME Batch, Supersede PROVE Continues(forms, forms')
  OBVIOUS
<1>1. PICK s \in Names \cup {Frame}, p \in Predicates, id \in Chosen :
          SupersedeAllowed(s, p, id) /\ forms' = Superseded(s, p, id)
  BY DEF Supersede, Operation
<1>2. QED  BY <1>1, Arguments, SupersededSound

LEMMA MintIsAnId ==
    ASSUME NEW s \in Names \cup {Frame}, NEW p \in Predicates, NEW id \in Mint(s, p)
    PROVE  /\ id \in Ids
           /\ ~ClaimWritten(id) /\ id \notin Written(forms) /\ Free(id)
<1>1. PICK n \in 1..MaxOrdinal : /\ id = <<s, p, n>> /\ ~ClaimWritten(<<s, p, n>>)
                                 /\ <<s, p, n>> \notin Written(forms) /\ Free(<<s, p, n>>)
  BY DEF Mint
<1>2. QED  BY <1>1 DEF Ids, Minted

LEMMA MintSound == Batch /\ MintAndSupersede => Continues(forms, forms')
<1> SUFFICES ASSUME Batch, MintAndSupersede PROVE Continues(forms, forms')
  OBVIOUS
<1>1. PICK s \in Names \cup {Frame}, p \in Predicates : \E id \in Mint(s, p) :
          SupersedeAllowed(s, p, id) /\ forms' = Superseded(s, p, id)
  BY DEF MintAndSupersede, Operation
<1>2. PICK id \in Mint(s, p) :
          SupersedeAllowed(s, p, id) /\ forms' = Superseded(s, p, id)
  BY <1>1
<1>3. QED  BY <1>2, MintIsAnId, SupersededSound

(* What is asked for by the id a claim holds is where the claim stands.    *)
LEMMA ClaimIsThere ==
    ASSUME NEW f, Model(f), NEW id \in ClaimIds(f)
    PROVE  /\ ClaimOf(f, id) \in Places(f) /\ At(f, ClaimOf(f, id)).id = id
           /\ id \in Ids
<1>1. \E at \in Places(f) : At(f, at).id = id
  BY DEF ClaimIds
<1>2. ClaimOf(f, id) \in Places(f) /\ At(f, ClaimOf(f, id)).id = id
  BY <1>1 DEF ClaimOf
<1>3. At(f, ClaimOf(f, id)) \in Claims
  BY <1>2, PlaceFields
<1>4. id \in Ids
  BY <1>2, <1>3, ClaimFields DEF ClaimIds
<1>5. QED  BY <1>2, <1>4

LEMMA DeprecateSound == Batch /\ DeprecateClaim => Continues(forms, forms')
<1> SUFFICES ASSUME Batch, DeprecateClaim PROVE Continues(forms, forms')
  OBVIOUS
<1>1. PICK id \in ClaimIds(graph), by \in ClaimIds(graph) \cup ClaimIds(forms) :
          forms' = Retracted(forms, ClaimOf(graph, id), by)
  BY DEF DeprecateClaim, Operation
<1>2. ClaimOf(graph, id) \in Places(graph) /\ by \in Ids
  BY ClaimIsThere DEF Batch
<1>3. Continues(forms, forms)
  BY GrownReflexive, SameTransform DEF Continues, Batch, Model
<1>4. QED  BY <1>1, <1>2, <1>3, RetractSound

LEMMA RetireSound == Batch /\ Retire => Continues(forms, forms')
<1> SUFFICES ASSUME Batch, Retire PROVE Continues(forms, forms')
  OBVIOUS
<1>1. PICK id \in Names, by \in Names \cup {NoId} :
          RetireAllowed(id, by) /\ forms' = RetiredAs(id, by)
  BY DEF Retire, Operation
<1>2. Model(RetiredAs(id, by)) /\ Grown(forms, RetiredAs(id, by))
  BY <1>1, RetireGrows DEF Batch
<1>3. id # Frame /\ Frame \in Ids /\ Frame \notin References(graph, id)
  BY Arguments DEF References, Entities, Batch, Model
<1>4. RetiredAs(id, by)[Frame] = forms[Frame]
  BY <1>3 DEF RetiredAs
<1>5. Follows(forms, RetiredAs(id, by))
  BY <1>4, SameTransform
<1>6. QED  BY <1>1, <1>2, <1>5 DEF Continues
-----------------------------------------------------------------------------
(* The invariant, and what each step makes of the two models.              *)
AuthoringInv ==
    /\ Batch /\ Follows(graph, forms) /\ Loads(graph)
    /\ phase \in {"idle", "open", "refused"}
    /\ operations \in 0..MaxOperations
    /\ kinds \subseteq Kinds

OperationStep ==
    \/ AddNode \/ AddEdge \/ Relate \/ SetBacking \/ Annotate
    \/ AddClaim \/ Supersede \/ MintAndSupersede \/ DeprecateClaim \/ Retire

LEMMA OperationIsBounded ==
    OperationStep => /\ graph' = graph /\ phase' = phase
                     /\ operations < MaxOperations /\ operations' = operations + 1
                     /\ \E kind \in Kinds : kinds' = kinds \cup {kind}
<1> SUFFICES ASSUME OperationStep PROVE
         /\ graph' = graph /\ phase' = phase
         /\ operations < MaxOperations /\ operations' = operations + 1
         /\ \E kind \in Kinds : kinds' = kinds \cup {kind}
  OBVIOUS
<1>1. CASE AddNode
  BY <1>1 DEF AddNode, Operation, Kinds
<1>2. CASE AddEdge
  BY <1>2 DEF AddEdge, Operation, Kinds
<1>3. CASE Relate
  BY <1>3 DEF Relate, Operation, Kinds
<1>4. CASE SetBacking
  BY <1>4 DEF SetBacking, Operation, Kinds
<1>5. CASE Annotate
  BY <1>5 DEF Annotate, Operation, Kinds
<1>6. CASE AddClaim
  BY <1>6 DEF AddClaim, Operation, Kinds
<1>7. CASE Supersede
  BY <1>7 DEF Supersede, Operation, Kinds
<1>8. CASE MintAndSupersede
  BY <1>8 DEF MintAndSupersede, Operation, Kinds
<1>9. CASE DeprecateClaim
  BY <1>9 DEF DeprecateClaim, Operation, Kinds
<1>10. CASE Retire
  BY <1>10 DEF Retire, Operation, Kinds
<1>11. QED  BY <1>1, <1>2, <1>3, <1>4, <1>5, <1>6, <1>7, <1>8, <1>9, <1>10 DEF OperationStep

LEMMA OperationContinues == Batch /\ OperationStep => Continues(forms, forms')
BY AddNodeSound, AddEdgeSound, RelateSound, SetBackingSound, AnnotateSound, AddClaimSound,
   SupersedeSound, MintSound, DeprecateSound, RetireSound DEF OperationStep

LEMMA AuthoringInit == Init => AuthoringInv
<1> SUFFICES ASSUME Init PROVE AuthoringInv
  OBVIOUS
<1>1. graph \in Genesis /\ Loads(graph) /\ forms = graph
  BY DEF Init
<1>2. Model(graph)
  BY <1>1, ConstantsOK DEF Model
<1>3. Grown(graph, forms) /\ Follows(graph, forms)
  BY <1>1, <1>2, GrownReflexive, SameTransform DEF Model
<1>4. phase = "idle" /\ operations \in 0..MaxOperations /\ kinds \subseteq Kinds
  BY ConstantsOK DEF Init
<1>5. QED  BY <1>1, <1>2, <1>3, <1>4 DEF AuthoringInv, Batch

LEMMA OperationKeepsInv == AuthoringInv /\ OperationStep => AuthoringInv'
<1> SUFFICES ASSUME AuthoringInv, OperationStep PROVE AuthoringInv'
  OBVIOUS
<1>1. Continues(forms, forms')
  BY OperationContinues DEF AuthoringInv
<1>2. graph' = graph /\ phase' = phase
  BY OperationIsBounded
<1>3. Grown(graph, forms') /\ Model(forms')
  BY <1>1, GrownTransitive DEF AuthoringInv, Batch, Continues, Model
<1>4. Follows(graph, forms')
  BY <1>1, FollowsTransitive DEF AuthoringInv, Batch, Continues
<1>5. operations' \in 0..MaxOperations
  BY OperationIsBounded, ConstantsOK DEF AuthoringInv
<1>6. kinds' \subseteq Kinds
  BY OperationIsBounded DEF AuthoringInv
<1>7. QED  BY <1>2, <1>3, <1>4, <1>5, <1>6 DEF AuthoringInv, Batch

LEMMA DoneKeepsInv ==
    ASSUME AuthoringInv, NEW found, Done(found), Model(found), Loads(found)
    PROVE  AuthoringInv'
<1>1. graph' = found /\ forms' = found /\ phase' = "idle" /\ kinds' = {}
      /\ operations' = operations
  BY DEF Done
<1>2. Model(graph') /\ Model(forms') /\ Loads(graph')
  BY <1>1
<1>3. Grown(graph', forms') /\ Follows(graph', forms')
  BY <1>1, <1>2, GrownReflexive, SameTransform DEF Model
<1>4. QED  BY <1>1, <1>2, <1>3 DEF AuthoringInv, Batch

LEMMA SameKeepsInv ==
    ASSUME AuthoringInv, UNCHANGED <<graph, forms, operations, kinds>>,
           phase' \in {"idle", "open", "refused"}
    PROVE  AuthoringInv'
BY DEF AuthoringInv, Batch

LEMMA AuthoringNext == AuthoringInv /\ [Next]_vars => AuthoringInv'
<1> SUFFICES ASSUME AuthoringInv, [Next]_vars PROVE AuthoringInv'
  OBVIOUS
<1>1. CASE OperationStep
  BY <1>1, OperationKeepsInv
<1>2. CASE Begin
  BY <1>2, SameKeepsInv DEF Begin
<1>3. CASE Refuse
  BY <1>3, SameKeepsInv DEF Refuse
<1>4. CASE Close
  BY <1>4, DoneKeepsInv DEF Close, AuthoringInv, Batch
<1>5. CASE Commit
  BY <1>5, DoneKeepsInv DEF Commit, AuthoringInv, Batch
<1>6. CASE UNCHANGED vars
  BY <1>6, SameKeepsInv DEF vars, AuthoringInv
<1>7. QED  BY <1>1, <1>2, <1>3, <1>4, <1>5, <1>6 DEF Next, OperationStep

LEMMA AuthoringInvariant == Spec => []AuthoringInv
BY AuthoringInit, AuthoringNext, PTL DEF Spec

(* The files and the forms are models, and a batch applies a bounded       *)
(* number of operations of the kinds there are.                            *)
THEOREM AuthoringTypes == Spec => []TypeOK
<1>1. AuthoringInv => TypeOK
  BY DEF AuthoringInv, Batch, Model, TypeOK
<1>2. QED  BY <1>1, AuthoringInvariant, PTL
-----------------------------------------------------------------------------
(* A commit is the only step which changes the graph, and what it makes of *)
(* it is the forms of the batch.                                           *)
LEMMA OnlyCommitWrites ==
    AuthoringInv /\ [Next]_vars /\ graph' # graph => graph' = forms /\ Loads(forms)
<1> SUFFICES ASSUME AuthoringInv, [Next]_vars, graph' # graph
             PROVE  graph' = forms /\ Loads(forms)
  OBVIOUS
<1>1. ~OperationStep
  BY OperationIsBounded
<1>2. ~Begin /\ ~Refuse /\ ~UNCHANGED vars /\ ~Close
  BY DEF Begin, Refuse, vars, Close, Done
<1>3. Commit
  BY <1>1, <1>2 DEF Next, OperationStep
<1>4. QED  BY <1>3 DEF Commit, Done

(* A frame is where the history of the claim it named leads, however many  *)
(* retractions a batch wrote and in whatever order.                        *)
THEOREM AuthoringFollows == Spec => FramesFollowTheirClaims
<1> DEFINE Step == graph' # graph => \A ids \in SUBSET ClaimIds(graph') :
                graph[Frame].transform \in ids /\ Closed(graph', ids) =>
                    graph'[Frame].transform \in ids
<1>1. AuthoringInv /\ [Next]_vars => Step
  <2> SUFFICES ASSUME AuthoringInv, [Next]_vars, graph' # graph,
                      NEW ids \in SUBSET ClaimIds(graph'),
                      graph[Frame].transform \in ids, Closed(graph', ids)
               PROVE  graph'[Frame].transform \in ids
    OBVIOUS
  <2>1. graph' = forms
    BY OnlyCommitWrites
  <2>2. ids \subseteq ClaimIds(forms)
    BY <2>1
  <2>3. \A id \in ClaimIds(forms) : id \in Ids
    BY ClaimIsThere DEF AuthoringInv, Batch
  <2>4. ids \in SUBSET Ids
    BY <2>2, <2>3
  <2>5. Closed(forms, ids)
    BY <2>1
  <2>6. forms[Frame].transform \in ids
    BY <2>4, <2>5 DEF AuthoringInv, Follows
  <2>7. QED  BY <2>1, <2>6
<1>2. AuthoringInv /\ [Next]_vars => [Step]_vars
  BY <1>1
<1> HIDE DEF Step
<1>3. Spec => [][Step]_vars
  BY <1>2, AuthoringInvariant, PTL DEF Spec
<1>4. QED  BY <1>3 DEF Step, FramesFollowTheirClaims
-----------------------------------------------------------------------------
(* What the operations leave as it was: the claims, or what is not claims. *)

SameClaims(f, g) == \A i \in Ids : g[i].claims = f[i].claims
SameRelations(f, g) ==
    \A i \in Ids : /\ g[i].tag = f[i].tag /\ g[i].within = f[i].within
                   /\ g[i].backing = f[i].backing /\ g[i].retired = f[i].retired

LEMMA SameClaimsSamePlaces ==
    ASSUME NEW f, NEW g, Model(f), Model(g), SameClaims(f, g)
    PROVE  Places(g) = Places(f) /\ \A at \in Places(f) : At(g, at) = At(f, at)
<1>1. \A at : at \in Places(g) <=> at \in Places(f)
  BY PlacesAre DEF SameClaims
<1>2. \A at \in Places(f) : at[1] \in Ids /\ At(f, at) = f[at[1]].claims[at[2]]
  BY PlaceFields
<1>3. QED  BY <1>1, <1>2 DEF SameClaims, At

(* A claim which is recorded is the last of its subject's.                 *)
LEMMA RecordedForms ==
    ASSUME Model(forms), NEW s \in Names \cup {Frame}, NEW p \in Predicates,
           NEW id \in Ids \cup {NoId}
    PROVE  /\ SameRelations(forms, Recorded(s, p, id))
           /\ \A i \in Ids : Recorded(s, p, id)[i].claims =
                  IF i = s THEN Append(forms[s].claims, [id |-> id, pred |-> p, by |-> <<>>])
                           ELSE forms[i].claims
<1> DEFINE list == Append(forms[s].claims, [id |-> id, pred |-> p, by |-> <<>>])
           form == [forms[s] EXCEPT !.claims = list]
<1>1. s \in Ids /\ forms[s] \in Forms
  BY Arguments DEF Model
<1>2. Recorded(s, p, id) = [forms EXCEPT ![s] = form]
  BY DEF Recorded
<1> HIDE DEF list
<1>3. /\ form.tag = forms[s].tag /\ form.within = forms[s].within
      /\ form.backing = forms[s].backing /\ form.retired = forms[s].retired
      /\ form.claims = list
  BY <1>1 DEF Forms
<1> HIDE DEF form
<1>4. \A i \in Ids : Recorded(s, p, id)[i] = IF i = s THEN form ELSE forms[i]
  BY <1>1, <1>2 DEF Model
<1>5. QED  BY <1>3, <1>4 DEF SameRelations, list

(* A claim which is retracted gets what replaced it after what did before. *)
LEMMA RetractedForms ==
    ASSUME NEW f, Model(f), NEW at \in Places(f), NEW by \in Ids
    PROVE  /\ SameRelations(f, Retracted(f, at, by))
           /\ \A i \in Ids : Retracted(f, at, by)[i].claims =
                  IF i = at[1]
                  THEN [f[i].claims EXCEPT ![at[2]] =
                            [f[i].claims[at[2]] EXCEPT !.by = Append(@, by)]]
                  ELSE f[i].claims
<1> DEFINE i == at[1]
           list == [f[i].claims EXCEPT ![at[2]] =
                        [f[i].claims[at[2]] EXCEPT !.by = Append(@, by)]]
           form == [f[i] EXCEPT !.claims = list]
           marked == [f EXCEPT ![i] = form]
           frame == [marked[Frame] EXCEPT !.transform = by]
<1>1. i \in Ids /\ f[i] \in Forms
  BY PlaceFields DEF Model
<1>2. \/ Retracted(f, at, by) = marked
      \/ Retracted(f, at, by) = [marked EXCEPT ![Frame] = frame]
  BY DEF Retracted
<1> HIDE DEF list
<1>3. /\ form.tag = f[i].tag /\ form.within = f[i].within
      /\ form.backing = f[i].backing /\ form.retired = f[i].retired
      /\ form.transform = f[i].transform /\ form.claims = list
      /\ form = [tag |-> form.tag, within |-> form.within, backing |-> form.backing,
                 transform |-> form.transform, retired |-> form.retired,
                 claims |-> form.claims]
  BY <1>1 DEF Forms
<1> HIDE DEF form
<1>4. /\ \A j \in Ids : marked[j] = IF j = i THEN form ELSE f[j]
      /\ DOMAIN marked = Ids
  BY <1>1 DEF Model
<1> HIDE DEF marked
<1>5. Frame \in Ids /\ f[Frame] \in Forms
  BY IdsApart DEF Model
<1>6. /\ frame.tag = marked[Frame].tag /\ frame.within = marked[Frame].within
      /\ frame.backing = marked[Frame].backing /\ frame.retired = marked[Frame].retired
      /\ frame.claims = marked[Frame].claims
  <2>1. CASE i = Frame
    BY <2>1, <1>3, <1>4, <1>5
  <2>2. CASE i # Frame
    BY <2>2, <1>4, <1>5 DEF Forms
  <2>3. QED  BY <2>1, <2>2
<1> HIDE DEF frame
<1>7. \A j \in Ids : LET g == Retracted(f, at, by)
                     IN  /\ g[j].tag = marked[j].tag /\ g[j].within = marked[j].within
                         /\ g[j].backing = marked[j].backing
                         /\ g[j].retired = marked[j].retired
                         /\ g[j].claims = marked[j].claims
  BY <1>2, <1>4, <1>5, <1>6
<1>8. \A j \in Ids : /\ marked[j].tag = f[j].tag /\ marked[j].within = f[j].within
                     /\ marked[j].backing = f[j].backing
                     /\ marked[j].retired = f[j].retired
                     /\ marked[j].claims = IF j = i THEN list ELSE f[j].claims
  BY <1>3, <1>4
<1>9. SameRelations(f, Retracted(f, at, by))
  BY <1>7, <1>8 DEF SameRelations
<1>10. \A j \in Ids : Retracted(f, at, by)[j].claims = IF j = i THEN list ELSE f[j].claims
  BY <1>7, <1>8
<1>11. QED  BY <1>9, <1>10 DEF list

LEMMA RecordedPlaces ==
    ASSUME Batch, NEW s \in Names \cup {Frame}, NEW p \in Predicates, NEW id \in Ids,
           Subject(s)
    PROVE  LET g   == Recorded(s, p, id)
               new == <<s, Len(forms[s].claims) + 1>>
           IN  /\ Places(g) = Places(forms) \cup {new} /\ new \notin Places(forms)
               /\ At(g, new) = [id |-> id, pred |-> p, by |-> <<>>]
               /\ \A at \in Places(forms) : At(g, at) = At(forms, at)
<1> DEFINE g == Recorded(s, p, id)
           n == Len(forms[s].claims)
           new == <<s, n + 1>>
           claim == [id |-> id, pred |-> p, by |-> <<>>]
<1>1. Model(g) /\ Model(forms)
  BY RecordSound DEF Batch, Continues
<1>2. claim \in Claims
  BY DEF Claims
<1>3. s \in Ids /\ forms[s].claims \in Seq(Claims) /\ n \in Nat
  <2>1. s \in Ids /\ forms[s] \in Forms
    BY Arguments DEF Batch, Model
  <2>2. QED  BY <2>1, FormFields
<1>4. \A i \in Ids : g[i].claims = IF i = s THEN Append(forms[s].claims, claim)
                                            ELSE forms[i].claims
  BY <1>1, RecordedForms
<1> HIDE DEF g, claim
<1>5. /\ Len(g[s].claims) = n + 1 /\ g[s].claims[n + 1] = claim
      /\ \A k \in 1..n : g[s].claims[k] = forms[s].claims[k]
  <2>1. g[s].claims = Append(forms[s].claims, claim)
    BY <1>3, <1>4
  <2>2. QED  BY <2>1, <1>2, <1>3
<1>6. \A i \in Ids : i # s => g[i].claims = forms[i].claims
  BY <1>4
<1>7. ASSUME NEW at \in Places(forms)
      PROVE  at \in Places(g) /\ at # new /\ At(g, at) = At(forms, at)
  <2>1. /\ at[1] \in Ids /\ at[2] \in 1..Len(forms[at[1]].claims) /\ at = <<at[1], at[2]>>
        /\ At(forms, at) = forms[at[1]].claims[at[2]]
    BY <1>1, PlaceFields
  <2>2. at[2] \in 1..Len(g[at[1]].claims) /\ g[at[1]].claims[at[2]] = forms[at[1]].claims[at[2]]
    BY <2>1, <1>3, <1>5, <1>6
  <2>3. at # new
    BY <2>1, <1>3
  <2>4. QED  BY <1>1, <2>1, <2>2, <2>3, PlacesAre DEF At
<1>8. new \in Places(g) /\ At(g, new) = claim
  BY <1>1, <1>3, <1>5, PlacesAre DEF At
<1>9. ASSUME NEW at \in Places(g), at # new
      PROVE  at \in Places(forms)
  <2>1. at[1] \in Ids /\ at[2] \in 1..Len(g[at[1]].claims) /\ at = <<at[1], at[2]>>
    BY <1>1, PlaceFields
  <2>2. at[2] \in 1..Len(forms[at[1]].claims)
    BY <2>1, <1>3, <1>5, <1>6, <1>9
  <2>3. QED  BY <1>1, <2>1, <2>2, PlacesAre
<1>10. QED  BY <1>7, <1>8, <1>9 DEF g, claim

LEMMA RetractedPlaces ==
    ASSUME Model(graph), NEW f, Model(f), Grown(graph, f), NEW at \in Places(graph),
           NEW by \in Ids
    PROVE  LET g == Retracted(f, at, by)
           IN  /\ Places(g) = Places(f)
               /\ At(g, at).by = Append(At(f, at).by, by)
               /\ \A c \in Places(f) : At(g, c).pred = At(f, c).pred /\ At(g, c).id = At(f, c).id
               /\ \A c \in Places(f) \ {at} : At(g, c) = At(f, c)
<1> DEFINE g == Retracted(f, at, by)
           i == at[1]
           k == at[2]
           claim == [f[i].claims[k] EXCEPT !.by = Append(@, by)]
<1>1. Model(g) /\ Grown(f, g) /\ \A j \in Ids : Len(g[j].claims) = Len(f[j].claims)
  BY RetractGrows
<1>2. at \in Places(f)
  BY PlacesGrow
<1>3. /\ i \in Ids /\ k \in 1..Len(f[i].claims) /\ at = <<i, k>>
      /\ At(f, at) = f[i].claims[k] /\ f[i].claims[k] \in Claims
  BY <1>2, PlaceFields
<1>4. \A j \in Ids : g[j].claims = IF j = i THEN [f[j].claims EXCEPT ![k] = claim]
                                            ELSE f[j].claims
  <2>1. \A j \in Ids : g[j].claims =
            IF j = i THEN [f[j].claims EXCEPT ![k] = [f[j].claims[k] EXCEPT !.by = Append(@, by)]]
                     ELSE f[j].claims
    BY <1>2, RetractedForms
  <2>2. QED  BY <2>1
<1>5. claim.by = Append(f[i].claims[k].by, by)
  BY <1>3, ClaimGrows
<1> HIDE DEF g, claim
<1>6. Places(g) = Places(f)
  <2>1. \A c : c \in Places(g) <=> c \in Places(f)
    BY <1>1, PlacesAre
  <2>2. QED  BY <2>1
<1>7. DOMAIN f[i].claims = 1..Len(f[i].claims)
  BY <1>3, FormFields DEF Model
<1>8. g[i].claims[k] = claim
  BY <1>3, <1>4, <1>7
<1>9. At(g, at).by = Append(At(f, at).by, by)
  BY <1>3, <1>5, <1>8 DEF At
<1>10. \A c \in Places(f) : At(g, c).pred = At(f, c).pred /\ At(g, c).id = At(f, c).id
  BY <1>1, PlacesGrow DEF ClaimKept
<1>11. ASSUME NEW c \in Places(f) \ {at} PROVE At(g, c) = At(f, c)
  <2>1. /\ c[1] \in Ids /\ c[2] \in 1..Len(f[c[1]].claims) /\ c = <<c[1], c[2]>>
        /\ At(f, c) = f[c[1]].claims[c[2]]
    BY PlaceFields
  <2>2. CASE c[1] = i
    <3>1. c[2] # k
      BY <2>1, <2>2, <1>3
    <3>2. QED  BY <2>1, <2>2, <3>1, <1>3, <1>4, <1>7 DEF At
  <2>3. CASE c[1] # i
    BY <2>1, <2>3, <1>4 DEF At
  <2>4. QED  BY <2>2, <2>3
<1>12. QED  BY <1>6, <1>9, <1>10, <1>11 DEF g
-----------------------------------------------------------------------------
(* A batch which corrects: what it has written, and what it wrote that on. *)

OnlyCorrects == kinds \cap {"AddClaim", "DeprecateClaim"} = {}
Corrections(s, p) ==
    {at \in Places(forms) \ Places(graph) : at[1] = s /\ At(forms, at).pred = p}

(* Under a subject and a predicate nothing was written, or as often as the *)
(* one claim the graph holds there was retracted; and what was written is  *)
(* not.                                                                    *)
Uncorrected(s, p) ==
    /\ Corrections(s, p) = {}
    /\ \A at \in Live(graph, s, p) : At(forms, at).by = <<>>
Corrected(s, p) ==
    \E at \in Places(graph) :
        /\ Live(graph, s, p) = {at}
        /\ IsFiniteSet(Corrections(s, p))
        /\ Len(At(forms, at).by) = Cardinality(Corrections(s, p))
CorrectInv ==
    OnlyCorrects =>
        /\ \A at \in Places(forms) \ Places(graph) : At(forms, at).by = <<>>
        /\ \A s \in Ids, p \in Predicates : Uncorrected(s, p) \/ Corrected(s, p)

LEMMA LiveIsFinite ==
    ASSUME NEW f, Model(f), NEW s \in Ids, NEW p
    PROVE  IsFiniteSet(Live(f, s, p))
<1> DEFINE n == Len(f[s].claims)
<1>1. n \in Nat
  BY FormFields DEF Model
<1>2. ASSUME NEW at \in Live(f, s, p) PROVE at \in {s} \X (1..n)
  <2>1. at \in Places(f) /\ at[1] = s
    BY DEF Live
  <2>2. at = <<at[1], at[2]>> /\ at[2] \in 1..Len(f[at[1]].claims)
    BY <2>1, PlaceFields
  <2>3. QED  BY <2>1, <2>2
<1> HIDE DEF n
<1>3. IsFiniteSet({s}) /\ IsFiniteSet(1..n)
  <2>1. 1 \in Int /\ n \in Int
    BY <1>1
  <2>2. QED  BY <2>1, FS_Singleton, FS_Interval
<1>4. IsFiniteSet({s} \X (1..n))
  BY <1>3, FS_Product
<1>5. Live(f, s, p) \in SUBSET ({s} \X (1..n))
  BY <1>2
<1>6. QED  BY <1>4, <1>5, FS_Subset

(* A batch which has written nothing has corrected nothing.                *)
LEMMA CorrectNothing == ASSUME graph = forms PROVE CorrectInv
<1>1. \A s, p : Corrections(s, p) = {}
  BY DEF Corrections
<1>2. \A s, p : \A at \in Live(graph, s, p) : At(forms, at).by = <<>>
  BY DEF Live, Deprecated
<1>3. QED  BY <1>1, <1>2 DEF CorrectInv, Uncorrected

LEMMA CorrectClaimsKept ==
    ASSUME AuthoringInv, CorrectInv, graph' = graph, Model(forms'), SameClaims(forms, forms'),
           OnlyCorrects' => OnlyCorrects
    PROVE  CorrectInv'
<1>1. Places(forms') = Places(forms) /\ \A at \in Places(forms) : At(forms', at) = At(forms, at)
  BY SameClaimsSamePlaces DEF AuthoringInv, Batch
<1>2. Places(graph) \subseteq Places(forms)
  BY PlacesGrow DEF AuthoringInv, Batch
<1>3. Places(graph)' = Places(graph) /\ \A s, p : Live(graph, s, p)' = Live(graph, s, p)
  BY DEF Places, Live, At
<1>4. Places(forms)' = Places(forms) /\ \A at \in Places(forms) : At(forms, at)' = At(forms, at)
  BY <1>1 DEF Places, At
<1>5. \A s, p : Corrections(s, p)' = Corrections(s, p)
  BY <1>3, <1>4 DEF Corrections
<1>6. ASSUME NEW s \in Ids, NEW p \in Predicates, Uncorrected(s, p)
      PROVE  Uncorrected(s, p)'
  <2>1. \A at \in Live(graph, s, p) : at \in Places(forms)
    BY <1>2 DEF Live
  <2>2. QED  BY <1>3, <1>4, <1>5, <1>6, <2>1 DEF Uncorrected
<1>7. ASSUME NEW s \in Ids, NEW p \in Predicates, Corrected(s, p)
      PROVE  Corrected(s, p)'
  BY <1>2, <1>3, <1>4, <1>5, <1>7 DEF Corrected
<1>8. QED  BY <1>3, <1>4, <1>6, <1>7 DEF CorrectInv

(* A correction writes one claim and retracts the one the graph holds.     *)
(* A claim is written at new, under id, and the one at at is retracted in  *)
(* its favour.                                                             *)
Amended(f, g, at, new, id) ==
    /\ at \in Places(f) /\ new \notin Places(f) /\ Places(g) = Places(f) \cup {new}
    /\ At(g, new).id = id /\ At(g, new).by = <<>>
    /\ At(g, at).by = Append(At(f, at).by, id)
    /\ \A c \in Places(f) : At(g, c).pred = At(f, c).pred /\ At(g, c).id = At(f, c).id
    /\ \A c \in Places(f) \ {at} : At(g, c) = At(f, c)

LEMMA SupersededPlaces ==
    ASSUME AuthoringInv, NEW s \in Names \cup {Frame}, NEW p \in Predicates, NEW id \in Ids,
           SupersedeAllowed(s, p, id), NEW g, g = Superseded(s, p, id)
    PROVE  \E at \in Places(graph) : \E new :
               /\ Live(graph, s, p) = {at} /\ new[1] = s /\ At(g, new).pred = p
               /\ Len(At(g, at).by) = Len(At(forms, at).by) + 1
               /\ Amended(forms, g, at, new, id)
<1> DEFINE f == Recorded(s, p, id)
           new == <<s, Len(forms[s].claims) + 1>>
<1>1. s \in Ids /\ Subject(s) /\ Batch /\ Model(graph) /\ Model(forms) /\ Grown(graph, forms)
  BY Arguments DEF SupersedeAllowed, RecordAllowed, AuthoringInv, Batch
<1>2. PICK at : Live(graph, s, p) = {at}
  <2>1. IsFiniteSet(Live(graph, s, p))
    BY <1>1, LiveIsFinite
  <2>2. QED  BY <2>1, FS_Singleton DEF SupersedeAllowed
<1>3. g = Retracted(f, at, id)
  BY <1>2 DEF Superseded
<1>4. at \in Places(graph) /\ at \in Places(forms)
  <2>1. at \in Places(graph)
    BY <1>2 DEF Live
  <2>2. QED  BY <2>1, <1>1, PlacesGrow
<1>5. /\ Places(f) = Places(forms) \cup {new} /\ new \notin Places(forms)
      /\ At(f, new) = [id |-> id, pred |-> p, by |-> <<>>]
      /\ \A c \in Places(forms) : At(f, c) = At(forms, c)
  BY <1>1, RecordedPlaces
<1>6. Model(f) /\ Grown(graph, f)
  BY <1>1, RecordSound, GrownTransitive DEF Continues, Model
<1>7. new[1] = s
  OBVIOUS
<1> HIDE DEF f, new
<1>8. /\ Places(g) = Places(f)
      /\ At(g, at).by = Append(At(f, at).by, id)
      /\ \A c \in Places(f) : At(g, c).pred = At(f, c).pred /\ At(g, c).id = At(f, c).id
      /\ \A c \in Places(f) \ {at} : At(g, c) = At(f, c)
  BY <1>1, <1>3, <1>4, <1>6, RetractedPlaces
<1>9. /\ At(g, at).by = Append(At(forms, at).by, id)
      /\ Len(At(g, at).by) = Len(At(forms, at).by) + 1
  <2>1. At(forms, at).by \in Seq(Ids)
    BY <1>1, <1>4, PlaceFields, ClaimFields
  <2>2. At(g, at).by = Append(At(forms, at).by, id)
    BY <1>4, <1>5, <1>8
  <2>3. QED  BY <2>1, <2>2
<1>10. At(g, new).pred = p /\ At(g, new).by = <<>> /\ At(g, new).id = id
  <2>1. new \in Places(f) /\ new # at
    BY <1>4, <1>5
  <2>2. At(g, new) = At(f, new)
    BY <2>1, <1>8
  <2>3. QED  BY <2>2, <1>5
<1>11. /\ \A c \in Places(forms) : At(g, c).pred = At(forms, c).pred
                                    /\ At(g, c).id = At(forms, c).id
       /\ \A c \in Places(forms) \ {at} : At(g, c) = At(forms, c)
  BY <1>5, <1>8
<1>12. Amended(forms, g, at, new, id)
  BY <1>4, <1>5, <1>8, <1>9, <1>10, <1>11 DEF Amended
<1>13. QED  BY <1>2, <1>4, <1>7, <1>9, <1>10, <1>12

LEMMA CorrectSuperseded ==
    ASSUME AuthoringInv, CorrectInv, graph' = graph, OnlyCorrects' => OnlyCorrects,
           NEW s \in Names \cup {Frame}, NEW p \in Predicates, NEW id \in Ids,
           SupersedeAllowed(s, p, id), forms' = Superseded(s, p, id)
    PROVE  CorrectInv'
<1> SUFFICES ASSUME OnlyCorrects'
             PROVE  /\ \A at \in Places(forms)' \ Places(graph)' : At(forms, at)'.by = <<>>
                    /\ \A q \in Ids, r \in Predicates : Uncorrected(q, r)' \/ Corrected(q, r)'
  BY DEF CorrectInv
<1>1. Model(graph) /\ Model(forms) /\ Places(graph) \subseteq Places(forms)
  BY PlacesGrow DEF AuthoringInv, Batch
<1>2. PICK at \in Places(graph) : \E new :
           /\ Live(graph, s, p) = {at} /\ new[1] = s /\ At(forms', new).pred = p
           /\ Len(At(forms', at).by) = Len(At(forms, at).by) + 1
           /\ Amended(forms, forms', at, new, id)
  BY SupersededPlaces
<1>3. PICK new :
           /\ Live(graph, s, p) = {at} /\ new \notin Places(forms)
           /\ Places(forms') = Places(forms) \cup {new}
           /\ new[1] = s /\ At(forms', new).pred = p /\ At(forms', new).by = <<>>
           /\ Len(At(forms', at).by) = Len(At(forms, at).by) + 1
           /\ \A c \in Places(forms) : At(forms', c).pred = At(forms, c).pred
           /\ \A c \in Places(forms) \ {at} : At(forms', c).by = At(forms, c).by
  BY <1>2 DEF Amended
<1>4. Places(graph)' = Places(graph) /\ \A q, r : Live(graph, q, r)' = Live(graph, q, r)
  BY DEF Places, Live, At
<1>5. Places(forms)' = Places(forms') /\ \A c : At(forms, c)' = At(forms', c)
  BY DEF Places, At
<1>6. /\ \A c \in Places(forms) \ Places(graph) : At(forms, c).by = <<>>
      /\ \A q \in Ids, r \in Predicates : Uncorrected(q, r) \/ Corrected(q, r)
  BY DEF CorrectInv
<1>7. \A c \in Places(forms') \ Places(graph) : At(forms', c).by = <<>>
  BY <1>3, <1>6
<1>8. /\ Corrections(s, p)' = Corrections(s, p) \cup {new} /\ new \notin Corrections(s, p)
      /\ \A q, r : q # s \/ r # p => Corrections(q, r)' = Corrections(q, r)
  <2>1. \A q, r : Corrections(q, r)' =
            {c \in Places(forms') \ Places(graph) : c[1] = q /\ At(forms', c).pred = r}
    BY <1>4, <1>5 DEF Corrections
  <2>2. new \notin Places(graph)
    BY <1>1, <1>3
  <2>3. QED  BY <2>1, <2>2, <1>3 DEF Corrections
<1>9. ASSUME NEW q \in Ids, NEW r \in Predicates, q # s \/ r # p
      PROVE  Uncorrected(q, r)' \/ Corrected(q, r)'
  <2>1. \A c \in Live(graph, q, r) : c \in Places(forms) \ {at}
    BY <1>1, <1>3, <1>9 DEF Live
  <2>2. Uncorrected(q, r) => Uncorrected(q, r)'
    BY <2>1, <1>3, <1>4, <1>5, <1>8, <1>9 DEF Uncorrected
  <2>3. ASSUME Corrected(q, r) PROVE Corrected(q, r)'
    <3>1. PICK c \in Places(graph) :
              /\ Live(graph, q, r) = {c} /\ IsFiniteSet(Corrections(q, r))
              /\ Len(At(forms, c).by) = Cardinality(Corrections(q, r))
      BY <2>3 DEF Corrected
    <3>2. At(forms', c).by = At(forms, c).by
      BY <2>1, <3>1, <1>3
    <3>3. Corrections(q, r)' = Corrections(q, r)
      BY <1>8, <1>9
    <3>4. QED  BY <3>1, <3>2, <3>3, <1>4, <1>5 DEF Corrected
  <2>4. QED  BY <2>2, <2>3, <1>6
<1>10. Corrected(s, p)'
  <2>1. /\ IsFiniteSet(Corrections(s, p))
        /\ Len(At(forms, at).by) = Cardinality(Corrections(s, p))
    <3>1. s \in Ids
      BY Arguments
    <3>2. CASE Uncorrected(s, p)
      <4>1. At(forms, at).by = <<>> /\ Corrections(s, p) = {}
        BY <3>2, <1>3 DEF Uncorrected
      <4>2. Len(At(forms, at).by) = 0
        BY <4>1
      <4>3. QED  BY <4>1, <4>2, FS_EmptySet
    <3>3. CASE Corrected(s, p)
      BY <3>3, <1>3 DEF Corrected
    <3>4. QED  BY <3>1, <3>2, <3>3, <1>6
  <2>2. /\ IsFiniteSet(Corrections(s, p)')
        /\ Cardinality(Corrections(s, p)') = Cardinality(Corrections(s, p)) + 1
    BY <2>1, <1>8, FS_AddElement
  <2>3. Len(At(forms', at).by) = Cardinality(Corrections(s, p)')
    BY <2>1, <2>2, <1>3
  <2>4. QED  BY <2>2, <2>3, <1>3, <1>4, <1>5 DEF Corrected
<1>11. QED  BY <1>4, <1>5, <1>7, <1>9, <1>10
(* The operations which write no claim.                                    *)
NoClaimStep == AddNode \/ AddEdge \/ Relate \/ SetBacking \/ Annotate \/ Retire

LEMMA FormKeepsClaims ==
    ASSUME NEW f, Model(f), NEW i \in Ids, NEW form, form.claims = f[i].claims
    PROVE  SameClaims(f, [f EXCEPT ![i] = form])
BY DEF Model, SameClaims

LEMMA NoClaimsWritten ==
    ASSUME Batch, NoClaimStep
    PROVE  SameClaims(forms, forms')
<1>0. Model(forms) /\ \A i \in Ids : forms[i] \in Forms
  BY DEF Batch, Model
<1>1. CASE AddNode
  <2>1. PICK id \in Chosen : AddNodeAllowed(id) /\ forms' = NodeAdded(id)
    BY <1>1 DEF AddNode, Operation
  <2>2. id \in Ids /\ forms[id] = Blank
    BY <2>1, Arguments, <1>0 DEF AddNodeAllowed, Unheld, Written, Model
  <2>3. [Blank EXCEPT !.tag = "node"].claims = Blank.claims
    BY DEF Blank
  <2>4. QED  BY <2>1, <2>2, <2>3, <1>0, FormKeepsClaims DEF NodeAdded
<1>2. CASE AddEdge
  <2>1. PICK id \in Chosen, backing \in Names \cup {NoId} :
            AddEdgeAllowed(id, backing) /\ forms' = EdgeAdded(id, backing)
    BY <1>2 DEF AddEdge, Operation
  <2>2. id \in Ids /\ forms[id] = Blank
    BY <2>1, Arguments, <1>0 DEF AddEdgeAllowed, Unheld, Written, Model
  <2> DEFINE list == IF backing = NoId THEN <<>> ELSE <<backing>>
             form == [Blank EXCEPT !.tag = "edge", !.backing = list]
  <2> HIDE DEF list
  <2>3. form.claims = Blank.claims
    BY DEF Blank
  <2>4. forms' = [forms EXCEPT ![id] = form]
    BY <2>1 DEF EdgeAdded, list
  <2> HIDE DEF form
  <2>5. QED  BY <2>2, <2>3, <2>4, <1>0, FormKeepsClaims
<1>3. CASE Relate
  <2>1. PICK id \in Names, within \in Names : forms' = Related(id, within)
    BY <1>3 DEF Relate, Operation
  <2>2. id \in Ids /\ [forms[id] EXCEPT !.within = within].claims = forms[id].claims
    BY <1>0, Arguments DEF Forms
  <2>3. QED  BY <2>1, <2>2, <1>0, FormKeepsClaims DEF Related
<1>4. CASE SetBacking
  <2>1. PICK id \in Names, backing \in Names \cup {NoId} : forms' = BackedAs(id, backing)
    BY <1>4 DEF SetBacking, Operation
  <2> DEFINE list == IF backing = NoId THEN <<>> ELSE <<backing>>
             form == [forms[id] EXCEPT !.backing = list]
  <2> HIDE DEF list
  <2>2. id \in Ids /\ form.claims = forms[id].claims
    BY <1>0, Arguments DEF Forms
  <2>3. forms' = [forms EXCEPT ![id] = form]
    BY <2>1 DEF BackedAs, list
  <2> HIDE DEF form
  <2>4. QED  BY <2>2, <2>3, <1>0, FormKeepsClaims
<1>5. CASE Annotate
  BY <1>5 DEF Annotate, Operation, SameClaims
<1>6. CASE Retire
  <2>1. PICK id \in Names, by \in Names \cup {NoId} : forms' = RetiredAs(id, by)
    BY <1>6 DEF Retire, Operation
  <2> DEFINE moved == [i \in Ids |->
                IF i \in References(graph, id) THEN Redirected(forms[i], id, by) ELSE forms[i]]
  <2>2. \A i \in Ids : Redirected(forms[i], id, by).claims = forms[i].claims
    BY <1>0 DEF Redirected, Forms
  <2>3. \A i \in Ids : moved[i].claims = forms[i].claims
    BY <2>2
  <2>4. forms' = [moved EXCEPT ![id].retired = Append(@, by)]
    BY <2>1 DEF RetiredAs
  <2>5. [moved[id] EXCEPT !.retired = Append(@, by)].claims = moved[id].claims
    <3>1. id \in Ids
      BY Arguments
    <3>2. id \notin References(graph, id)
      BY DEF References
    <3>3. moved[id] = forms[id]
      BY <3>1, <3>2
    <3>4. QED  BY <3>1, <3>3, <1>0 DEF Forms
  <2>6. DOMAIN moved = Ids
    OBVIOUS
  <2> HIDE DEF moved
  <2>7. QED  BY <2>3, <2>4, <2>5, <2>6 DEF SameClaims
<1>7. QED  BY <1>1, <1>2, <1>3, <1>4, <1>5, <1>6 DEF NoClaimStep

(* A batch corrects for as long as it does nothing else with claims.       *)
LEMMA CorrectNext == AuthoringInv /\ CorrectInv /\ [Next]_vars => CorrectInv'
<1> SUFFICES ASSUME AuthoringInv, CorrectInv, [Next]_vars PROVE CorrectInv'
  OBVIOUS
<1>1. CASE NoClaimStep
  <2>1. /\ graph' = graph /\ SameClaims(forms, forms') /\ Model(forms')
        /\ \E kind \in Kinds : kinds' = kinds \cup {kind}
    BY <1>1, OperationIsBounded, NoClaimsWritten, OperationContinues
    DEF OperationStep, NoClaimStep, AuthoringInv, Continues
  <2>2. OnlyCorrects' => OnlyCorrects
    BY <2>1 DEF OnlyCorrects
  <2>3. QED  BY <2>1, <2>2, CorrectClaimsKept
<1>2. CASE AddClaim \/ DeprecateClaim
  <2>1. ~OnlyCorrects'
    BY <1>2 DEF AddClaim, DeprecateClaim, Operation, OnlyCorrects
  <2>2. QED  BY <2>1 DEF CorrectInv
<1>3. CASE Supersede \/ MintAndSupersede
  <2>1. graph' = graph /\ (OnlyCorrects' => OnlyCorrects)
    BY <1>3 DEF Supersede, MintAndSupersede, Operation, OnlyCorrects
  <2>2. PICK s \in Names \cup {Frame}, p \in Predicates, id \in Ids :
            SupersedeAllowed(s, p, id) /\ forms' = Superseded(s, p, id)
    BY <1>3, Arguments, MintIsAnId DEF Supersede, MintAndSupersede, Operation
  <2>3. QED  BY <2>1, <2>2, CorrectSuperseded
<1>4. CASE Close \/ Commit
  <2>1. graph' = forms'
    BY <1>4 DEF Close, Commit, Done
  <2>2. (graph = forms)' => CorrectInv'
    BY CorrectNothing, PTL
  <2>3. QED  BY <2>1, <2>2
<1>5. CASE Begin \/ Refuse \/ UNCHANGED vars
  <2>1. UNCHANGED <<graph, forms, kinds>>
    BY <1>5 DEF Begin, Refuse, vars
  <2>2. QED
    BY <2>1 DEF CorrectInv, OnlyCorrects, Uncorrected, Corrected, Corrections, Live, Places, At
<1>6. QED  BY <1>1, <1>2, <1>3, <1>4, <1>5 DEF Next, NoClaimStep

(* What a batch of corrections leaves asserted, once the load has refused  *)
(* every claim which was retracted twice.                                  *)
LEMMA CorrectedLive ==
    ASSUME AuthoringInv, CorrectInv, OnlyCorrects, WrittenOnce(forms),
           NEW s \in Ids, NEW p \in Predicates
    PROVE  Cardinality(Live(forms, s, p)) = Cardinality(Live(graph, s, p))
<1>1. /\ Model(graph) /\ Model(forms) /\ Grown(graph, forms)
      /\ Places(graph) \subseteq Places(forms)
  BY PlacesGrow DEF AuthoringInv, Batch
<1>2. ASSUME NEW c \in Places(graph)
      PROVE  /\ At(forms, c).pred = At(graph, c).pred
             /\ Deprecated(At(graph, c)) => Deprecated(At(forms, c))
  <2>1. ClaimKept(At(graph, c), At(forms, c))
    BY <1>1, PlacesGrow
  <2>2. At(graph, c) \in Claims /\ At(forms, c) \in Claims
    BY <1>1, PlaceFields
  <2>3. QED  BY <2>1, <2>2, ClaimFields DEF ClaimKept
<1>3. \A c \in Live(forms, s, p) : c \in Live(graph, s, p) \/ c \in Corrections(s, p)
  BY <1>2 DEF Live, Corrections
<1>4. Corrections(s, p) \subseteq Live(forms, s, p)
  BY DEF CorrectInv, Corrections, Live, Deprecated
<1>5. ASSUME NEW c \in Live(graph, s, p), At(forms, c).by = <<>>
      PROVE  c \in Live(forms, s, p)
  BY <1>1, <1>2, <1>5 DEF Live, Deprecated
<1>6. CASE Uncorrected(s, p)
  <2>1. \A c : c \in Live(forms, s, p) <=> c \in Live(graph, s, p)
    BY <1>3, <1>5, <1>6 DEF Uncorrected
  <2>2. Live(forms, s, p) = Live(graph, s, p)
    BY <2>1
  <2>3. QED  BY <2>2
<1>7. CASE Corrected(s, p)
  <2>1. PICK at \in Places(graph) :
            /\ Live(graph, s, p) = {at}
            /\ IsFiniteSet(Corrections(s, p))
            /\ Len(At(forms, at).by) = Cardinality(Corrections(s, p))
    BY <1>7 DEF Corrected
  <2>2. at \in Places(forms) /\ At(forms, at) \in Claims
    BY <1>1, <2>1, PlaceFields
  <2>3. At(forms, at).by \in Seq(Ids) /\ Len(At(forms, at).by) \in Nat
    BY <2>2, ClaimFields
  <2>12. Deprecated(At(forms, at)) <=> Len(At(forms, at).by) > 0
    BY <2>2, ClaimFields
  <2>4. Len(At(forms, at).by) <= 1
    BY <2>2 DEF WrittenOnce
  <2> DEFINE n == Len(At(forms, at).by)
  <2>5. n \in Nat /\ n <= 1 /\ n = Cardinality(Corrections(s, p))
    BY <2>1, <2>3, <2>4
  <2>6. n = 0 => At(forms, at).by = <<>>
    BY <2>3
  <2>7. n = 1 => Deprecated(At(forms, at))
    BY <2>12
  <2> HIDE DEF n
  <2>8. CASE n = 0
    <3>1. IsFiniteSet(Corrections(s, p)) /\ Cardinality(Corrections(s, p)) = 0
      BY <2>1, <2>8, <2>5
    <3>2. Corrections(s, p) = {}
      BY <3>1, FS_EmptySet
    <3>3. QED  BY <2>1, <2>8, <2>6, <3>2, <1>6 DEF Uncorrected
  <2>9. CASE n = 1
    <3>1. PICK c : Corrections(s, p) = {c}
      BY <2>1, <2>9, <2>5, FS_Singleton
    <3>2. at \notin Live(forms, s, p)
      BY <2>9, <2>7 DEF Live
    <3>3. Live(forms, s, p) = {c}
      BY <1>3, <1>4, <2>1, <3>1, <3>2
    <3>4. QED  BY <2>1, <3>3, FS_Singleton
  <2>10. n = 0 \/ n = 1
    BY <2>5
  <2>11. QED  BY <2>8, <2>9, <2>10
<1>8. QED  BY <1>6, <1>7 DEF CorrectInv

(* A batch whose claims were all written by superseding leaves as many     *)
(* asserted under every subject and predicate as it found: what was asked  *)
(* of the graph twice was retracted twice, and the load refuses that.      *)
THEOREM AuthoringReplaces == Spec => CorrectionsReplace
<1> DEFINE Step == graph' # graph /\ kinds \cap {"AddClaim", "DeprecateClaim"} = {} =>
        \A s \in Ids, p \in Predicates :
            Cardinality(Live(graph', s, p)) = Cardinality(Live(graph, s, p))
<1>1. Init => CorrectInv
  BY CorrectNothing DEF Init
<1>2. AuthoringInv /\ CorrectInv /\ [Next]_vars => Step
  <2> SUFFICES ASSUME AuthoringInv, CorrectInv, [Next]_vars, graph' # graph, OnlyCorrects,
                      NEW s \in Ids, NEW p \in Predicates
               PROVE  Cardinality(Live(graph', s, p)) = Cardinality(Live(graph, s, p))
    BY DEF OnlyCorrects
  <2>1. graph' = forms /\ WrittenOnce(forms)
    BY OnlyCommitWrites DEF Loads
  <2>2. QED  BY <2>1, CorrectedLive
<1>3. AuthoringInv /\ CorrectInv /\ [Next]_vars => [Step]_vars
  BY <1>2
<1> HIDE DEF Step
<1>4. Spec => [][Step]_vars
  BY <1>1, <1>3, AuthoringInvariant, CorrectNext, PTL DEF Spec
<1>5. QED  BY <1>4 DEF Step, CorrectionsReplace
-----------------------------------------------------------------------------
(* Retirements: who names a node this batch retired.  One which is retired *)
(* alone is named by nothing, as its references were the graph's and were  *)
(* redirected; a second retirement may point at the first, which is why    *)
(* the property speaks of batches which retire one node.                   *)
Unrelated == kinds \cap {"AddEdge", "Relate", "SetBacking"} = {}
Gone == {i \in Ids : Retired(forms, i) /\ ~Retired(graph, i)}
RedirectInv ==
    Unrelated =>
        /\ IsFiniteSet(Gone)
        /\ \A i \in Entities(forms) : \A x \in Ids \ {i} : Naming(forms[i], x) =>
              \/ x \notin Gone /\ Naming(graph[i], x)
              \/ \E y \in Gone : y # x

LEMMA RedirectNothing == ASSUME graph = forms PROVE RedirectInv
<1>1. Gone = {}
  BY DEF Gone
<1>2. IsFiniteSet(Gone)
  BY <1>1, FS_EmptySet
<1>3. QED  BY <1>1, <1>2 DEF RedirectInv

(* An operation which neither retires nor relates anything: what each form *)
(* names is what it named, or the form is a new node, which names nothing. *)
Unmoved(f, g) ==
    \A i \in Ids :
        \/ /\ g[i].tag = f[i].tag /\ g[i].within = f[i].within
           /\ g[i].backing = f[i].backing /\ g[i].retired = f[i].retired
        \/ /\ f[i].tag = "none"
           /\ g[i].within = NoId /\ g[i].backing = <<>> /\ g[i].retired = <<>>

LEMMA UnmovedKeepsRedirects ==
    ASSUME AuthoringInv, RedirectInv, graph' = graph, Unmoved(forms, forms'),
           Unrelated' => Unrelated
    PROVE  RedirectInv'
<1> SUFFICES ASSUME Unrelated PROVE RedirectInv'
  BY DEF RedirectInv
<1>1. \A i \in Ids : forms[i].tag = "none" => forms[i].retired = <<>>
  BY BlankForm DEF AuthoringInv, Batch, Model
<1>2. \A i \in Ids : Retired(forms', i) <=> Retired(forms, i)
  BY <1>1 DEF Unmoved, Retired
<1>3. Gone' = Gone
  BY <1>2 DEF Gone, Retired
<1>4. ASSUME NEW i \in Ids, NEW x \in Ids, Naming(forms'[i], x)
      PROVE  Naming(forms[i], x) /\ forms'[i].tag = forms[i].tag
  <2>1. x # NoId
    BY IdsApart
  <2>2. ~(forms'[i].within = NoId /\ forms'[i].backing = <<>> /\ forms'[i].retired = <<>>)
    BY <1>4, <2>1 DEF Naming
  <2>3. /\ forms'[i].tag = forms[i].tag /\ forms'[i].within = forms[i].within
        /\ forms'[i].backing = forms[i].backing /\ forms'[i].retired = forms[i].retired
    BY <2>2 DEF Unmoved
  <2>4. QED  BY <1>4, <2>3 DEF Naming
<1>5. ASSUME NEW i \in Entities(forms'), NEW x \in Ids \ {i}, Naming(forms'[i], x)
      PROVE  (x \notin Gone /\ Naming(graph[i], x)) \/ \E y \in Gone : y # x
  <2>1. i \in Ids /\ forms'[i].tag \in {"node", "edge"}
    BY DEF Entities
  <2>2. Naming(forms[i], x) /\ i \in Entities(forms)
    BY <1>4, <1>5, <2>1 DEF Entities
  <2>3. QED  BY <2>2 DEF RedirectInv
<1>6. IsFiniteSet(Gone)
  BY DEF RedirectInv
<1>7. RedirectInv'
  <2>1. /\ IsFiniteSet(Gone')
        /\ \A i \in Entities(forms') : \A x \in Ids \ {i} : Naming(forms'[i], x) =>
              (x \notin Gone' /\ Naming(graph'[i], x)) \/ \E y \in Gone' : y # x
    BY <1>3, <1>5, <1>6
  <2>2. QED  BY <2>1 DEF RedirectInv
<1>8. QED  BY <1>7

LEMMA SameRelationsUnmoved ==
    ASSUME NEW f, NEW g, SameRelations(f, g)
    PROVE  Unmoved(f, g)
BY DEF SameRelations, Unmoved

(* What is retired is named by no form which is redirected away from it.   *)
LEMMA RedirectedAway ==
    ASSUME NEW a \in Forms, NEW id \in Ids, NEW by \in Ids, by # id
    PROVE  ~Naming(Redirected(a, id, by), id)
<1> DEFINE form == Redirected(a, id, by)
<1>1. /\ form.within = IF a.within = id THEN by ELSE a.within
      /\ form.backing = Repointed(a.backing, id, by)
      /\ form.retired = Repointed(a.retired, id, by)
  BY DEF Redirected, Forms
<1>2. ASSUME NEW list, NEW k \in DOMAIN Repointed(list, id, by)
      PROVE  Repointed(list, id, by)[k] # id
  BY DEF Repointed
<1>3. form.within # id
  BY <1>1
<1>4. QED  BY <1>1, <1>2, <1>3 DEF Naming

LEMMA RetiredForms ==
    ASSUME Batch, NEW id \in Names, NEW by \in Names \cup {NoId}, RetireAllowed(id, by)
    PROVE  /\ \A i \in Ids \ {id} : RetiredAs(id, by)[i] =
                  IF i \in References(graph, id) THEN Redirected(forms[i], id, by) ELSE forms[i]
           /\ Retired(RetiredAs(id, by), id)
<1> DEFINE moved == [i \in Ids |->
              IF i \in References(graph, id) THEN Redirected(forms[i], id, by) ELSE forms[i]]
<1>1. id \in Ids /\ id \notin References(graph, id)
  BY Arguments DEF References
<1>2. moved[id] = forms[id] /\ forms[id] \in Forms
  BY <1>1 DEF Batch, Model
<1>3. RetiredAs(id, by) = [moved EXCEPT ![id].retired = Append(@, by)]
  BY DEF RetiredAs
<1>4. RetiredAs(id, by)[id] = [forms[id] EXCEPT !.retired = Append(@, by)]
  BY <1>1, <1>2, <1>3
<1>5. RetiredAs(id, by)[id].retired = Append(forms[id].retired, by)
  BY <1>2, <1>4 DEF Forms
<1>6. forms[id].retired \in Seq(Ids \cup {NoId}) /\ by \in Ids \cup {NoId}
  BY <1>2, FormFields, Arguments
<1>7. Retired(RetiredAs(id, by), id)
  BY <1>5, <1>6 DEF Retired
<1>8. QED  BY <1>3, <1>7

(* A claim which is retracted, or written in place of one, moves nothing.  *)
LEMMA RetractedRelations ==
    ASSUME Batch, NEW f, Continues(forms, f), SameRelations(forms, f),
           NEW at \in Places(graph), NEW by \in Ids
    PROVE  SameRelations(forms, Retracted(f, at, by))
<1>1. Model(graph) /\ Model(forms) /\ Model(f) /\ Grown(graph, f)
  BY GrownTransitive DEF Batch, Continues, Model
<1>2. at \in Places(f)
  BY <1>1, PlacesGrow
<1>3. SameRelations(f, Retracted(f, at, by))
  BY <1>1, <1>2, RetractedForms
<1>4. QED  BY <1>3 DEF SameRelations

LEMMA SupersededRelations ==
    ASSUME Batch, NEW s \in Names \cup {Frame}, NEW p \in Predicates, NEW id \in Ids,
           SupersedeAllowed(s, p, id)
    PROVE  SameRelations(forms, Superseded(s, p, id))
<1> DEFINE at == CHOOSE at \in Live(graph, s, p) : TRUE
<1>1. Live(graph, s, p) # {}
  BY FS_EmptySet DEF SupersedeAllowed
<1>2. at \in Places(graph)
  BY <1>1 DEF Live
<1>3. Continues(forms, Recorded(s, p, id))
  BY RecordSound DEF SupersedeAllowed, RecordAllowed
<1>4. SameRelations(forms, Recorded(s, p, id))
  BY RecordedForms DEF Batch
<1>5. Superseded(s, p, id) = Retracted(Recorded(s, p, id), at, id)
  BY DEF Superseded
<1> HIDE DEF at
<1>6. QED  BY <1>2, <1>3, <1>4, <1>5, RetractedRelations

LEMMA DeprecatedRelations == Batch /\ DeprecateClaim => SameRelations(forms, forms')
<1> SUFFICES ASSUME Batch, DeprecateClaim PROVE SameRelations(forms, forms')
  OBVIOUS
<1>1. PICK id \in ClaimIds(graph), by \in ClaimIds(graph) \cup ClaimIds(forms) :
          forms' = Retracted(forms, ClaimOf(graph, id), by)
  BY DEF DeprecateClaim, Operation
<1>2. ClaimOf(graph, id) \in Places(graph) /\ by \in Ids
  BY ClaimIsThere DEF Batch
<1>3. Continues(forms, forms) /\ SameRelations(forms, forms)
  BY GrownReflexive, SameTransform DEF Continues, Batch, Model, SameRelations
<1>4. QED  BY <1>1, <1>2, <1>3, RetractedRelations

(* Who names what after a retirement: the node it retires is named only by *)
(* what another retirement of the batch pointed at it, and every other     *)
(* name stands beside a retirement of something else.                      *)
LEMMA RetireRedirects ==
    ASSUME AuthoringInv, RedirectInv, Unrelated, graph' = graph,
           NEW id \in Names, NEW by \in Names \cup {NoId}, RetireAllowed(id, by),
           forms' = RetiredAs(id, by)
    PROVE  /\ IsFiniteSet(Gone')
           /\ \A i \in Entities(forms') : \A x \in Ids \ {i} : Naming(forms'[i], x) =>
                 (x \notin Gone' /\ Naming(graph'[i], x)) \/ \E y \in Gone' : y # x
<1>1. Batch /\ id \in Ids /\ ~Retired(graph, id)
  BY Arguments DEF AuthoringInv, RetireAllowed
<1>2. Model(forms') /\ Grown(forms, forms')
  BY <1>1, RetireGrows DEF Batch
<1>3. /\ \A i \in Ids \ {id} : forms'[i] =
              IF i \in References(graph, id) THEN Redirected(forms[i], id, by) ELSE forms[i]
      /\ Retired(forms', id)
  BY <1>1, RetiredForms
<1>4. id \in Gone'
  BY <1>1, <1>3 DEF Gone
<1>5. Gone \subseteq Gone'
  BY <1>2 DEF Gone, Retired, Grown, FormKept
<1>6. ASSUME NEW i \in Ids \ {id}, Retired(forms', i)
      PROVE  Retired(forms, i)
  <2>1. CASE i \in References(graph, id)
    <3>1. by \in Ids /\ forms[i] \in Forms
      BY <2>1, <1>1, Arguments DEF RetireAllowed, Batch, Model
    <3>2. forms'[i].retired = Repointed(forms[i].retired, id, by)
      BY <2>1, <1>3, <3>1 DEF Redirected, Forms
    <3>3. forms[i].retired \in Seq(Ids \cup {NoId})
      BY <3>1, FormFields
    <3>4. forms[i].retired = <<>> => forms'[i].retired = <<>>
      BY <3>2, <3>3 DEF Repointed
    <3>5. QED  BY <1>6, <3>4 DEF Retired
  <2>2. CASE i \notin References(graph, id)
    BY <2>2, <1>3, <1>6 DEF Retired
  <2>3. QED  BY <2>1, <2>2
<1>7. Gone' \subseteq Gone \cup {id}
  BY <1>6 DEF Gone, Retired
<1>8. IsFiniteSet(Gone')
  <2>1. IsFiniteSet(Gone \cup {id})
    BY FS_AddElement DEF RedirectInv
  <2>2. QED  BY <1>7, <2>1, FS_Subset
<1>9. ASSUME NEW i \in Entities(forms'), id # i, Naming(forms'[i], id)
      PROVE  \E y \in Gone' : y # id
  <2>1. i \in Ids /\ forms'[i].tag \in {"node", "edge"}
    BY DEF Entities
  <2>2. i \notin References(graph, id)
    <3>1. SUFFICES ASSUME i \in References(graph, id) PROVE FALSE
      OBVIOUS
    <3>2. by \in Ids /\ by # id /\ forms[i] \in Forms
      BY <3>1, <2>1, <1>1, Arguments DEF RetireAllowed, Batch, Model
    <3>3. forms'[i] = Redirected(forms[i], id, by)
      BY <3>1, <2>1, <1>3, <1>9
    <3>4. QED  BY <3>2, <3>3, <1>1, <1>9, RedirectedAway
  <2>3. forms'[i] = forms[i] /\ i \in Entities(forms)
    BY <2>1, <2>2, <1>3, <1>9 DEF Entities
  <2>4. (id \notin Gone /\ Naming(graph[i], id)) \/ \E y \in Gone : y # id
    BY <2>3, <1>1, <1>9 DEF RedirectInv
  <2>5. ~Naming(graph[i], id)
    <3>1. SUFFICES ASSUME Naming(graph[i], id) PROVE FALSE
      OBVIOUS
    <3>2. graph[i].tag # "none"
      <4>1. graph[i].tag = "none" => graph[i] = Blank
        BY <1>1, <2>1 DEF Batch, Model
      <4>2. ~Naming(Blank, id)
        BY <1>1, IdsApart, BlankForm DEF Naming
      <4>3. QED  BY <3>1, <4>1, <4>2
    <3>3. graph[i].tag = forms[i].tag
      BY <3>2, <1>1, <2>1 DEF Batch, Grown, FormKept
    <3>4. i \in References(graph, id)
      BY <3>1, <3>3, <2>1, <2>3, <1>9 DEF References, Entities
    <3>5. QED  BY <3>4, <2>2
  <2>6. QED  BY <2>4, <2>5, <1>5
<1>10. \A i \in Entities(forms') : \A x \in Ids \ {i} : Naming(forms'[i], x) =>
          \E y \in Gone' : y # x
  BY <1>4, <1>9
<1>11. QED  BY <1>8, <1>10

LEMMA RedirectNext == AuthoringInv /\ RedirectInv /\ [Next]_vars => RedirectInv'
<1> SUFFICES ASSUME AuthoringInv, RedirectInv, [Next]_vars PROVE RedirectInv'
  OBVIOUS
<1>1. Batch /\ forms \in [Ids -> Forms]
  BY DEF AuthoringInv, Batch, Model
<1>2. CASE AddNode
  <2>1. PICK id \in Chosen : AddNodeAllowed(id) /\ forms' = NodeAdded(id)
    BY <1>2 DEF AddNode, Operation
  <2>2. id \in Ids /\ forms[id].tag = "none"
    BY <2>1, Arguments DEF AddNodeAllowed, Unheld, Written
  <2>3. \A i \in Ids : forms'[i] = IF i = id THEN [Blank EXCEPT !.tag = "node"] ELSE forms[i]
    BY <2>1, <2>2, <1>1 DEF NodeAdded
  <2>4. LET new == [Blank EXCEPT !.tag = "node"]
        IN  new.within = NoId /\ new.backing = <<>> /\ new.retired = <<>>
    BY DEF Blank
  <2>5. Unmoved(forms, forms')
    BY <2>2, <2>3, <2>4 DEF Unmoved
  <2>6. graph' = graph /\ (Unrelated' => Unrelated)
    BY <1>2 DEF AddNode, Operation, Unrelated
  <2>7. QED  BY <2>5, <2>6, UnmovedKeepsRedirects
<1>3. CASE AddEdge \/ Relate \/ SetBacking
  <2>1. ~Unrelated'
    BY <1>3 DEF AddEdge, Relate, SetBacking, Operation, Unrelated
  <2>2. QED  BY <2>1 DEF RedirectInv
<1>4. CASE Annotate \/ AddClaim \/ Supersede \/ MintAndSupersede \/ DeprecateClaim
  <2>1. SameRelations(forms, forms')
    <3>1. CASE Annotate
      BY <3>1 DEF Annotate, Operation, SameRelations
    <3>2. CASE AddClaim
      <4>1. PICK s \in Names \cup {Frame}, p \in Predicates, id \in Chosen \cup {NoId} :
                forms' = Recorded(s, p, id)
        BY <3>2 DEF AddClaim, Operation
      <4>2. id \in Ids \cup {NoId}
        BY Arguments
      <4>3. QED  BY <1>1, <4>1, <4>2, RecordedForms DEF Batch
    <3>3. CASE Supersede \/ MintAndSupersede
      <4>1. PICK s \in Names \cup {Frame}, p \in Predicates, id \in Ids :
                SupersedeAllowed(s, p, id) /\ forms' = Superseded(s, p, id)
        BY <3>3, Arguments, MintIsAnId DEF Supersede, MintAndSupersede, Operation
      <4>2. QED  BY <4>1, <1>1, SupersededRelations
    <3>4. CASE DeprecateClaim
      BY <3>4, <1>1, DeprecatedRelations
    <3>5. QED  BY <1>4, <3>1, <3>2, <3>3, <3>4
  <2>2. Unmoved(forms, forms')
    BY <2>1, SameRelationsUnmoved
  <2>3. graph' = graph /\ (Unrelated' => Unrelated)
    BY <1>4 DEF Annotate, AddClaim, Supersede, MintAndSupersede, DeprecateClaim, Operation,
                Unrelated
  <2>4. QED  BY <2>2, <2>3, UnmovedKeepsRedirects
<1>5. CASE Retire
  <2>1. PICK id \in Names, by \in Names \cup {NoId} :
            RetireAllowed(id, by) /\ forms' = RetiredAs(id, by)
    BY <1>5 DEF Retire, Operation
  <2>2. graph' = graph /\ (Unrelated' => Unrelated)
    BY <1>5 DEF Retire, Operation, Unrelated
  <2>3. SUFFICES ASSUME Unrelated' PROVE RedirectInv'
    BY DEF RedirectInv
  <2>4. /\ IsFiniteSet(Gone')
        /\ \A i \in Entities(forms') : \A x \in Ids \ {i} : Naming(forms'[i], x) =>
              (x \notin Gone' /\ Naming(graph'[i], x)) \/ \E y \in Gone' : y # x
    BY <2>1, <2>2, <2>3, RetireRedirects
  <2>5. QED  BY <2>4 DEF RedirectInv
<1>6. CASE Close \/ Commit
  <2>1. graph' = forms'
    BY <1>6 DEF Close, Commit, Done
  <2>2. (graph = forms => RedirectInv)'
    BY RedirectNothing, PTL
  <2>3. QED  BY <2>1, <2>2
<1>7. CASE Begin \/ Refuse \/ UNCHANGED vars
  <2>1. UNCHANGED <<graph, forms, kinds>>
    BY <1>7 DEF Begin, Refuse, vars
  <2>2. QED  BY <2>1 DEF RedirectInv, Unrelated, Gone, Retired, Entities, Naming
<1>8. QED  BY <1>2, <1>3, <1>4, <1>5, <1>6, <1>7 DEF Next

(* A batch which retires one node, and writes no relation of its own,      *)
(* leaves nothing which names it: neither what named it in the graph, each *)
(* of which was redirected, nor what the batch wrote.                      *)
THEOREM AuthoringRedirects == Spec => RetiringRedirects
<1> DEFINE Step ==
        LET gone == {i \in Ids : Retired(graph', i) /\ ~Retired(graph, i)}
            related == kinds \cap {"AddEdge", "Relate", "SetBacking"} # {}
        IN  graph' # graph /\ Cardinality(gone) = 1 /\ ~related =>
                \A i \in gone : References(graph', i) = {}
<1>1. Init => RedirectInv
  BY RedirectNothing DEF Init
<1>2. AuthoringInv /\ RedirectInv /\ [Next]_vars => Step
  <2> SUFFICES ASSUME AuthoringInv, RedirectInv, [Next]_vars, graph' # graph, Unrelated,
                      Cardinality({i \in Ids : Retired(graph', i) /\ ~Retired(graph, i)}) = 1,
                      NEW x \in {i \in Ids : Retired(graph', i) /\ ~Retired(graph, i)}
               PROVE  References(graph', x) = {}
    BY DEF Unrelated
  <2>1. graph' = forms
    BY OnlyCommitWrites
  <2>2. Gone = {i \in Ids : Retired(graph', i) /\ ~Retired(graph, i)}
    BY <2>1 DEF Gone
  <2>3. IsFiniteSet(Gone) /\ Cardinality(Gone) = 1 /\ x \in Gone
    BY <2>2 DEF RedirectInv
  <2>4. \A y \in Gone : y = x
    <3> HIDE DEF Gone
    <3>1. PICK z : Gone = {z}
      BY <2>3, FS_Singleton
    <3>2. QED  BY <2>3, <3>1
  <2>5. x \in Ids /\ \A i \in Entities(forms) : i \in Ids
    BY DEF Entities
  <2>6. \A i \in Entities(forms) \ {x} : ~Naming(forms[i], x)
    BY <2>3, <2>4, <2>5 DEF RedirectInv
  <2>7. QED  BY <2>1, <2>6 DEF References
<1>3. AuthoringInv /\ RedirectInv /\ [Next]_vars => [Step]_vars
  BY <1>2
<1> HIDE DEF Step
<1>4. Spec => [][Step]_vars
  BY <1>1, <1>3, AuthoringInvariant, RedirectNext, PTL DEF Spec
<1>5. QED  BY <1>4, PTL DEF Step, RetiringRedirects
-----------------------------------------------------------------------------
(* A correction under a new id, and what a load of the forms says of it.   *)

(* Where the frame is, after the claim at at was retracted for by. *)
Moved(f, g, at, by) ==
    \/ g[Frame].transform = f[Frame].transform
    \/ /\ g[Frame].transform = by
       /\ f[Frame].transform = At(f, at).id /\ At(f, at).id # NoId

LEMMA RetractedFrame ==
    ASSUME NEW f, Model(f), NEW at, at[1] \in Ids, NEW by, At(graph, at).id = At(f, at).id
    PROVE  Moved(f, Retracted(f, at, by), at, by)
<1> DEFINE i == at[1]
           list == [f[i].claims EXCEPT ![at[2]] = [f[i].claims[at[2]] EXCEPT !.by = Append(@, by)]]
           form == [f[i] EXCEPT !.claims = list]
           marked == [f EXCEPT ![i] = form]
           frame == [marked[Frame] EXCEPT !.transform = by]
<1>1. Frame \in Ids /\ f[Frame] \in Forms /\ DOMAIN f = Ids
  BY IdsApart DEF Model
<1> f[i] \in Forms
  BY DEF Model
<1>2. \/ Retracted(f, at, by) = marked
      \/ /\ Retracted(f, at, by) = [marked EXCEPT ![Frame] = frame]
         /\ f[Frame].transform = At(f, at).id /\ At(f, at).id # NoId
  BY DEF Retracted
<1> HIDE DEF list
<1>3. /\ form.transform = f[i].transform
      /\ form = [tag |-> form.tag, within |-> form.within, backing |-> form.backing,
                 transform |-> form.transform, retired |-> form.retired,
                 claims |-> form.claims]
  BY DEF Forms
<1> HIDE DEF form
<1>4. /\ marked[Frame].transform = f[Frame].transform /\ DOMAIN marked = Ids
      /\ marked[Frame] = IF i = Frame THEN form ELSE f[Frame]
  BY <1>1, <1>3
<1> HIDE DEF marked
<1>5. frame.transform = by
  <2>1. CASE i = Frame
    BY <2>1, <1>3, <1>4
  <2>2. CASE i # Frame
    BY <2>2, <1>1, <1>4 DEF Forms
  <2>3. QED  BY <2>1, <2>2
<1> HIDE DEF frame
<1>6. [marked EXCEPT ![Frame] = frame][Frame].transform = by
  BY <1>1, <1>4, <1>5
<1>7. QED  BY <1>2, <1>4, <1>6 DEF Moved

LEMMA RecordedFrame ==
    ASSUME Model(forms), NEW s \in Names \cup {Frame}, NEW p, NEW id
    PROVE  Recorded(s, p, id)[Frame].transform = forms[Frame].transform
<1> DEFINE list == Append(forms[s].claims, [id |-> id, pred |-> p, by |-> <<>>])
           form == [forms[s] EXCEPT !.claims = list]
<1>1. s \in Ids /\ Frame \in Ids /\ forms[s] \in Forms
  BY Arguments, IdsApart DEF Model
<1>2. Recorded(s, p, id) = [forms EXCEPT ![s] = form]
  BY DEF Recorded
<1> HIDE DEF list
<1>3. form.transform = forms[s].transform
  BY <1>1 DEF Forms
<1> HIDE DEF form
<1>4. QED  BY <1>1, <1>2, <1>3 DEF Model

(* Nothing held the id, so no id is held twice. *)
LEMMA AmendedIds ==
    ASSUME NEW f, NEW g, Model(f), SameRelations(f, g), NEW at, NEW new, NEW id \in Ids,
           Amended(f, g, at, new, id), id \notin Written(f) \cup ClaimIds(f)
    PROVE  /\ ClaimIds(g) = ClaimIds(f) \cup {id}
           /\ Written(g) = Written(f)
           /\ OneIdEach(f) => OneIdEach(g)
<1>1. ClaimIds(g) = ClaimIds(f) \cup {id}
  BY IdsApart DEF ClaimIds, Amended
<1>2. Written(g) = Written(f)
  BY DEF Written, SameRelations
<1>3. \A c \in Places(f) : At(f, c).id # id
  BY IdsApart DEF ClaimIds
<1>4. ASSUME OneIdEach(f) PROVE OneIdEach(g)
  <2>1. ASSUME NEW a \in Places(g), NEW b \in Places(g), At(g, a).id = At(g, b).id, At(g, a).id # NoId
        PROVE  a = b
    BY <2>1, <1>3, <1>4 DEF Amended, OneIdEach
  <2>2. Written(g) \cap ClaimIds(g) = {}
    BY <1>1, <1>2, <1>4 DEF OneIdEach
  <2>3. QED  BY <2>1, <2>2 DEF OneIdEach
<1>5. QED  BY <1>1, <1>2, <1>4

(* What asks for a claim by its id is answered with the one which holds it. *)
LEMMA OneClaimOf ==
    ASSUME NEW f, OneIdEach(f), NEW c \in Places(f), At(f, c).id # NoId
    PROVE  ClaimOf(f, At(f, c).id) = c
<1> DEFINE d == ClaimOf(f, At(f, c).id)
<1>1. d \in Places(f) /\ At(f, d).id = At(f, c).id
  BY DEF ClaimOf
<1>2. QED  BY <1>1 DEF OneIdEach

(* No claim comes to be its own replacement: the new one has none, so the  *)
(* one it corrects leads nowhere round, and the others lead as they did.   *)
LEMMA AmendedReplacements ==
    ASSUME NEW f, NEW g, OneIdEach(f), OneIdEach(g), NEW at, NEW new, NEW id \in Ids,
           Amended(f, g, at, new, id), At(f, at).by = <<>>,
           ~Cyclic(Replacements(f))
    PROVE  ~Cyclic(Replacements(g))
<1> SUFFICES ASSUME NEW s \in SUBSET DOMAIN Replacements(g), s # {},
                    \A x \in s : Replacements(g)[x] \in s
             PROVE  FALSE
  BY DEF Cyclic
<1>1. At(g, at).by[1] = id /\ at # new /\ at \in Places(g) /\ new \in Places(g)
  BY DEF Amended
<1>2. ASSUME NEW x \in s
      PROVE  \E w \in Places(g) : /\ At(g, w).id = x /\ x # NoId /\ At(g, w).by # <<>>
                                  /\ Replacements(g)[x] = At(g, w).by[1]
  <2>1. PICK w \in Places(g) : At(g, w).id = x /\ x # NoId /\ At(g, w).by # <<>>
    BY DEF Replacements, Deprecated
  <2>2. ClaimOf(g, x) = w
    BY <2>1, OneClaimOf
  <2>3. Replacements(g)[x] = At(g, ClaimOf(g, x)).by[1]
    BY DEF Replacements
  <2>4. QED  BY <2>1, <2>2, <2>3
<1>3. id \notin s
  <2>1. SUFFICES ASSUME id \in s PROVE FALSE
    OBVIOUS
  <2>2. PICK w \in Places(g) : At(g, w).id = id /\ id # NoId /\ At(g, w).by # <<>>
    BY <1>2, <2>1
  <2>3. w = new
    BY <2>2, <1>1 DEF OneIdEach, Amended
  <2>4. QED  BY <2>2, <2>3 DEF Amended
<1>4. ASSUME NEW x \in s
      PROVE  x \in DOMAIN Replacements(f) /\ Replacements(f)[x] = Replacements(g)[x]
  <2>1. PICK w \in Places(g) : /\ At(g, w).id = x /\ x # NoId /\ At(g, w).by # <<>>
                               /\ Replacements(g)[x] = At(g, w).by[1]
    BY <1>2
  <2>2. w # at
    BY <2>1, <1>1, <1>3
  <2>3. w \in Places(f) /\ At(f, w) = At(g, w)
    BY <2>1, <2>2 DEF Amended
  <2>4. x \in DOMAIN Replacements(f)
    BY <2>1, <2>3 DEF Replacements, Deprecated
  <2>5. ClaimOf(f, x) = w
    BY <2>1, <2>3, OneClaimOf
  <2>6. Replacements(f)[x] = At(f, ClaimOf(f, x)).by[1]
    BY <2>4 DEF Replacements
  <2>7. QED  BY <2>1, <2>3, <2>4, <2>5, <2>6
<1>5. s \in SUBSET DOMAIN Replacements(f) /\ \A x \in s : Replacements(f)[x] \in s
  BY <1>4
<1>6. QED  BY <1>5 DEF Cyclic

LEMMA AmendedLoads ==
    ASSUME NEW f, NEW g, Model(f), Model(g), SameRelations(f, g),
           NEW at, NEW new, NEW id \in Ids,
           Amended(f, g, at, new, id), id \notin Written(f) \cup ClaimIds(f),
           At(g, new).pred = At(f, at).pred, Moved(f, g, at, id),
           WrittenOnce(g), Loads(f)
    PROVE  Loads(g)
<1>1. /\ ClaimIds(g) = ClaimIds(f) \cup {id} /\ OneIdEach(f) /\ OneIdEach(g)
      /\ at \in Places(f) /\ at \in Places(g) /\ new \in Places(g)
  BY AmendedIds DEF Loads, Amended
<1>2. At(f, at).by = <<>>
  <2>1. At(f, at).by \in Seq(Ids)
    BY <1>1, PlaceFields, ClaimFields
  <2>2. Len(At(g, at).by) = Len(At(f, at).by) + 1 /\ Len(At(f, at).by) \in Nat
    BY <2>1 DEF Amended
  <2>3. Len(At(g, at).by) <= 1
    BY <1>1 DEF WrittenOnce
  <2>4. QED  BY <2>1, <2>2, <2>3
<1>3. NodesResolve(g)
  <2>1. /\ Entities(g) = Entities(f) /\ NodesOf(g) = NodesOf(f)
        /\ \A i \in Entities(f) : i \in Ids
    BY DEF Entities, NodesOf, SameRelations
  <2>2. QED  BY <2>1 DEF NodesResolve, SameRelations, Loads
<1>4. ClaimsResolve(g)
  <2>1. ASSUME NEW c \in Places(g), NEW k \in DOMAIN At(g, c).by
        PROVE  At(g, c).by[k] \in ClaimIds(g)
    <3>1. CASE c = new
      BY <3>1 DEF Amended
    <3>2. CASE c = at
      BY <3>2, <1>1, <1>2 DEF Amended
    <3>3. CASE c # new /\ c # at
      BY <3>3, <1>1 DEF Amended, Loads, ClaimsResolve
    <3>4. QED  BY <3>1, <3>2, <3>3
  <2>2. QED  BY <2>1 DEF ClaimsResolve
<1>5. FrameResolves(g)
  <2> DEFINE x == f[Frame].transform
  <2>1. CASE g[Frame].transform = x /\ x # NoId
    <3>1. x \in ClaimIds(f) /\ At(f, ClaimOf(f, x)).pred \in Transforms
      BY <2>1 DEF Loads, FrameResolves
    <3>2. PICK c \in Places(f) : At(f, c).id = x
      BY <3>1 DEF ClaimIds
    <3>3. c \in Places(g) /\ At(g, c).id = x /\ At(g, c).pred = At(f, c).pred
      BY <3>2 DEF Amended
    <3>4. ClaimOf(f, x) = c /\ ClaimOf(g, x) = c
      BY <3>2, <3>3, <2>1, <1>1, OneClaimOf
    <3>5. QED  BY <3>1, <3>3, <3>4, <2>1, <1>1 DEF FrameResolves
  <2>2. CASE g[Frame].transform = id /\ x = At(f, at).id /\ x # NoId
    <3>1. ClaimOf(f, x) = at /\ At(f, at).pred \in Transforms
      BY <2>2, <1>1, OneClaimOf DEF Loads, FrameResolves
    <3>2. ClaimOf(g, id) = new
      BY <1>1, OneClaimOf, IdsApart DEF Amended
    <3>3. QED  BY <3>1, <3>2, <2>2, <1>1 DEF FrameResolves
  <2>3. CASE g[Frame].transform = NoId
    BY <2>3 DEF FrameResolves
  <2>4. QED  BY <2>1, <2>2, <2>3 DEF Moved
<1>6. ~Cyclic(Replacements(g))
  BY <1>1, <1>2, AmendedReplacements DEF Loads
<1>7. ~Cyclic(Parents(g))
  <2>1. Parents(g) = Parents(f)
    BY DEF Parents, SameRelations
  <2>2. QED  BY <2>1 DEF Loads
<1>8. QED  BY <1>1, <1>3, <1>4, <1>5, <1>6, <1>7 DEF Loads

(* A correction under a minted id gives no id a second time, and leaves    *)
(* what would have been taken so that it is, unless the batch had retracted *)
(* the claim it corrects already.                                          *)
THEOREM AuthoringMints == Spec => CorrectionsSpoilNothing
<1> DEFINE Step ==
        operations' # operations /\ "MintAndSupersede" \in kinds' /\ MintAndSupersede =>
            /\ OneIdEach(forms) => OneIdEach(forms')
            /\ WrittenOnce(forms') /\ Loads(forms) => Loads(forms')
<1>1. AuthoringInv /\ [Next]_vars => Step
  <2> SUFFICES ASSUME AuthoringInv, MintAndSupersede
               PROVE  /\ OneIdEach(forms) => OneIdEach(forms')
                      /\ WrittenOnce(forms') /\ Loads(forms) => Loads(forms')
    OBVIOUS
  <2>1. PICK s \in Names \cup {Frame}, p \in Predicates : \E id \in Mint(s, p) :
            SupersedeAllowed(s, p, id) /\ forms' = Superseded(s, p, id)
    BY DEF MintAndSupersede, Operation
  <2>2. PICK id \in Mint(s, p) :
            SupersedeAllowed(s, p, id) /\ forms' = Superseded(s, p, id)
    BY <2>1
  <2>3. id \in Ids /\ id \notin Written(forms) \cup ClaimIds(forms)
    BY MintIsAnId DEF ClaimWritten
  <2>4. /\ Batch /\ Model(graph) /\ Model(forms) /\ Grown(graph, forms)
        /\ Subject(s)
    BY <2>2 DEF AuthoringInv, Batch, SupersedeAllowed, RecordAllowed
  <2>5. SameRelations(forms, forms')
    BY <2>2, <2>3, <2>4, SupersededRelations
  <2>6. Model(forms')
    BY <2>4, MintSound DEF Continues
  <2>7. PICK at \in Places(graph) : \E new :
            /\ Live(graph, s, p) = {at} /\ At(forms', new).pred = p
            /\ Amended(forms, forms', at, new, id)
    BY <2>2, <2>3, SupersededPlaces
  <2>8. PICK new : /\ Live(graph, s, p) = {at} /\ At(forms', new).pred = p
                   /\ Amended(forms, forms', at, new, id)
    BY <2>7
  <2>9. At(forms, at).pred = p /\ At(forms, at).id = At(graph, at).id /\ at \in Places(forms)
    BY <2>4, <2>8, PlacesGrow DEF Live, ClaimKept
  <2>10. Moved(forms, forms', at, id)
    <3> DEFINE f == Recorded(s, p, id)
    <3>1. Model(f) /\ f[Frame].transform = forms[Frame].transform
      BY <2>3, <2>4, RecordSound, RecordedFrame DEF Continues
    <3>2. At(f, at) = At(forms, at) /\ at[1] \in Ids
      <4>1. at[1] \in Ids
        BY <2>4, <2>9, PlaceFields
      <4>2. /\ Batch /\ Subject(s) /\ id \in Ids
            /\ s \in Names \cup {Frame} /\ p \in Predicates
        BY <2>3, <2>4
      <4>3. \A c \in Places(forms) : At(f, c) = At(forms, c)
        BY ONLY <4>2, RecordedPlaces
      <4> HIDE DEF f
      <4>4. QED  BY <2>9, <4>1, <4>3
    <3>3. forms' = Retracted(f, at, id)
      BY <2>2, <2>8 DEF Superseded
    <3> HIDE DEF f
    <3>4. Moved(f, forms', at, id)
      BY <2>3, <2>9, <3>1, <3>2, <3>3, RetractedFrame
    <3>5. QED  BY <3>1, <3>2, <3>4 DEF Moved
  <2>11. QED  BY <2>3, <2>4, <2>5, <2>6, <2>8, <2>9, <2>10, AmendedIds, AmendedLoads
<1>2. AuthoringInv /\ [Next]_vars => [Step]_vars
  BY <1>1
<1> HIDE DEF Step
<1>3. Spec => [][Step]_vars
  BY <1>2, AuthoringInvariant, PTL DEF Spec
<1>4. QED  BY <1>3 DEF Step, CorrectionsSpoilNothing
-----------------------------------------------------------------------------
(* A model read as a ledger.                                               *)
EntitiesOf(f) == {<<i, f[i].tag>> : i \in Written(f)}
RetiredOf(f) == {i \in Ids : Retired(f, i)}
ClaimsOf(f) == {[at |-> at, id |-> At(f, at).id, pred |-> At(f, at).pred] : at \in Places(f)}
RetractedOf(f) ==
    UNION {{[at |-> at, by |-> At(f, at).by[k]] : k \in DOMAIN At(f, at).by} : at \in Places(f)}

LEMMA RetractionFields ==
    ASSUME NEW f, NEW r
    PROVE  r \in RetractedOf(f) <=>
               \E at \in Places(f) : \E k \in DOMAIN At(f, at).by :
                   r = [at |-> at, by |-> At(f, at).by[k]]
BY DEF RetractedOf

(* What has grown includes, read as a ledger, what it grew from.           *)
LEMMA LedgerGrows ==
    ASSUME NEW f, NEW g, Model(f), Model(g), Grown(f, g)
    PROVE  /\ EntitiesOf(f) \subseteq EntitiesOf(g) /\ RetiredOf(f) \subseteq RetiredOf(g)
           /\ ClaimsOf(f) \subseteq ClaimsOf(g) /\ RetractedOf(f) \subseteq RetractedOf(g)
<1>1. EntitiesOf(f) \subseteq EntitiesOf(g)
  BY DEF EntitiesOf, Written, Grown, FormKept
<1>2. RetiredOf(f) \subseteq RetiredOf(g)
  BY DEF RetiredOf, Retired, Grown, FormKept
<1>3. ClaimsOf(f) \subseteq ClaimsOf(g)
  BY PlacesGrow DEF ClaimsOf, ClaimKept
<1>4. ASSUME NEW r \in RetractedOf(f)
      PROVE  r \in RetractedOf(g)
  <2>1. PICK at \in Places(f) : \E k \in DOMAIN At(f, at).by :
            r = [at |-> at, by |-> At(f, at).by[k]]
    BY RetractionFields
  <2>2. PICK k \in DOMAIN At(f, at).by : r = [at |-> at, by |-> At(f, at).by[k]]
    BY <2>1
  <2>3. at \in Places(g) /\ ClaimKept(At(f, at), At(g, at))
    BY PlacesGrow
  <2>4. At(f, at) \in Claims /\ At(g, at) \in Claims
    BY <2>3, PlaceFields
  <2>5. k \in DOMAIN At(g, at).by /\ At(g, at).by[k] = At(f, at).by[k]
    BY <2>3, <2>4, ClaimFields DEF ClaimKept
  <2>6. QED  BY <2>2, <2>3, <2>5, RetractionFields
<1>5. QED  BY <1>1, <1>2, <1>3, <1>4

(* Where every claim which was retracted leads: a set of retracted claims  *)
(* closed under replacement would be a cycle, which the load refuses.      *)
LEMMA LedgerEnds ==
    ASSUME NEW f, Model(f), Loads(f)
    PROVE  L!Ends(ClaimsOf(f), RetractedOf(f))
<1> SUFFICES ASSUME NEW loop \in SUBSET (ClaimsOf(f) \ L!Asserted(ClaimsOf(f), RetractedOf(f))),
                    loop # {},
                    \A c \in loop : \A r \in RetractedOf(f) :
                        r.at = c.at => \E d \in loop : d.id = r.by
             PROVE  FALSE
  BY DEF L!Ends
<1> DEFINE ids == {d.id : d \in loop} \ {NoId}
           next == Replacements(f)
<1>1. ASSUME NEW c \in loop
      PROVE  /\ c.at \in Places(f) /\ c.id = At(f, c.at).id
             /\ Deprecated(At(f, c.at)) /\ At(f, c.at).by[1] \in ids
  <2>1. c \in ClaimsOf(f) /\ c \notin L!Asserted(ClaimsOf(f), RetractedOf(f))
    OBVIOUS
  <2>2. c.at \in Places(f) /\ c.id = At(f, c.at).id
    BY <2>1 DEF ClaimsOf
  <2>3. PICK r \in RetractedOf(f) : r.at = c.at
    BY <2>1 DEF L!Asserted
  <2>4. \E k \in DOMAIN At(f, c.at).by : TRUE
    BY <2>3, RetractionFields
  <2>5. At(f, c.at) \in Claims
    BY <2>2, PlaceFields
  <2>6. Deprecated(At(f, c.at)) /\ 1 \in DOMAIN At(f, c.at).by /\ At(f, c.at).by[1] \in Ids
    BY <2>4, <2>5, ClaimFields
  <2>7. [at |-> c.at, by |-> At(f, c.at).by[1]] \in RetractedOf(f)
    BY <2>2, <2>6, RetractionFields
  <2>8. PICK d \in loop : d.id = At(f, c.at).by[1]
    BY <2>7
  <2>9. QED  BY <2>2, <2>6, <2>8, IdsApart
<1>2. ids # {}
  BY <1>1
<1>3. ASSUME NEW id \in ids
      PROVE  id \in DOMAIN next /\ next[id] \in ids
  <2>1. PICK c \in loop : c.id = id /\ id # NoId
    OBVIOUS
  <2>2. c.at \in Places(f) /\ id = At(f, c.at).id /\ Deprecated(At(f, c.at))
    BY <1>1, <2>1
  <2>3. ClaimOf(f, id) = c.at
    BY <2>1, <2>2 DEF ClaimOf, Loads, OneIdEach
  <2>4. id \in DOMAIN next /\ next[id] = At(f, c.at).by[1]
    BY <2>1, <2>2, <2>3 DEF Replacements
  <2>5. QED  BY <1>1, <2>1, <2>4
<1>4. ~Cyclic(next)
  BY DEF Loads
<1> HIDE DEF ids, next
<1>5. QED  BY <1>2, <1>3, <1>4 DEF Cyclic

(* A model which loads is a ledger.                                        *)
LEMMA LedgerSound ==
    ASSUME NEW f, Model(f), Loads(f)
    PROVE  L!Sound(EntitiesOf(f), ClaimsOf(f), RetractedOf(f))
<1>1. OneIdEach(f) /\ WrittenOnce(f) /\ ClaimsResolve(f)
  BY DEF Loads
<1>2. \A c \in ClaimsOf(f) : /\ c.at \in Places(f) /\ c.id = At(f, c.at).id
                             /\ c = [at |-> c.at, id |-> c.id, pred |-> At(f, c.at).pred]
  BY DEF ClaimsOf
<1>3. L!Distinct(EntitiesOf(f), ClaimsOf(f), NoId)
  <2>1. \A e1, e2 \in EntitiesOf(f) : e1[1] = e2[1] => e1 = e2
    BY DEF EntitiesOf
  <2>2. \A c1, c2 \in ClaimsOf(f) : c1.id = c2.id /\ c1.id # NoId => c1 = c2
    BY <1>1, <1>2 DEF OneIdEach
  <2>3. \A e \in EntitiesOf(f), c \in ClaimsOf(f) : e[1] # c.id
    <3> SUFFICES ASSUME NEW e \in EntitiesOf(f), NEW c \in ClaimsOf(f), e[1] = c.id
                 PROVE  FALSE
      OBVIOUS
    <3>1. e[1] \in Written(f) /\ e[1] # NoId
      BY IdsApart DEF EntitiesOf, Written
    <3>2. c.id \in ClaimIds(f)
      BY <1>2, <3>1 DEF ClaimIds
    <3>3. QED  BY <1>1, <3>1, <3>2 DEF OneIdEach
  <2>4. QED  BY <2>1, <2>2, <2>3 DEF L!Distinct
<1>4. ASSUME NEW r \in RetractedOf(f)
      PROVE  /\ r.at \in Places(f) /\ r.by = At(f, r.at).by[1]
             /\ r.by \in ClaimIds(f)
             /\ r = [at |-> r.at, by |-> r.by]
  <2>1. PICK at \in Places(f) : \E k \in DOMAIN At(f, at).by :
            r = [at |-> at, by |-> At(f, at).by[k]]
    BY RetractionFields
  <2>2. PICK k \in DOMAIN At(f, at).by : r = [at |-> at, by |-> At(f, at).by[k]]
    BY <2>1
  <2>3. At(f, at) \in Claims
    BY PlaceFields
  <2>4. k = 1
    BY <1>1, <2>3, ClaimFields DEF WrittenOnce
  <2>5. At(f, at).by[k] \in ClaimIds(f)
    BY <1>1 DEF ClaimsResolve
  <2>6. QED  BY <2>2, <2>4, <2>5
<1>5. L!Once(RetractedOf(f))
  BY <1>4 DEF L!Once
<1>6. L!Named(ClaimsOf(f), RetractedOf(f))
  <2>1. ASSUME NEW r \in RetractedOf(f)
        PROVE  (\E c \in ClaimsOf(f) : c.at = r.at) /\ (\E c \in ClaimsOf(f) : c.id = r.by)
    <3> DEFINE c(at) == [at |-> at, id |-> At(f, at).id, pred |-> At(f, at).pred]
    <3>1. \A at \in Places(f) : c(at) \in ClaimsOf(f)
      BY DEF ClaimsOf
    <3>2. \A at : c(at).at = at /\ c(at).id = At(f, at).id
      OBVIOUS
    <3>3. PICK at \in Places(f) : At(f, at).id = r.by
      BY <1>4 DEF ClaimIds
    <3> HIDE DEF c
    <3>4. \E d \in ClaimsOf(f) : d.at = r.at
      BY <1>4, <3>1, <3>2
    <3>5. \E d \in ClaimsOf(f) : d.id = r.by
      BY <3>1, <3>2, <3>3
    <3>6. QED  BY <3>4, <3>5
  <2>2. QED  BY <2>1 DEF L!Named
<1>7. QED  BY <1>3, <1>5, <1>6, LedgerEnds DEF L!Sound

(* Authoring keeps a ledger: for any batches, every commit adds to what    *)
(* the model says and neither loses nor reissues any of it.                *)
THEOREM AuthoringKeepsALedger == Spec => KeepsALedger
<1>1. Init => L!Init
  <2> SUFFICES ASSUME Init PROVE L!Init
    OBVIOUS
  <2>1. Model(graph) /\ Loads(graph)
    BY AuthoringInit DEF AuthoringInv, Batch
  <2>2. QED  BY <2>1, LedgerSound DEF L!Init, EntitiesOf, ClaimsOf, RetractedOf
<1>2. AuthoringInv /\ [Next]_vars => [L!Record]_(L!ledger)
  <2> SUFFICES ASSUME AuthoringInv, [Next]_vars, ~UNCHANGED L!ledger
               PROVE  L!Record
    OBVIOUS
  <2>1. graph' # graph
    BY DEF L!ledger
  <2>2. graph' = forms /\ Loads(forms)
    BY <2>1, OnlyCommitWrites
  <2>3. Model(graph) /\ Model(graph') /\ Grown(graph, graph') /\ Loads(graph')
    BY <2>2 DEF AuthoringInv, Batch
  <2>4. L!Sound(EntitiesOf(graph'), ClaimsOf(graph'), RetractedOf(graph'))
    BY <2>3, LedgerSound
  <2>5. /\ EntitiesOf(graph) \subseteq EntitiesOf(graph')
        /\ RetiredOf(graph) \subseteq RetiredOf(graph')
        /\ ClaimsOf(graph) \subseteq ClaimsOf(graph')
        /\ RetractedOf(graph) \subseteq RetractedOf(graph')
    BY <2>3, LedgerGrows
  <2>6. QED  BY <2>4, <2>5 DEF L!Record, EntitiesOf, RetiredOf, ClaimsOf, RetractedOf
<1>3. QED  BY <1>1, <1>2, AuthoringInvariant, PTL DEF Spec, KeepsALedger, L!Spec
=============================================================================
