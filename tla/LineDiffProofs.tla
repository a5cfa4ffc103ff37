--------------------------- MODULE LineDiffProofs ---------------------------
(***************************************************************************)
(* Proofs about LineDiff: the script a comparison comes to is as short as  *)
(* can be, and the hunks it is cut into patch the one text to the other,   *)
(* for texts, depths and contexts of any length.                           *)
(*                                                                         *)
(* Fewest is the table of edits between the beginnings of two texts.  The  *)
(* search knows of each diagonal how far the edits so far reach, and       *)
(* reaches no less than Fewest allows and no more (Searching); the walk    *)
(* back keeps as many lines as the edits it has left say (WalkingBack);    *)
(* what is put aside at both ends takes no edit (Trimmed).  Comparing, one *)
(* such fact for each stage, is the inductive invariant.                   *)
(*                                                                         *)
(* Hunks are stretches of the script, in order and apart, with every       *)
(* change in one of them (Windows, HunksCover); what a script reads is     *)
(* what its parts read one after another, so between two hunks both texts  *)
(* read alike (UnchangedReadsAlike).                                       *)
(***************************************************************************)
EXTENDS LineDiff, SequenceTheorems, WellFoundedInduction, TLAPS

(* What holds of 0, and of the next of every number it holds of, holds of  *)
(* all of them.                                                            *)
LEMMA Counting ==
    ASSUME NEW T \in SUBSET Nat, 0 \in T, \A n \in T : n + 1 \in T
    PROVE  T = Nat
<1> SUFFICES ASSUME Nat \ T # {} PROVE FALSE
  OBVIOUS
<1> DEFINE rest == Nat \ T
<1>1. PICK n \in rest : \A m \in rest : ~(<<m, n>> \in OpToRel(<, Nat))
  <2>1. rest \subseteq Nat /\ rest # {}
    OBVIOUS
  <2> HIDE DEF rest
  <2>2. QED  BY <2>1, NatLessThanWellFounded, WFMin
<1>2. \A m \in rest : ~(m < n)
  <2>1. \A m \in rest : m \in Nat /\ n \in Nat
    OBVIOUS
  <2> HIDE DEF rest
  <2>2. QED  BY <1>1, <2>1 DEF OpToRel
<1>3. n \in Nat \ T /\ n # 0 /\ n - 1 \in Nat /\ n - 1 < n /\ (n - 1) + 1 = n
  OBVIOUS
<1>4. n - 1 \in T
  BY <1>2, <1>3
<1>5. QED  BY <1>3, <1>4
-----------------------------------------------------------------------------
(* The edits between the first x lines of one text and the first y of      *)
(* another, m being the pairs of lines which may be kept, as far as f says *)
(* what they are for fewer lines.                                          *)
Edited(m, f, x, y) ==
    IF x = 0 THEN y
    ELSE IF y = 0 THEN x
    ELSE IF <<x, y>> \in m THEN f[<<x - 1, y - 1>>]
    ELSE 1 + Shorter(f[<<x - 1, y>>], f[<<x, y - 1>>])
Distances(m, s, f) ==
    /\ f \in [Nat \X Nat -> Nat]
    /\ \A x, y \in Nat : x + y <= s => f[<<x, y>>] = Edited(m, f, x, y)

AgreeTo(s, f, g) == \A u, v \in Nat : u + v <= s => f[<<u, v>>] = g[<<u, v>>]

LEMMA EditedFromFewer ==
    ASSUME NEW m, NEW s \in Nat, NEW f, NEW g, AgreeTo(s, f, g),
           NEW x \in Nat, NEW y \in Nat, x + y <= s + 1
    PROVE  Edited(m, f, x, y) = Edited(m, g, x, y)
<1>1. x # 0 /\ y # 0 =>
          /\ x - 1 \in Nat /\ y - 1 \in Nat /\ (x - 1) + (y - 1) <= s /\ (x - 1) + y <= s /\ x + (y - 1) <= s
  OBVIOUS
<1>2. x # 0 /\ y # 0 =>
          /\ f[<<x - 1, y - 1>>] = g[<<x - 1, y - 1>>]
          /\ f[<<x - 1, y>>] = g[<<x - 1, y>>]
          /\ f[<<x, y - 1>>] = g[<<x, y - 1>>]
  BY <1>1 DEF AgreeTo
<1>3. QED  BY <1>2 DEF Edited

LEMMA EditedIsNat ==
    ASSUME NEW m, NEW f \in [Nat \X Nat -> Nat], NEW x \in Nat, NEW y \in Nat
    PROVE  Edited(m, f, x, y) \in Nat
<1>1. x # 0 /\ y # 0 =>
          /\ f[<<x - 1, y - 1>>] \in Nat /\ f[<<x - 1, y>>] \in Nat /\ f[<<x, y - 1>>] \in Nat
  <2>1. x # 0 /\ y # 0 =>
            <<x - 1, y - 1>> \in Nat \X Nat /\ <<x - 1, y>> \in Nat \X Nat /\ <<x, y - 1>> \in Nat \X Nat
    OBVIOUS
  <2>2. QED  BY <2>1
<1>2. QED  BY <1>1 DEF Edited, Shorter

(* There are such distances, up to any number of lines. *)
LEMMA DistancesExist ==
    ASSUME NEW m
    PROVE  \A s \in Nat : \E f : Distances(m, s, f)
<1> DEFINE T == {s \in Nat : \E f : Distances(m, s, f)}
<1>1. 0 \in T
  <2> DEFINE f == [p \in Nat \X Nat |-> 0]
  <2>1. f \in [Nat \X Nat -> Nat]
    OBVIOUS
  <2>2. \A x, y \in Nat : x + y <= 0 => f[<<x, y>>] = Edited(m, f, x, y)
    BY DEF Edited
  <2>3. Distances(m, 0, f)
    BY <2>1, <2>2 DEF Distances
  <2>4. QED  BY <2>3
<1>2. ASSUME NEW s \in T PROVE s + 1 \in T
  <2>1. PICK f : Distances(m, s, f)
    OBVIOUS
  <2> DEFINE g == [p \in Nat \X Nat |->
                      IF p[1] + p[2] <= s THEN f[p] ELSE Edited(m, f, p[1], p[2])]
  <2>2. f \in [Nat \X Nat -> Nat] /\ s \in Nat
    BY <2>1 DEF Distances
  <2>3. ASSUME NEW p \in Nat \X Nat
        PROVE  (IF p[1] + p[2] <= s THEN f[p] ELSE Edited(m, f, p[1], p[2])) \in Nat
    <3>1. p[1] \in Nat /\ p[2] \in Nat /\ f[p] \in Nat
      BY <2>2
    <3>2. Edited(m, f, p[1], p[2]) \in Nat
      BY <2>2, <3>1, EditedIsNat
    <3>3. QED  BY <3>1, <3>2
  <2>4. g \in [Nat \X Nat -> Nat]
    BY <2>3
  <2>5. \A x, y \in Nat :
            g[<<x, y>>] = IF x + y <= s THEN f[<<x, y>>] ELSE Edited(m, f, x, y)
    OBVIOUS
  <2> HIDE DEF g
  <2>6. ASSUME NEW x \in Nat, NEW y \in Nat, x + y <= s + 1
        PROVE  g[<<x, y>>] = Edited(m, g, x, y)
    <3>0. AgreeTo(s, f, g)
      BY <2>5 DEF AgreeTo
    <3>1. Edited(m, f, x, y) = Edited(m, g, x, y)
      BY <2>2, <2>6, <3>0, EditedFromFewer
    <3>2. x + y <= s => f[<<x, y>>] = Edited(m, f, x, y)
      BY <2>1 DEF Distances
    <3>3. QED  BY <2>5, <3>1, <3>2
  <2>7. Distances(m, s + 1, g)
    BY <2>4, <2>6 DEF Distances
  <2>8. QED  BY <2>2, <2>7
<1>3. T \in SUBSET Nat
  OBVIOUS
<1> HIDE DEF T
<1>4. T = Nat
  BY <1>1, <1>2, <1>3, Counting
<1>5. QED  BY <1>4 DEF T

(* And they agree on the lines all of them are about. *)
LEMMA DistancesAgree ==
    ASSUME NEW m, NEW s \in Nat, NEW t \in Nat, s <= t,
           NEW f, NEW g, Distances(m, s, f), Distances(m, t, g)
    PROVE  \A x, y \in Nat : x + y <= s => f[<<x, y>>] = g[<<x, y>>]
<1> DEFINE Agree(n) == \A x, y \in Nat : x + y <= n /\ x + y <= s => f[<<x, y>>] = g[<<x, y>>]
<1> DEFINE T == {n \in Nat : Agree(n)}
<1>0. f \in [Nat \X Nat -> Nat] /\ g \in [Nat \X Nat -> Nat]
  BY DEF Distances
<1>1. 0 \in T
  <2> SUFFICES ASSUME NEW x \in Nat, NEW y \in Nat, x + y <= 0 PROVE f[<<x, y>>] = g[<<x, y>>]
    OBVIOUS
  <2>1. x = 0 /\ x + y <= s /\ x + y <= t
    OBVIOUS
  <2>2. QED  BY <2>1 DEF Distances, Edited
<1>2. ASSUME NEW n \in T PROVE n + 1 \in T
  <2> SUFFICES ASSUME NEW x \in Nat, NEW y \in Nat, x + y <= n + 1, x + y <= s
               PROVE  f[<<x, y>>] = g[<<x, y>>]
    OBVIOUS
  <2>1. f[<<x, y>>] = Edited(m, f, x, y) /\ g[<<x, y>>] = Edited(m, g, x, y)
    BY DEF Distances
  <2> DEFINE h == IF n + 1 <= s THEN n ELSE s - 1
  <2>2. CASE x = 0 \/ y = 0
    BY <2>1, <2>2 DEF Edited
  <2>3. CASE x # 0 /\ y # 0
    <3>1. h \in Nat /\ h <= n /\ h <= s /\ x + y <= h + 1
      BY <2>3
    <3>2. AgreeTo(h, f, g)
      <4> SUFFICES ASSUME NEW u \in Nat, NEW v \in Nat, u + v <= h PROVE f[<<u, v>>] = g[<<u, v>>]
        BY DEF AgreeTo
      <4>1. n \in Nat /\ Agree(n)
        OBVIOUS
      <4>2. u + v <= n /\ u + v <= s
        BY <3>1, <4>1
      <4> HIDE DEF h
      <4>3. QED  BY <4>1, <4>2
    <3> HIDE DEF h
    <3>3. Edited(m, f, x, y) = Edited(m, g, x, y)
      BY <3>1, <3>2, EditedFromFewer
    <3>4. QED  BY <2>1, <3>3
  <2>4. QED  BY <2>2, <2>3
<1>3. T \in SUBSET Nat
  OBVIOUS
<1> HIDE DEF T
<1>4. T = Nat
  BY <1>1, <1>2, <1>3, Counting
<1>5. s \in T
  BY <1>4
<1>6. QED  BY <1>5 DEF T
-----------------------------------------------------------------------------
(* The fewest edits which make the first y lines of the one text of the    *)
(* first x of the other, m being the pairs of lines which are the same.    *)
Table(m, s) == CHOOSE f : Distances(m, s, f)
Fewest(m, x, y) == Table(m, x + y)[<<x, y>>]

LEMMA TablesAreThere ==
    ASSUME NEW m
    PROVE  /\ \A s \in Nat : Distances(m, s, Table(m, s))
           /\ \A u, v, s \in Nat : u + v <= s => Table(m, s)[<<u, v>>] = Fewest(m, u, v)
<1>1. \A s \in Nat : Distances(m, s, Table(m, s))
  BY DistancesExist DEF Table
<1>2. \A u, v, s \in Nat : u + v <= s => Table(m, s)[<<u, v>>] = Fewest(m, u, v)
  <2> SUFFICES ASSUME NEW u \in Nat, NEW v \in Nat, NEW s \in Nat, u + v <= s
               PROVE  Table(m, s)[<<u, v>>] = Fewest(m, u, v)
    OBVIOUS
  <2>1. Distances(m, u + v, Table(m, u + v)) /\ Distances(m, s, Table(m, s))
    BY <1>1
  <2>2. \A i, j \in Nat : i + j <= u + v => Table(m, u + v)[<<i, j>>] = Table(m, s)[<<i, j>>]
    BY <2>1, DistancesAgree
  <2>3. QED  BY <2>2 DEF Fewest
<1>3. QED  BY <1>1, <1>2

LEMMA FewestIsNat ==
    ASSUME NEW m, NEW x \in Nat, NEW y \in Nat
    PROVE  Fewest(m, x, y) \in Nat
<1>1. x + y \in Nat /\ Distances(m, x + y, Table(m, x + y))
  <2>1. PICK s \in Nat : s = x + y
    OBVIOUS
  <2>2. Distances(m, s, Table(m, s))
    BY TablesAreThere
  <2>3. QED  BY <2>1, <2>2
<1>2. Table(m, x + y) \in [Nat \X Nat -> Nat]
  BY <1>1 DEF Distances
<1>3. QED  BY <1>2 DEF Fewest

LEMMA FewestIsEdited ==
    ASSUME NEW m, NEW x \in Nat, NEW y \in Nat
    PROVE  Fewest(m, x, y) = Edited(m, Table(m, x + y), x, y)
<1>1. x + y \in Nat /\ Distances(m, x + y, Table(m, x + y))
  <2>1. PICK s \in Nat : s = x + y
    OBVIOUS
  <2>2. Distances(m, s, Table(m, s))
    BY TablesAreThere
  <2>3. QED  BY <2>1, <2>2
<1>2. QED  BY <1>1 DEF Distances, Fewest

LEMMA FewestFromNone ==
    ASSUME NEW m, NEW x \in Nat
    PROVE  Fewest(m, 0, x) = x /\ Fewest(m, x, 0) = x
BY FewestIsEdited DEF Edited

LEMMA FewestIs ==
    ASSUME NEW m, NEW x \in Nat, NEW y \in Nat
    PROVE  Fewest(m, x + 1, y + 1) =
              IF <<x + 1, y + 1>> \in m THEN Fewest(m, x, y)
              ELSE 1 + Shorter(Fewest(m, x, y + 1), Fewest(m, x + 1, y))
<1>1. Fewest(m, x + 1, y + 1) = Edited(m, Table(m, (x + 1) + (y + 1)), x + 1, y + 1)
  BY FewestIsEdited
<1>2. ASSUME NEW u \in Nat, NEW v \in Nat, u + v <= (x + 1) + (y + 1)
      PROVE  Table(m, (x + 1) + (y + 1))[<<u, v>>] = Fewest(m, u, v)
  <2>1. (x + 1) + (y + 1) \in Nat
    OBVIOUS
  <2>2. QED  BY <1>2, <2>1, TablesAreThere
<1> DEFINE f == Table(m, (x + 1) + (y + 1))
<1>3. /\ f[<<x, y>>] = Fewest(m, x, y)
      /\ f[<<x, y + 1>>] = Fewest(m, x, y + 1)
      /\ f[<<x + 1, y>>] = Fewest(m, x + 1, y)
  <2>1. x + 1 \in Nat /\ y + 1 \in Nat
    OBVIOUS
  <2>2. f[<<x, y>>] = Fewest(m, x, y)
    BY <1>2
  <2>3. f[<<x, y + 1>>] = Fewest(m, x, y + 1)
    BY <1>2, <2>1
  <2>4. f[<<x + 1, y>>] = Fewest(m, x + 1, y)
    BY <1>2, <2>1
  <2>5. QED  BY <2>2, <2>3, <2>4
<1>4. x + 1 # 0 /\ y + 1 # 0 /\ (x + 1) - 1 = x /\ (y + 1) - 1 = y
  OBVIOUS
<1>5. f = Table(m, (x + 1) + (y + 1))
  OBVIOUS
<1> HIDE DEF f
<1>6. QED  BY <1>1, <1>3, <1>4, <1>5 DEF Edited

(* One more line is one edit more or one less. *)
LEMMA OneLineMore ==
    ASSUME NEW m
    PROVE  \A x, y \in Nat : /\ Fewest(m, x + 1, y) - Fewest(m, x, y) \in {1, -1}
                             /\ Fewest(m, x, y + 1) - Fewest(m, x, y) \in {1, -1}
<1> DEFINE One(x, y) == /\ Fewest(m, x + 1, y) - Fewest(m, x, y) \in {1, -1}
                        /\ Fewest(m, x, y + 1) - Fewest(m, x, y) \in {1, -1}
<1> DEFINE T == {s \in Nat : \A x, y \in Nat : x + y <= s => One(x, y)}
<1>1. 0 \in T
  <2> SUFFICES ASSUME NEW x \in Nat, NEW y \in Nat, x + y <= 0 PROVE One(x, y)
    OBVIOUS
  <2>1. x = 0 /\ y = 0 /\ x + 1 \in Nat /\ y + 1 \in Nat
    OBVIOUS
  <2>2. Fewest(m, 0, 0) = 0 /\ Fewest(m, 0 + 1, 0) = 0 + 1 /\ Fewest(m, 0, 0 + 1) = 0 + 1
    BY FewestFromNone
  <2>3. QED  BY <2>1, <2>2
<1>2. ASSUME NEW s \in T PROVE s + 1 \in T
  <2>1. s \in Nat /\ \A x, y \in Nat : x + y <= s => One(x, y)
    OBVIOUS
  <2> SUFFICES ASSUME NEW x \in Nat, NEW y \in Nat, x + y <= s + 1 PROVE One(x, y)
    OBVIOUS
  <2>2. Fewest(m, x + 1, y) - Fewest(m, x, y) \in {1, -1}
    <3>1. CASE y = 0
      <4>1. x + 1 \in Nat
        OBVIOUS
      <4>2. Fewest(m, x + 1, 0) = x + 1 /\ Fewest(m, x, 0) = x
        BY <4>1, FewestIs, FewestIsNat, FewestFromNone
      <4>3. QED  BY <3>1, <4>2
    <3>2. CASE y # 0
      <4>1. PICK z \in Nat : y = z + 1
        <5>1. y - 1 \in Nat /\ y = (y - 1) + 1
          BY <3>2
        <5>2. QED  BY <5>1
      <4>2. One(x, z)
        <5>1. x + z <= s
          BY <2>1, <4>1
        <5>2. QED  BY <2>1, <5>1
      <4>3. /\ Fewest(m, x + 1, z + 1) =
                 IF <<x + 1, z + 1>> \in m THEN Fewest(m, x, z)
                 ELSE 1 + Shorter(Fewest(m, x, z + 1), Fewest(m, x + 1, z))
            /\ Fewest(m, x, z) \in Nat /\ Fewest(m, x, z + 1) \in Nat /\ Fewest(m, x + 1, z) \in Nat
        BY FewestIs, FewestIsNat, FewestFromNone
      <4>4. Fewest(m, x + 1, z + 1) - Fewest(m, x, z + 1) \in {1, -1}
        BY <4>2, <4>3 DEF Shorter
      <4>5. QED  BY <4>1, <4>4
    <3>3. QED  BY <3>1, <3>2
  <2>3. Fewest(m, x, y + 1) - Fewest(m, x, y) \in {1, -1}
    <3>1. CASE x = 0
      <4>1. y + 1 \in Nat
        OBVIOUS
      <4>2. Fewest(m, 0, y + 1) = y + 1 /\ Fewest(m, 0, y) = y
        BY <4>1, FewestIs, FewestIsNat, FewestFromNone
      <4>3. QED  BY <3>1, <4>2
    <3>2. CASE x # 0
      <4>1. PICK z \in Nat : x = z + 1
        <5>1. x - 1 \in Nat /\ x = (x - 1) + 1
          BY <3>2
        <5>2. QED  BY <5>1
      <4>2. One(z, y)
        <5>1. z + y <= s
          BY <2>1, <4>1
        <5>2. QED  BY <2>1, <5>1
      <4>3. /\ Fewest(m, z + 1, y + 1) =
                 IF <<z + 1, y + 1>> \in m THEN Fewest(m, z, y)
                 ELSE 1 + Shorter(Fewest(m, z, y + 1), Fewest(m, z + 1, y))
            /\ Fewest(m, z, y) \in Nat /\ Fewest(m, z, y + 1) \in Nat /\ Fewest(m, z + 1, y) \in Nat
        BY FewestIs, FewestIsNat, FewestFromNone
      <4>4. Fewest(m, z + 1, y + 1) - Fewest(m, z + 1, y) \in {1, -1}
        BY <4>2, <4>3 DEF Shorter
      <4>5. QED  BY <4>1, <4>4
    <3>3. QED  BY <3>1, <3>2
  <2>4. QED  BY <2>2, <2>3
<1>3. T \in SUBSET Nat
  OBVIOUS
<1> HIDE DEF T
<1>4. T = Nat
  BY <1>1, <1>2, <1>3, Counting
<1> SUFFICES ASSUME NEW x \in Nat, NEW y \in Nat PROVE One(x, y)
  OBVIOUS
<1>5. x + y \in T /\ x + y <= x + y
  BY <1>4
<1>6. QED  BY <1>5 DEF T

(* A line more of both is no edit more, or two. *)
LEMMA OneMoreOfBoth ==
    ASSUME NEW m, NEW x \in Nat, NEW y \in Nat
    PROVE  /\ Fewest(m, x + 1, y + 1) - Fewest(m, x, y) \in {0, 2}
           /\ <<x + 1, y + 1>> \notin m => \/ Fewest(m, x + 1, y + 1) = 1 + Fewest(m, x, y + 1)
                                           \/ Fewest(m, x + 1, y + 1) = 1 + Fewest(m, x + 1, y)
<1>1. /\ Fewest(m, x + 1, y) - Fewest(m, x, y) \in {1, -1}
      /\ Fewest(m, x, y + 1) - Fewest(m, x, y) \in {1, -1}
  BY OneLineMore
<1>2. /\ Fewest(m, x + 1, y + 1) =
            IF <<x + 1, y + 1>> \in m THEN Fewest(m, x, y)
            ELSE 1 + Shorter(Fewest(m, x, y + 1), Fewest(m, x + 1, y))
      /\ Fewest(m, x, y) \in Nat /\ Fewest(m, x, y + 1) \in Nat /\ Fewest(m, x + 1, y) \in Nat
  BY FewestIs, FewestIsNat, FewestFromNone
<1>3. QED  BY <1>1, <1>2 DEF Shorter

LEMMA MoreOfBoth ==
    ASSUME NEW m, NEW x \in Nat, NEW y \in Nat
    PROVE  \A n \in Nat : Fewest(m, x, y) <= Fewest(m, x + n, y + n)
<1> DEFINE T == {n \in Nat : Fewest(m, x, y) <= Fewest(m, x + n, y + n)}
<1>1. 0 \in T
  BY FewestIs, FewestIsNat, FewestFromNone
<1>2. ASSUME NEW n \in T PROVE n + 1 \in T
  <2>1. n \in Nat /\ x + n \in Nat /\ y + n \in Nat /\ x + (n + 1) = (x + n) + 1 /\ y + (n + 1) = (y + n) + 1
    OBVIOUS
  <2>2. Fewest(m, (x + n) + 1, (y + n) + 1) - Fewest(m, x + n, y + n) \in {0, 2}
    BY <2>1, OneMoreOfBoth
  <2>3. /\ Fewest(m, x, y) \in Nat /\ Fewest(m, x + n, y + n) \in Nat
        /\ Fewest(m, (x + n) + 1, (y + n) + 1) \in Nat
    BY <2>1, FewestIs, FewestIsNat, FewestFromNone
  <2>4. Fewest(m, x, y) <= Fewest(m, x + (n + 1), y + (n + 1))
    BY <2>1, <2>2, <2>3
  <2>5. QED  BY <2>1, <2>4
<1>3. T \in SUBSET Nat
  OBVIOUS
<1> HIDE DEF T
<1>4. T = Nat
  BY <1>1, <1>2, <1>3, Counting
<1>5. QED  BY <1>4 DEF T

(* No fewer edits than there are lines more of one than of the other, no   *)
(* more than lines, and what are not edits are pairs.                      *)
LEMMA FewestBounds ==
    ASSUME NEW m, NEW x \in Nat, NEW y \in Nat
    PROVE  /\ Fewest(m, x, y) \in Nat
           /\ x - y <= Fewest(m, x, y) /\ y - x <= Fewest(m, x, y) /\ Fewest(m, x, y) <= x + y
           /\ \E q \in Int : Fewest(m, x, y) = x + y - 2 * q
<1> DEFINE T == {n \in Nat : /\ x - n <= Fewest(m, x, n) /\ Fewest(m, x, n) <= x + n
                             /\ \E q \in Int : Fewest(m, x, n) = x + n - 2 * q}
<1> DEFINE U == {n \in Nat : y - n <= Fewest(m, n, y)}
<1>1. 0 \in T /\ 0 \in U
  <2>1. Fewest(m, x, 0) = x /\ Fewest(m, 0, y) = y
    BY FewestIs, FewestIsNat, FewestFromNone
  <2>2. x = x + 0 - 2 * 0
    OBVIOUS
  <2>3. QED  BY <2>1, <2>2
<1>2. ASSUME NEW n \in T PROVE n + 1 \in T
  <2>1. Fewest(m, x, n + 1) - Fewest(m, x, n) \in {1, -1}
    BY OneLineMore
  <2>2. Fewest(m, x, n + 1) \in Nat /\ Fewest(m, x, n) \in Nat
    BY FewestIs, FewestIsNat, FewestFromNone
  <2>3. PICK q \in Int : Fewest(m, x, n) = x + n - 2 * q
    OBVIOUS
  <2>4. \/ Fewest(m, x, n + 1) = x + (n + 1) - 2 * q
        \/ Fewest(m, x, n + 1) = x + (n + 1) - 2 * (q + 1)
    BY <2>1, <2>2, <2>3
  <2>5. \E r \in Int : Fewest(m, x, n + 1) = x + (n + 1) - 2 * r
    <3>1. CASE Fewest(m, x, n + 1) = x + (n + 1) - 2 * q
      BY <3>1
    <3>2. CASE Fewest(m, x, n + 1) = x + (n + 1) - 2 * (q + 1)
      <4>1. q + 1 \in Int
        OBVIOUS
      <4>2. QED  BY <3>2, <4>1
    <3>3. QED  BY <2>4, <3>1, <3>2
  <2>6. x - (n + 1) <= Fewest(m, x, n + 1) /\ Fewest(m, x, n + 1) <= x + (n + 1)
    BY <2>1, <2>2
  <2>7. QED  BY <2>5, <2>6
<1>3. ASSUME NEW n \in U PROVE n + 1 \in U
  <2>1. Fewest(m, n + 1, y) - Fewest(m, n, y) \in {1, -1}
    BY OneLineMore
  <2>2. Fewest(m, n + 1, y) \in Nat /\ Fewest(m, n, y) \in Nat
    BY FewestIs, FewestIsNat, FewestFromNone
  <2>3. QED  BY <2>1, <2>2
<1>4. T \in SUBSET Nat /\ U \in SUBSET Nat
  OBVIOUS
<1> HIDE DEF T, U
<1>5. T = Nat /\ U = Nat
  BY <1>1, <1>2, <1>3, <1>4, Counting
<1>6. y \in T /\ x \in U
  BY <1>5
<1>7. QED  BY <1>6, FewestIs, FewestIsNat, FewestFromNone DEF T, U

(* Lines past those which may be kept are edits. *)
LEMMA PastTheEnd ==
    ASSUME NEW na \in Nat, NEW nb \in Nat, NEW m \in SUBSET ((1..na) \X (1..nb))
    PROVE  \A i, j \in Nat : Fewest(m, na + i, nb + j) = Fewest(m, na, nb) + i + j
<1>1. ASSUME NEW x \in Nat, na <= x
      PROVE  \A y \in Nat : Fewest(m, x + 1, y) = Fewest(m, x, y) + 1
  <2> DEFINE T == {y \in Nat : Fewest(m, x + 1, y) = Fewest(m, x, y) + 1}
  <2>1. 0 \in T
    <3>1. Fewest(m, x + 1, 0) = x + 1 /\ Fewest(m, x, 0) = x
      BY FewestIs, FewestIsNat, FewestFromNone
    <3>2. QED  BY <3>1
  <2>2. ASSUME NEW y \in T PROVE y + 1 \in T
    <3>1. <<x + 1, y + 1>> \notin m
      BY <1>1
    <3>2. /\ Fewest(m, x + 1, y + 1) = 1 + Shorter(Fewest(m, x, y + 1), Fewest(m, x + 1, y))
          /\ Fewest(m, x, y) \in Nat /\ Fewest(m, x, y + 1) \in Nat /\ Fewest(m, x + 1, y) \in Nat
      BY <3>1, FewestIs, FewestIsNat, FewestFromNone
    <3>3. Fewest(m, x, y + 1) - Fewest(m, x, y) \in {1, -1}
      BY OneLineMore
    <3>4. QED  BY <3>2, <3>3 DEF Shorter
  <2>3. T \in SUBSET Nat
    OBVIOUS
  <2> HIDE DEF T
  <2>4. T = Nat
    BY <2>1, <2>2, <2>3, Counting
  <2>5. QED  BY <2>4 DEF T
<1>2. ASSUME NEW y \in Nat, nb <= y
      PROVE  \A x \in Nat : Fewest(m, x, y + 1) = Fewest(m, x, y) + 1
  <2> DEFINE T == {x \in Nat : Fewest(m, x, y + 1) = Fewest(m, x, y) + 1}
  <2>1. 0 \in T
    <3>1. Fewest(m, 0, y + 1) = y + 1 /\ Fewest(m, 0, y) = y
      BY FewestIs, FewestIsNat, FewestFromNone
    <3>2. QED  BY <3>1
  <2>2. ASSUME NEW x \in T PROVE x + 1 \in T
    <3>1. <<x + 1, y + 1>> \notin m
      BY <1>2
    <3>2. /\ Fewest(m, x + 1, y + 1) = 1 + Shorter(Fewest(m, x, y + 1), Fewest(m, x + 1, y))
          /\ Fewest(m, x, y) \in Nat /\ Fewest(m, x, y + 1) \in Nat /\ Fewest(m, x + 1, y) \in Nat
      BY <3>1, FewestIs, FewestIsNat, FewestFromNone
    <3>3. Fewest(m, x + 1, y) - Fewest(m, x, y) \in {1, -1}
      BY OneLineMore
    <3>4. QED  BY <3>2, <3>3 DEF Shorter
  <2>3. T \in SUBSET Nat
    OBVIOUS
  <2> HIDE DEF T
  <2>4. T = Nat
    BY <2>1, <2>2, <2>3, Counting
  <2>5. QED  BY <2>4 DEF T
<1> DEFINE T == {i \in Nat : Fewest(m, na + i, nb) = Fewest(m, na, nb) + i}
<1> DEFINE U(i) == {j \in Nat : Fewest(m, na + i, nb + j) = Fewest(m, na + i, nb) + j}
<1>3. 0 \in T
  BY FewestIs, FewestIsNat, FewestFromNone
<1>4. ASSUME NEW i \in T PROVE i + 1 \in T
  <2>1. Fewest(m, (na + i) + 1, nb) = Fewest(m, na + i, nb) + 1
    BY <1>1
  <2>2. na + (i + 1) = (na + i) + 1
    OBVIOUS
  <2>3. Fewest(m, na, nb) \in Nat
    BY FewestIs, FewestIsNat, FewestFromNone
  <2>4. QED  BY <2>1, <2>2, <2>3
<1>5. T \in SUBSET Nat
  OBVIOUS
<1> HIDE DEF T
<1>6. T = Nat
  BY <1>3, <1>4, <1>5, Counting
<1> SUFFICES ASSUME NEW i \in Nat, NEW j \in Nat
             PROVE  Fewest(m, na + i, nb + j) = Fewest(m, na, nb) + i + j
  OBVIOUS
<1>7. 0 \in U(i)
  BY FewestIs, FewestIsNat, FewestFromNone
<1>8. ASSUME NEW n \in U(i) PROVE n + 1 \in U(i)
  <2>1. Fewest(m, na + i, (nb + n) + 1) = Fewest(m, na + i, nb + n) + 1
    BY <1>2
  <2>2. nb + (n + 1) = (nb + n) + 1
    OBVIOUS
  <2>3. Fewest(m, na + i, nb) \in Nat
    BY FewestIs, FewestIsNat, FewestFromNone
  <2>4. QED  BY <2>1, <2>2, <2>3
<1>9. U(i) \in SUBSET Nat
  OBVIOUS
<1> HIDE DEF U
<1>10. U(i) = Nat
  BY <1>7, <1>8, <1>9, Counting
<1>11. i \in T /\ j \in U(i)
  BY <1>6, <1>10
<1>12. Fewest(m, na, nb) \in Nat
  BY FewestIs, FewestIsNat, FewestFromNone
<1>13. QED  BY <1>11, <1>12 DEF T, U

(* What is the same before and after takes no edit. *)
EndsMatch(m, k, na, nb, p, s) ==
    /\ \A x \in 1..na, y \in 1..nb : <<x, y>> \in k <=> <<p + x, p + y>> \in m
    /\ \A i \in 1..p : <<i, i>> \in m
    /\ \A i \in 1..s : <<p + na + i, p + nb + i>> \in m

LEMMA SameAtTheEnds ==
    ASSUME NEW m, NEW k, NEW na \in Nat, NEW nb \in Nat, NEW p \in Nat, NEW s \in Nat,
           EndsMatch(m, k, na, nb, p, s)
    PROVE  Fewest(m, p + na + s, p + nb + s) = Fewest(k, na, nb)
<1> USE DEF EndsMatch
<1>1. Fewest(m, p, p) = 0
  <2> DEFINE T == {i \in Nat : i <= p => Fewest(m, i, i) = 0}
  <2>1. 0 \in T
    BY FewestFromNone
  <2>2. ASSUME NEW i \in T PROVE i + 1 \in T
    <3>1. i + 1 <= p => <<i + 1, i + 1>> \in m
      OBVIOUS
    <3>2. i + 1 <= p => Fewest(m, i + 1, i + 1) = Fewest(m, i, i)
      BY <3>1, FewestIs
    <3>3. QED  BY <3>2
  <2>3. T \in SUBSET Nat
    OBVIOUS
  <2> HIDE DEF T
  <2>4. T = Nat
    BY <2>1, <2>2, <2>3, Counting
  <2>5. QED  BY <2>4 DEF T
<1>2. \A n \in Nat : Fewest(m, p, p + n) = n
  <2> DEFINE T == {n \in Nat : Fewest(m, p, p + n) = n}
  <2>1. 0 \in T
    BY <1>1
  <2>2. ASSUME NEW n \in T PROVE n + 1 \in T
    <3>1. p + n \in Nat /\ (p + n) + 1 \in Nat /\ p + (n + 1) = (p + n) + 1
      OBVIOUS
    <3>2. Fewest(m, p, (p + n) + 1) - Fewest(m, p, p + n) \in {1, -1}
      BY <3>1, OneLineMore
    <3>3. Fewest(m, p, (p + n) + 1) \in Nat /\ ((p + n) + 1) - p <= Fewest(m, p, (p + n) + 1)
      BY <3>1, FewestBounds
    <3>4. Fewest(m, p, p + (n + 1)) = n + 1
      BY <3>1, <3>2, <3>3
    <3>5. QED  BY <3>4
  <2>3. T \in SUBSET Nat
    OBVIOUS
  <2> HIDE DEF T
  <2>4. T = Nat
    BY <2>1, <2>2, <2>3, Counting
  <2>5. QED  BY <2>4 DEF T
<1>3. \A n \in Nat : Fewest(m, p + n, p) = n
  <2> DEFINE T == {n \in Nat : Fewest(m, p + n, p) = n}
  <2>1. 0 \in T
    BY <1>1
  <2>2. ASSUME NEW n \in T PROVE n + 1 \in T
    <3>1. p + n \in Nat /\ (p + n) + 1 \in Nat /\ p + (n + 1) = (p + n) + 1
      OBVIOUS
    <3>2. Fewest(m, (p + n) + 1, p) - Fewest(m, p + n, p) \in {1, -1}
      BY <3>1, OneLineMore
    <3>3. Fewest(m, (p + n) + 1, p) \in Nat /\ ((p + n) + 1) - p <= Fewest(m, (p + n) + 1, p)
      BY <3>1, FewestBounds
    <3>4. Fewest(m, p + (n + 1), p) = n + 1
      BY <3>1, <3>2, <3>3
    <3>5. QED  BY <3>4
  <2>3. T \in SUBSET Nat
    OBVIOUS
  <2> HIDE DEF T
  <2>4. T = Nat
    BY <2>1, <2>2, <2>3, Counting
  <2>5. QED  BY <2>4 DEF T
<1> DEFINE Alike(n) == \A x \in 0..na, y \in 0..nb :
                          x + y <= n => Fewest(m, p + x, p + y) = Fewest(k, x, y)
<1>4. \A n \in Nat : Alike(n)
  <2> DEFINE T == {n \in Nat : Alike(n)}
  <2>1. 0 \in T
    <3> SUFFICES ASSUME NEW x \in 0..na, NEW y \in 0..nb, x + y <= 0
                 PROVE  Fewest(m, p + x, p + y) = Fewest(k, x, y)
      OBVIOUS
    <3>1. x = 0 /\ y = 0 /\ p + 0 = p
      OBVIOUS
    <3>2. Fewest(k, 0, 0) = 0
      BY FewestFromNone
    <3>3. QED  BY <1>1, <3>1, <3>2
  <2>2. ASSUME NEW n \in T PROVE n + 1 \in T
    <3>1. n \in Nat /\ Alike(n)
      OBVIOUS
    <3> SUFFICES ASSUME NEW x \in 0..na, NEW y \in 0..nb, x + y <= n + 1
                 PROVE  Fewest(m, p + x, p + y) = Fewest(k, x, y)
      OBVIOUS
    <3>2. CASE x = 0
      <4>1. Fewest(k, 0, y) = y /\ y \in Nat
        BY FewestFromNone
      <4>2. Fewest(m, p, p + y) = y /\ p + 0 = p
        BY <1>2, <4>1
      <4>3. QED  BY <3>2, <4>1, <4>2
    <3>3. CASE y = 0
      <4>1. Fewest(k, x, 0) = x /\ x \in Nat
        BY FewestFromNone
      <4>2. Fewest(m, p + x, p) = x /\ p + 0 = p
        BY <1>3, <4>1
      <4>3. QED  BY <3>3, <4>1, <4>2
    <3>4. CASE x # 0 /\ y # 0
      <4>1. PICK u \in Nat, v \in Nat : x = u + 1 /\ y = v + 1
        <5>1. x - 1 \in Nat /\ y - 1 \in Nat /\ x = (x - 1) + 1 /\ y = (y - 1) + 1
          BY <3>4
        <5>2. QED  BY <5>1
      <4>2. /\ u \in 0..na /\ v \in 0..nb /\ u + v <= n
            /\ u + 1 \in 0..na /\ v + 1 \in 0..nb /\ u + (v + 1) <= n /\ (u + 1) + v <= n
            /\ p + u \in Nat /\ p + v \in Nat
            /\ p + (u + 1) = (p + u) + 1 /\ p + (v + 1) = (p + v) + 1
            /\ u + 1 \in 1..na /\ v + 1 \in 1..nb
        BY <3>1, <4>1
      <4>3. Fewest(m, p + u, p + v) = Fewest(k, u, v)
        BY <3>1, <4>2
      <4>4. Fewest(m, p + u, (p + v) + 1) = Fewest(k, u, v + 1)
        <5>1. Fewest(m, p + u, p + (v + 1)) = Fewest(k, u, v + 1)
          BY <3>1, <4>2
        <5>2. QED  BY <4>2, <5>1
      <4>5. Fewest(m, (p + u) + 1, p + v) = Fewest(k, u + 1, v)
        <5>1. Fewest(m, p + (u + 1), p + v) = Fewest(k, u + 1, v)
          BY <3>1, <4>2
        <5>2. QED  BY <4>2, <5>1
      <4>6. <<u + 1, v + 1>> \in k <=> <<(p + u) + 1, (p + v) + 1>> \in m
        <5>1. <<u + 1, v + 1>> \in k <=> <<p + (u + 1), p + (v + 1)>> \in m
          BY <4>2
        <5>2. QED  BY <4>2, <5>1
      <4>7. Fewest(m, (p + u) + 1, (p + v) + 1) = Fewest(k, u + 1, v + 1)
        <5>1. Fewest(m, (p + u) + 1, (p + v) + 1) =
                 IF <<(p + u) + 1, (p + v) + 1>> \in m THEN Fewest(m, p + u, p + v)
                 ELSE 1 + Shorter(Fewest(m, p + u, (p + v) + 1), Fewest(m, (p + u) + 1, p + v))
          <6>1. PICK g \in Nat, h \in Nat : g = p + u /\ h = p + v
            BY <4>2
          <6>2. Fewest(m, g + 1, h + 1) =
                   IF <<g + 1, h + 1>> \in m THEN Fewest(m, g, h)
                   ELSE 1 + Shorter(Fewest(m, g, h + 1), Fewest(m, g + 1, h))
            BY FewestIs
          <6>3. QED  BY <6>1, <6>2
        <5>2. Fewest(k, u + 1, v + 1) =
                 IF <<u + 1, v + 1>> \in k THEN Fewest(k, u, v)
                 ELSE 1 + Shorter(Fewest(k, u, v + 1), Fewest(k, u + 1, v))
          BY FewestIs
        <5>3. QED  BY <4>3, <4>4, <4>5, <4>6, <5>1, <5>2
      <4>8. QED  BY <4>1, <4>2, <4>7
    <3>5. QED  BY <3>2, <3>3, <3>4
  <2>3. T \in SUBSET Nat
    OBVIOUS
  <2> HIDE DEF T
  <2>4. T = Nat
    BY <2>1, <2>2, <2>3, Counting
  <2>5. QED  BY <2>4 DEF T
<1>5. Fewest(m, p + na, p + nb) = Fewest(k, na, nb)
  <2>1. na + nb \in Nat /\ na \in 0..na /\ nb \in 0..nb /\ na + nb <= na + nb
    OBVIOUS
  <2>2. Alike(na + nb)
    BY <1>4, <2>1
  <2>3. QED  BY <2>1, <2>2
<1>6. Fewest(m, p + na + s, p + nb + s) = Fewest(m, p + na, p + nb)
  <2> DEFINE T == {i \in Nat : i <= s => Fewest(m, p + na + i, p + nb + i) = Fewest(m, p + na, p + nb)}
  <2>1. 0 \in T
    OBVIOUS
  <2>2. ASSUME NEW i \in T PROVE i + 1 \in T
    <3>1. /\ p + na + i \in Nat /\ p + nb + i \in Nat
          /\ p + na + (i + 1) = (p + na + i) + 1 /\ p + nb + (i + 1) = (p + nb + i) + 1
      OBVIOUS
    <3>2. i + 1 <= s => <<(p + na + i) + 1, (p + nb + i) + 1>> \in m
      <4>1. i + 1 <= s => <<p + na + (i + 1), p + nb + (i + 1)>> \in m
        <5>1. i + 1 <= s => i + 1 \in 1..s
          OBVIOUS
        <5> HIDE DEF T, Alike
        <5>2. QED  BY <5>1
      <4>2. QED  BY <3>1, <4>1
    <3>3. i + 1 <= s => Fewest(m, (p + na + i) + 1, (p + nb + i) + 1) = Fewest(m, p + na + i, p + nb + i)
      BY <3>1, <3>2, FewestIs
    <3>4. i + 1 <= s => Fewest(m, p + na + (i + 1), p + nb + (i + 1)) = Fewest(m, p + na, p + nb)
      BY <3>1, <3>3
    <3>5. QED  BY <3>4
  <2>3. T \in SUBSET Nat
    OBVIOUS
  <2> HIDE DEF T
  <2>4. T = Nat
    BY <2>1, <2>2, <2>3, Counting
  <2>5. s \in T /\ s <= s
    BY <2>4
  <2>6. QED  BY <2>5 DEF T
<1>7. QED  BY <1>5, <1>6
-----------------------------------------------------------------------------
(* The pairs of lines which are the same. *)
Matches(a, b) == {pair \in (1..Len(a)) \X (1..Len(b)) : a[pair[1]] = b[pair[2]]}

(* Distance counts them so. *)
LEMMA DistanceIs ==
    ASSUME NEW S, NEW a \in Seq(S), NEW b \in Seq(S)
    PROVE  Distance(a, b) = Fewest(Matches(a, b), Len(a), Len(b))
<1> DEFINE m == Matches(a, b)
           Grid == (0..Len(a)) \X (0..Len(b))
           At(d, i, j) == IF i = 0 THEN j ELSE IF j = 0 THEN i
                          ELSE IF a[i] = b[j] THEN d[<<i - 1, j - 1>>]
                          ELSE 1 + Shorter(d[<<i - 1, j>>], d[<<i, j - 1>>])
           Is(d) == d = [at \in Grid |-> At(d, at[1], at[2])]
           e == [at \in Grid |-> Fewest(m, at[1], at[2])]
<1>0. Len(a) \in Nat /\ Len(b) \in Nat
  OBVIOUS
<1>1. ASSUME NEW i \in 0..Len(a), NEW j \in 0..Len(b)
      PROVE  e[<<i, j>>] = Fewest(m, i, j)
  OBVIOUS
<1>2. ASSUME NEW i \in 0..Len(a), NEW j \in 0..Len(b)
      PROVE  Fewest(m, i, j) = At(e, i, j)
  <2>1. CASE i = 0 \/ j = 0
    <3>1. i \in Nat /\ j \in Nat
      BY <1>0
    <3>2. QED  BY <2>1, <3>1, FewestFromNone
  <2>2. CASE i # 0 /\ j # 0
    <3>1. PICK u \in Nat, v \in Nat : i = u + 1 /\ j = v + 1
      <4>1. i - 1 \in Nat /\ j - 1 \in Nat /\ i = (i - 1) + 1 /\ j = (j - 1) + 1
        BY <1>0, <2>2
      <4>2. QED  BY <4>1
    <3>2. /\ i - 1 = u /\ j - 1 = v /\ u \in 0..Len(a) /\ v \in 0..Len(b)
          /\ i \in 1..Len(a) /\ j \in 1..Len(b)
      BY <1>0, <3>1
    <3>3. e[<<u, v>>] = Fewest(m, u, v) /\ e[<<u, j>>] = Fewest(m, u, j) /\ e[<<i, v>>] = Fewest(m, i, v)
      BY <1>1, <3>2
    <3>4. <<i, j>> \in m <=> a[i] = b[j]
      BY <3>2 DEF Matches
    <3>5. Fewest(m, i, j) = IF <<i, j>> \in m THEN Fewest(m, u, v)
                           ELSE 1 + Shorter(Fewest(m, u, j), Fewest(m, i, v))
      BY <3>1, FewestIs
    <3> HIDE DEF e, m
    <3>6. QED  BY <2>2, <3>2, <3>3, <3>4, <3>5
  <2>3. QED  BY <2>1, <2>2
<1>3. Is(e)
  <2>1. \A at \in Grid : Fewest(m, at[1], at[2]) = At(e, at[1], at[2])
    <3> SUFFICES ASSUME NEW at \in Grid PROVE Fewest(m, at[1], at[2]) = At(e, at[1], at[2])
      OBVIOUS
    <3>1. at[1] \in 0..Len(a) /\ at[2] \in 0..Len(b)
      OBVIOUS
    <3> HIDE DEF e, At
    <3>2. QED  BY <1>2, <3>1
  <2> HIDE DEF At
  <2>2. e = [at \in Grid |-> Fewest(m, at[1], at[2])]
    OBVIOUS
  <2> HIDE DEF e
  <2>3. QED  BY <2>1, <2>2
<1>4. ASSUME NEW d, Is(d)
      PROVE  \A n \in Nat : \A i \in 0..Len(a), j \in 0..Len(b) :
                 i + j <= n => d[<<i, j>>] = e[<<i, j>>]
  <2> DEFINE Alike(n) == \A i \in 0..Len(a), j \in 0..Len(b) : i + j <= n => d[<<i, j>>] = e[<<i, j>>]
  <2> DEFINE T == {n \in Nat : Alike(n)}
  <2>0. ASSUME NEW i \in 0..Len(a), NEW j \in 0..Len(b)
        PROVE  d[<<i, j>>] = At(d, i, j) /\ e[<<i, j>>] = At(e, i, j)
    <3>1. <<i, j>> \in Grid /\ <<i, j>>[1] = i /\ <<i, j>>[2] = j
      OBVIOUS
    <3> HIDE DEF At, e, Grid
    <3>2. QED  BY <1>3, <1>4, <3>1
  <2>1. 0 \in T
    <3> SUFFICES ASSUME NEW i \in 0..Len(a), NEW j \in 0..Len(b), i + j <= 0
                 PROVE  d[<<i, j>>] = e[<<i, j>>]
      OBVIOUS
    <3>1. i = 0
      BY <1>0
    <3>2. At(d, i, j) = j /\ At(e, i, j) = j
      BY <3>1
    <3> HIDE DEF e, At
    <3>3. QED  BY <2>0, <3>2
  <2>2. ASSUME NEW n \in T PROVE n + 1 \in T
    <3>1. n \in Nat /\ Alike(n)
      OBVIOUS
    <3> SUFFICES Alike(n + 1)
      <4>1. n + 1 \in Nat
        OBVIOUS
      <4> HIDE DEF Alike
      <4>2. QED  BY <4>1
    <3> HIDE DEF e
    <3> SUFFICES ASSUME NEW i \in 0..Len(a), NEW j \in 0..Len(b), i + j <= n + 1
                 PROVE  d[<<i, j>>] = e[<<i, j>>]
      OBVIOUS
    <3>2. i # 0 /\ j # 0 =>
              /\ d[<<i - 1, j - 1>>] = e[<<i - 1, j - 1>>]
              /\ d[<<i - 1, j>>] = e[<<i - 1, j>>]
              /\ d[<<i, j - 1>>] = e[<<i, j - 1>>]
      <4>1. i # 0 /\ j # 0 =>
                /\ i - 1 \in 0..Len(a) /\ j - 1 \in 0..Len(b)
                /\ (i - 1) + (j - 1) <= n /\ (i - 1) + j <= n /\ i + (j - 1) <= n
        BY <1>0, <3>1
      <4> HIDE DEF e
      <4>2. QED  BY <3>1, <4>1
    <3> HIDE DEF e
    <3>3. At(d, i, j) = At(e, i, j)
      BY <3>2
    <3> HIDE DEF At
    <3>4. QED  BY <2>0, <3>3
  <2>3. T \in SUBSET Nat
    OBVIOUS
  <2> HIDE DEF T
  <2>4. T = Nat
    BY <2>1, <2>2, <2>3, Counting
  <2>5. QED  BY <2>4 DEF T
<1> DEFINE d0 == CHOOSE d : Is(d)
<1>5. Is(d0)
  <2> HIDE DEF Is, e
  <2>1. QED  BY <1>3
<1>6. Distance(a, b) = d0[<<Len(a), Len(b)>>]
  BY DEF Distance
<1>7. d0[<<Len(a), Len(b)>>] = e[<<Len(a), Len(b)>>]
  <2>1. Len(a) \in 0..Len(a) /\ Len(b) \in 0..Len(b) /\ Len(a) + Len(b) \in Nat
    BY <1>0
  <2> HIDE DEF d0, e, Is
  <2>2. \A n \in Nat : \A i \in 0..Len(a), j \in 0..Len(b) :
            i + j <= n => d0[<<i, j>>] = e[<<i, j>>]
    BY <1>4, <1>5
  <2>3. PICK n \in Nat : n = Len(a) + Len(b)
    BY <2>1
  <2>4. Len(a) + Len(b) <= n
    BY <2>1, <2>3
  <2>5. QED  BY <2>1, <2>2, <2>4
<1>8. e[<<Len(a), Len(b)>>] = Fewest(m, Len(a), Len(b))
  BY <1>0, <1>1
<1>9. QED  BY <1>6, <1>7, <1>8

-----------------------------------------------------------------------------
(* The lines of a script, an edit at a time. *)
TextedBy(s, ops, k, f) ==
    /\ f = [n \in 0..k |-> f[n]]
    /\ f[0] = <<>>
    /\ \A n \in 1..k : f[n] = f[n - 1] \o EditRead(s[n], ops)

LEMMA TextsExist ==
    ASSUME NEW s, NEW ops
    PROVE  \A k \in Nat : \E f : TextedBy(s, ops, k, f)
<1> DEFINE T == {k \in Nat : \E f : TextedBy(s, ops, k, f)}
<1>1. 0 \in T
  <2> DEFINE f == [n \in 0..0 |-> <<>>]
  <2>1. f = [n \in 0..0 |-> f[n]] /\ f[0] = <<>> /\ 1..0 = {}
    OBVIOUS
  <2>2. TextedBy(s, ops, 0, f)
    BY <2>1 DEF TextedBy
  <2>3. QED  BY <2>2
<1>2. ASSUME NEW k \in T PROVE k + 1 \in T
  <2>1. PICK f : TextedBy(s, ops, k, f)
    OBVIOUS
  <2> DEFINE last == f[k] \o EditRead(s[k + 1], ops)
             g == [n \in 0..(k + 1) |-> IF n = k + 1 THEN last ELSE f[n]]
  <2>2. k \in Nat
    OBVIOUS
  <2>3. g = [n \in 0..(k + 1) |-> g[n]]
    OBVIOUS
  <2>4. g[k + 1] = last /\ \A n \in 0..k : g[n] = f[n]
    BY <2>2
  <2> HIDE DEF g
  <2>5. g[0] = <<>>
    BY <2>1, <2>2, <2>4 DEF TextedBy
  <2>6. ASSUME NEW n \in 1..(k + 1)
        PROVE  g[n] = g[n - 1] \o EditRead(s[n], ops)
    <3>1. n - 1 \in 0..k
      BY <2>2
    <3>2. CASE n = k + 1
      <4>1. n - 1 = k
        BY <2>2, <3>2
      <4>2. QED  BY <2>4, <3>1, <3>2, <4>1
    <3>3. CASE n # k + 1
      <4>1. n \in 1..k /\ n \in 0..k
        BY <2>2, <3>3
      <4>2. f[n] = f[n - 1] \o EditRead(s[n], ops)
        BY <2>1, <4>1 DEF TextedBy
      <4>3. g[n] = f[n] /\ g[n - 1] = f[n - 1]
        BY <2>4, <3>1, <4>1
      <4>4. QED  BY <4>2, <4>3
    <3>4. QED  BY <3>2, <3>3
  <2>7. TextedBy(s, ops, k + 1, g)
    BY <2>3, <2>5, <2>6 DEF TextedBy
  <2>8. QED  BY <2>2, <2>7
<1>3. T \in SUBSET Nat
  OBVIOUS
<1> HIDE DEF T
<1>4. T = Nat
  BY <1>1, <1>2, <1>3, Counting
<1>5. QED  BY <1>4 DEF T

LEMMA TextedIs ==
    ASSUME NEW S, NEW s \in Seq(S), NEW ops
    PROVE  \E f : TextedBy(s, ops, Len(s), f) /\ Texted(s, ops) = f[Len(s)]
<1> DEFINE Is(f) == f = [n \in 0..Len(s) |->
                           IF n = 0 THEN <<>>
                           ELSE f[n - 1] \o EditRead(s[n], ops)]
           text == CHOOSE f : Is(f)
<1>0. Len(s) \in Nat
  OBVIOUS
<1>1. PICK f : TextedBy(s, ops, Len(s), f)
  <2> HIDE DEF Is, text
  <2>1. QED  BY <1>0, TextsExist
<1>2. Is(f)
  <2>1. \A n \in 0..Len(s) :
            f[n] = IF n = 0 THEN <<>>
                   ELSE f[n - 1] \o EditRead(s[n], ops)
    <3> SUFFICES ASSUME NEW n \in 0..Len(s)
                 PROVE  f[n] = IF n = 0 THEN <<>>
                               ELSE f[n - 1] \o EditRead(s[n], ops)
      OBVIOUS
    <3>1. CASE n = 0
      BY <1>1, <3>1 DEF TextedBy
    <3>2. CASE n # 0
      <4>1. n \in 1..Len(s)
        BY <3>2
      <4>2. QED  BY <1>1, <3>2, <4>1 DEF TextedBy
    <3>3. QED  BY <3>1, <3>2
  <2>2. f = [n \in 0..Len(s) |-> f[n]]
    BY <1>1 DEF TextedBy
  <2>3. QED  BY <2>1, <2>2
<1>3. Is(text)
  <2> HIDE DEF Is
  <2>1. QED  BY <1>2
<1>4. TextedBy(s, ops, Len(s), text)
  <2> HIDE DEF text
  <2>1. Len(s) \in Nat
    OBVIOUS
  <2>2. \A n \in 0..Len(s) :
            text[n] = IF n = 0 THEN <<>>
                      ELSE text[n - 1] \o EditRead(s[n], ops)
    BY <1>3
  <2>3. text[0] = <<>>
    BY <2>1, <2>2
  <2>4. \A n \in 1..Len(s) :
            text[n] = text[n - 1] \o EditRead(s[n], ops)
    <3>1. \A n \in 1..Len(s) : n \in 0..Len(s) /\ n # 0
      BY <2>1
    <3>2. QED  BY <2>2, <3>1, Zenon
  <2>5. text = [n \in 0..Len(s) |-> text[n]]
    BY <1>3
  <2>6. QED  BY <2>3, <2>4, <2>5 DEF TextedBy
<1>5. Texted(s, ops) = text[Len(s)]
  BY DEF Texted
<1>6. QED  BY <1>4, <1>5

LEMMA ReadIsLines ==
    ASSUME NEW edit \in Edits, NEW ops
    PROVE  EditRead(edit, ops) \in Seq(Line)
<1>1. edit.text \in Line
  BY DEF Edits
<1>2. <<edit.text>> \in Seq(Line) /\ <<>> \in Seq(Line)
  BY <1>1
<1>3. QED  BY <1>2 DEF EditRead

(* They are lines. *)
LEMMA TextedByLines ==
    ASSUME NEW s \in Seq(Edits), NEW ops, NEW f, TextedBy(s, ops, Len(s), f)
    PROVE  \A n \in 0..Len(s) : f[n] \in Seq(Line)
<1> DEFINE T == {n \in Nat : n <= Len(s) => f[n] \in Seq(Line)}
<1>1. 0 \in T
  BY DEF TextedBy
<1>2. ASSUME NEW n \in T PROVE n + 1 \in T
  <2> SUFFICES ASSUME n + 1 <= Len(s) PROVE f[n + 1] \in Seq(Line)
    OBVIOUS
  <2>1. f[n] \in Seq(Line) /\ n + 1 \in 1..Len(s) /\ (n + 1) - 1 = n
    OBVIOUS
  <2>2. EditRead(s[n + 1], ops) \in Seq(Line)
    <3>1. s[n + 1] \in Edits
      BY <2>1, ElementOfSeq
    <3>2. QED  BY <3>1, ReadIsLines
  <2>3. f[n + 1] = f[n] \o EditRead(s[n + 1], ops)
    BY <2>1 DEF TextedBy
  <2> HIDE DEF T
  <2>4. QED  BY <2>1, <2>2, <2>3
<1>3. T \in SUBSET Nat
  OBVIOUS
<1> HIDE DEF T
<1>4. T = Nat
  BY <1>1, <1>2, <1>3, Counting
<1>5. QED  BY <1>4 DEF T

LEMMA TextedOfLines ==
    ASSUME NEW s \in Seq(Edits), NEW ops
    PROVE  Texted(s, ops) \in Seq(Line)
<1>1. PICK f : TextedBy(s, ops, Len(s), f) /\ Texted(s, ops) = f[Len(s)]
  BY TextedIs
<1>2. QED  BY <1>1, TextedByLines

(* The lines of one script and then another. *)
LEMMA TextedOfBoth ==
    ASSUME NEW s \in Seq(Edits), NEW t \in Seq(Edits), NEW ops
    PROVE  Texted(s \o t, ops) = Texted(s, ops) \o Texted(t, ops)
<1>1. PICK f : TextedBy(s, ops, Len(s), f) /\ Texted(s, ops) = f[Len(s)]
  BY TextedIs
<1>2. PICK h : TextedBy(t, ops, Len(t), h) /\ Texted(t, ops) = h[Len(t)]
  BY TextedIs
<1>3. s \o t \in Seq(Edits) /\ Len(s \o t) = Len(s) + Len(t)
  OBVIOUS
<1>4. PICK g : TextedBy(s \o t, ops, Len(s) + Len(t), g) /\ Texted(s \o t, ops) = g[Len(s) + Len(t)]
  BY <1>3, TextedIs
<1>5. \A n \in 1..Len(s) : (s \o t)[n] = s[n]
  OBVIOUS
<1>6. \A n \in 1..Len(t) : (s \o t)[Len(s) + n] = t[n]
  OBVIOUS
<1> DEFINE both == s \o t
<1>7. /\ both = s \o t /\ \A n \in 1..Len(s) : both[n] = s[n]
      /\ \A n \in 1..Len(t) : both[Len(s) + n] = t[n]
      /\ TextedBy(both, ops, Len(s) + Len(t), g)
      /\ Len(s) \in Nat /\ Len(t) \in Nat
  BY <1>4, <1>5, <1>6
<1> HIDE DEF both
<1>8. \A n \in 0..Len(s) : g[n] = f[n]
  <2> DEFINE T == {n \in Nat : n <= Len(s) => g[n] = f[n]}
  <2>1. 0 \in T
    BY <1>1, <1>7 DEF TextedBy
  <2>2. ASSUME NEW n \in T PROVE n + 1 \in T
    <3> SUFFICES ASSUME n + 1 <= Len(s) PROVE g[n + 1] = f[n + 1]
      OBVIOUS
    <3>1. /\ g[n] = f[n] /\ n + 1 \in 1..Len(s) /\ n + 1 \in 1..(Len(s) + Len(t))
          /\ (n + 1) - 1 = n
      BY <1>7
    <3>2. f[n + 1] = f[n] \o EditRead(s[n + 1], ops)
      BY <1>1, <3>1 DEF TextedBy
    <3>3. g[n + 1] = g[n] \o EditRead(both[n + 1], ops)
      BY <1>7, <3>1 DEF TextedBy
    <3>4. both[n + 1] = s[n + 1]
      BY <1>7, <3>1
    <3> HIDE DEF T
    <3>5. QED  BY <3>1, <3>2, <3>3, <3>4
  <2>3. T \in SUBSET Nat
    OBVIOUS
  <2> HIDE DEF T
  <2>4. T = Nat
    BY <2>1, <2>2, <2>3, Counting
  <2>5. QED  BY <1>7, <2>4 DEF T
<1> DEFINE Then(n) == f[Len(s)] \o h[n]
<1>9. \A n \in 0..Len(t) : g[Len(s) + n] = Then(n)
  <2> DEFINE T == {n \in Nat : n <= Len(t) => g[Len(s) + n] = Then(n)}
  <2>0. f[Len(s)] \in Seq(Line)
    BY <1>1, <1>7, TextedByLines
  <2>1. 0 \in T
    <3>1. h[0] = <<>>
      BY <1>2 DEF TextedBy
    <3>2. Then(0) = f[Len(s)]
      BY <2>0, <3>1
    <3> HIDE DEF Then
    <3>3. g[Len(s) + 0] = f[Len(s)]
      BY <1>7, <1>8
    <3>4. QED  BY <3>2, <3>3
  <2>2. ASSUME NEW n \in T PROVE n + 1 \in T
    <3> HIDE DEF Then
    <3> SUFFICES ASSUME n + 1 <= Len(t) PROVE g[Len(s) + (n + 1)] = Then(n + 1)
      OBVIOUS
    <3>1. /\ g[Len(s) + n] = Then(n) /\ n + 1 \in 1..Len(t) /\ n \in 0..Len(t)
          /\ Len(s) + (n + 1) \in 1..(Len(s) + Len(t))
          /\ (n + 1) - 1 = n /\ (Len(s) + (n + 1)) - 1 = Len(s) + n
      BY <1>7
    <3> DEFINE e == EditRead(t[n + 1], ops)
    <3>2. h[n + 1] = h[n] \o e
      BY <1>2, <3>1 DEF TextedBy
    <3>3. EditRead(both[Len(s) + (n + 1)], ops) = e
      <4>1. both[Len(s) + (n + 1)] = t[n + 1]
        BY <1>7, <3>1
      <4>2. QED  BY <4>1
    <3>4. g[Len(s) + (n + 1)] = g[Len(s) + n] \o e
      BY <1>7, <3>1, <3>3 DEF TextedBy
    <3>5. h[n] \in Seq(Line)
      BY <1>2, <3>1, TextedByLines
    <3>6. e \in Seq(Line)
      <4>1. t[n + 1] \in Edits
        BY <3>1, ElementOfSeq
      <4>2. QED  BY <4>1, ReadIsLines
    <3> HIDE DEF T, e
    <3>7. (f[Len(s)] \o h[n]) \o e = f[Len(s)] \o (h[n] \o e)
      <4>1. PICK u \in Seq(Line), v \in Seq(Line), w \in Seq(Line) :
                u = f[Len(s)] /\ v = h[n] /\ w = e
        BY <2>0, <3>5, <3>6, Zenon
      <4>2. (u \o v) \o w = u \o (v \o w)
        BY ConcatAssociative
      <4>3. QED  BY <4>1, <4>2, Zenon
    <3>8. QED  BY <3>1, <3>2, <3>4, <3>7, Zenon DEF Then
  <2>3. T \in SUBSET Nat
    OBVIOUS
  <2> HIDE DEF T, Then
  <2>4. T = Nat
    BY <2>1, <2>2, <2>3, Counting
  <2>5. \A n \in T : n <= Len(t) => g[Len(s) + n] = Then(n)
    BY DEF T
  <2>6. QED  BY <1>7, <2>4, <2>5
<1>10. g[Len(s) + Len(t)] = Then(Len(t))
  <2> HIDE DEF Then
  <2>1. QED  BY <1>7, <1>9
<1>11. QED  BY <1>1, <1>2, <1>4, <1>10, Zenon DEF Then

(* The lines of what is marked are those marked, or none. *)
LEMMA TextedOfMarked ==
    ASSUME NEW op \in {"removed", "added", "kept"}, NEW x \in Seq(Line), NEW ops
    PROVE  /\ Marked(op, x) \in Seq(Edits)
           /\ Texted(Marked(op, x), ops) = IF op \in ops THEN x ELSE <<>>
<1> DEFINE s == Marked(op, x)
       First(n) == SubSeq(x, 1, n)
<1>0. Len(x) \in Nat /\ DOMAIN x = 1..Len(x) /\ \A n \in 1..Len(x) : x[n] \in Line
  OBVIOUS
<1>1. s \in Seq(Edits) /\ Len(s) = Len(x) /\ \A n \in 1..Len(x) : s[n] = [op |-> op, text |-> x[n]]
  <2>1. s = [n \in 1..Len(x) |-> [op |-> op, text |-> x[n]]]
    BY <1>0 DEF Marked
  <2>2. \A n \in 1..Len(x) : [op |-> op, text |-> x[n]] \in Edits
    BY <1>0 DEF Edits
  <2> HIDE DEF s
  <2>3. s \in [1..Len(x) -> Edits]
    BY <2>1, <2>2
  <2>4. s \in Seq(Edits) /\ Len(s) = Len(x)
    BY <1>0, <2>3
  <2>5. QED  BY <2>1, <2>4
<1> HIDE DEF s, First
<1>2. PICK f : TextedBy(s, ops, Len(x), f) /\ Texted(s, ops) = f[Len(x)]
  BY <1>1, TextedIs
<1>3. \A n \in 0..Len(x) : f[n] = IF op \in ops THEN First(n) ELSE <<>>
  <2> DEFINE T == {n \in Nat : n <= Len(x) => f[n] = IF op \in ops THEN First(n) ELSE <<>>}
  <2>1. 0 \in T
    <3>1. First(0) = <<>>
      BY SubSeqEmpty DEF First
    <3>2. f[0] = <<>>
      BY <1>2 DEF TextedBy
    <3>3. QED  BY <3>1, <3>2
  <2>2. ASSUME NEW n \in T PROVE n + 1 \in T
    <3> SUFFICES ASSUME n + 1 <= Len(x)
                 PROVE  f[n + 1] = IF op \in ops THEN First(n + 1) ELSE <<>>
      OBVIOUS
    <3>1. /\ f[n] = IF op \in ops THEN First(n) ELSE <<>>
          /\ n + 1 \in 1..Len(x) /\ (n + 1) - 1 = n /\ n \in Nat
      BY <1>0
    <3>2. s[n + 1].op = op /\ s[n + 1].text = x[n + 1]
      <4>1. s[n + 1] = [op |-> op, text |-> x[n + 1]]
        BY <1>1, <3>1
      <4>2. QED  BY <4>1
    <3>3. f[n + 1] = f[n] \o (IF op \in ops THEN <<x[n + 1]>> ELSE <<>>)
      <4>1. f[n + 1] = f[n] \o EditRead(s[n + 1], ops)
        BY <1>2, <3>1 DEF TextedBy
      <4>2. EditRead(s[n + 1], ops) = IF op \in ops THEN <<x[n + 1]>> ELSE <<>>
        BY <3>2 DEF EditRead
      <4>3. QED  BY <4>1, <4>2
    <3>4. First(n + 1) = First(n) \o <<x[n + 1]>> /\ First(n) \in Seq(Line)
      <4>1. SubSeq(x, 1, n + 1) = SubSeq(x, 1, n) \o <<x[n + 1]>>
        BY <1>0, <3>1, SubSeqRecursiveSecond
      <4>2. SubSeq(x, 1, n) \in Seq(Line) /\ x[n + 1] \in Line
        BY <1>0, <3>1
      <4>3. QED  BY <4>1, <4>2 DEF First
    <3> HIDE DEF T
    <3>5. QED  BY <3>1, <3>3, <3>4
  <2>3. T \in SUBSET Nat
    OBVIOUS
  <2> HIDE DEF T
  <2>4. T = Nat
    BY <2>1, <2>2, <2>3, Counting
  <2>5. QED  BY <2>4 DEF T
<1>4. f[Len(x)] = IF op \in ops THEN x ELSE <<>>
  <2>1. First(Len(x)) = x
    BY SubSeqFull DEF First
  <2>2. QED  BY <1>0, <1>3, <2>1
<1>5. QED  BY <1>1, <1>2, <1>4 DEF s

LEMMA TextedOfNone ==
    ASSUME NEW ops
    PROVE  <<>> \in Seq(Edits) /\ Texted(<<>>, ops) = <<>>
<1>1. <<>> \in Seq(Edits) /\ Len(<<>>) = 0
  OBVIOUS
<1>2. PICK f : TextedBy(<<>>, ops, 0, f) /\ Texted(<<>>, ops) = f[0]
  BY <1>1, TextedIs
<1>3. QED  BY <1>1, <1>2 DEF TextedBy
-----------------------------------------------------------------------------
(* Sequences one after another. *)
FlattenedBy(seqs, k, f) ==
    /\ f = [i \in 1..k |-> f[i]]
    /\ f[1] = seqs[1]
    /\ \A i \in 2..k : f[i] = f[i - 1] \o seqs[i]

LEMMA FlattenIs ==
    ASSUME NEW S, NEW seqs \in Seq(S), Len(seqs) # 0
    PROVE  \E f : FlattenedBy(seqs, Len(seqs), f) /\ FlattenSeq(seqs) = f[Len(seqs)]
<1>0. Len(seqs) \in Nat /\ Len(seqs) - 1 \in Nat /\ 1 \in 1..Len(seqs)
  OBVIOUS
<1>1. \A n \in Nat : \E f : FlattenedBy(seqs, n + 1, f)
  <2> DEFINE T == {n \in Nat : \E f : FlattenedBy(seqs, n + 1, f)}
  <2>1. 0 \in T
    <3> DEFINE f == [i \in 1..1 |-> seqs[1]]
    <3>1. f = [i \in 1..1 |-> f[i]] /\ f[1] = seqs[1] /\ 2..1 = {}
      OBVIOUS
    <3>2. FlattenedBy(seqs, 1, f)
      BY <3>1 DEF FlattenedBy
    <3>3. QED  BY <3>2
  <2>2. ASSUME NEW n \in T PROVE n + 1 \in T
    <3>1. PICK f : FlattenedBy(seqs, n + 1, f)
      OBVIOUS
    <3> DEFINE last == f[n + 1] \o seqs[n + 2]
    <3> HIDE DEF last
    <3> DEFINE g == [i \in 1..(n + 2) |-> IF i = n + 2 THEN last ELSE f[i]]
    <3>2. n \in Nat /\ n + 2 = (n + 1) + 1
      OBVIOUS
    <3>3. g = [i \in 1..(n + 2) |-> g[i]]
      OBVIOUS
    <3>4. g[n + 2] = last /\ \A i \in 1..(n + 1) : g[i] = f[i]
      BY <3>2
    <3> HIDE DEF g
    <3>5. g[1] = seqs[1]
      <4>1. 1 \in 1..(n + 1)
        BY <3>2
      <4>2. QED  BY <3>1, <3>4, <4>1 DEF FlattenedBy
    <3>6. ASSUME NEW i \in 2..(n + 2)
          PROVE  g[i] = g[i - 1] \o seqs[i]
      <4>1. i - 1 \in 1..(n + 1)
        BY <3>2
      <4>2. CASE i = n + 2
        <5>1. i - 1 = n + 1
          BY <3>2, <4>2
        <5>2. g[i - 1] = f[n + 1]
          BY <3>4, <4>1, <5>1
        <5>3. QED  BY <3>4, <4>2, <5>2 DEF last
      <4>3. CASE i # n + 2
        <5>1. i \in 2..(n + 1) /\ i \in 1..(n + 1)
          BY <3>2, <4>3
        <5>2. f[i] = f[i - 1] \o seqs[i]
          BY <3>1, <5>1 DEF FlattenedBy
        <5>3. g[i] = f[i] /\ g[i - 1] = f[i - 1]
          BY <3>4, <4>1, <5>1
        <5>4. QED  BY <5>2, <5>3
      <4>4. QED  BY <4>2, <4>3
    <3>7. FlattenedBy(seqs, n + 2, g)
      BY <3>3, <3>5, <3>6 DEF FlattenedBy
    <3>8. FlattenedBy(seqs, (n + 1) + 1, g) /\ n + 1 \in Nat
      BY <3>2, <3>7
    <3>9. QED  BY <3>8
  <2>3. T \in SUBSET Nat
    OBVIOUS
  <2> HIDE DEF T
  <2>4. T = Nat
    BY <2>1, <2>2, <2>3, Counting
  <2>5. QED  BY <2>4 DEF T
<1>2. PICK f : FlattenedBy(seqs, Len(seqs), f)
  <2>1. \E f : FlattenedBy(seqs, (Len(seqs) - 1) + 1, f)
    BY <1>0, <1>1
  <2>2. (Len(seqs) - 1) + 1 = Len(seqs)
    BY <1>0
  <2>3. QED  BY <2>1, <2>2
<1> DEFINE Is(h) == h = [i \in 1..Len(seqs) |-> IF i = 1 THEN seqs[i] ELSE h[i - 1] \o seqs[i]]
           flatten == CHOOSE h : Is(h)
<1>3. Is(f)
  <2>1. \A i \in 1..Len(seqs) : f[i] = IF i = 1 THEN seqs[i] ELSE f[i - 1] \o seqs[i]
    <3> SUFFICES ASSUME NEW i \in 1..Len(seqs)
                 PROVE  f[i] = IF i = 1 THEN seqs[i] ELSE f[i - 1] \o seqs[i]
      OBVIOUS
    <3>1. CASE i = 1
      BY <1>2, <3>1 DEF FlattenedBy
    <3>2. CASE i # 1
      <4>1. i \in 2..Len(seqs)
        BY <1>0, <3>2
      <4>2. QED  BY <1>2, <3>2, <4>1 DEF FlattenedBy
    <3>3. QED  BY <3>1, <3>2
  <2>2. f = [i \in 1..Len(seqs) |-> f[i]]
    BY <1>2 DEF FlattenedBy
  <2>3. QED  BY <2>1, <2>2
<1>4. Is(flatten)
  <2> HIDE DEF Is
  <2>1. QED  BY <1>3
<1>5. FlattenedBy(seqs, Len(seqs), flatten)
  <2> HIDE DEF flatten
  <2>1. \A i \in 1..Len(seqs) : flatten[i] = IF i = 1 THEN seqs[i] ELSE flatten[i - 1] \o seqs[i]
    BY <1>4
  <2>2. flatten[1] = seqs[1]
    BY <1>0, <2>1
  <2>3. \A i \in 2..Len(seqs) : flatten[i] = flatten[i - 1] \o seqs[i]
    <3>1. \A i \in 2..Len(seqs) : i \in 1..Len(seqs) /\ i # 1
      BY <1>0
    <3>2. QED  BY <2>1, <3>1, Zenon
  <2>4. flatten = [i \in 1..Len(seqs) |-> flatten[i]]
    BY <1>4
  <2>5. QED  BY <2>2, <2>3, <2>4 DEF FlattenedBy
<1>6. FlattenSeq(seqs) = flatten[Len(seqs)]
  BY DEF FlattenSeq
<1>7. QED  BY <1>5, <1>6
-----------------------------------------------------------------------------
(* The lines of a text after the u-th and before the x-th, the x-th if it  *)
(* has one, and those through it.                                          *)
Between(a, u, x) == SubSeq(a, u + 1, x - 1)
LineAt(a, x) == IF x <= Len(a) THEN <<a[x]>> ELSE <<>>
Through(a, x) == SubSeq(a, 1, IF x <= Len(a) THEN x ELSE Len(a))

LEMMA ReadOn ==
    ASSUME NEW a \in Seq(Line), NEW u \in Nat, NEW x \in Nat, u < x, x <= Len(a) + 1
    PROVE  /\ Between(a, u, x) \in Seq(Line) /\ Len(Between(a, u, x)) = x - 1 - u
           /\ LineAt(a, x) \in Seq(Line)
           /\ SubSeq(a, 1, u) \in Seq(Line)
           /\ SubSeq(a, 1, u) \o (Between(a, u, x) \o LineAt(a, x)) = Through(a, x)
<1> DEFINE to == IF x <= Len(a) THEN x ELSE Len(a)
           z == LineAt(a, x)
<1>0. Len(a) \in Nat /\ \A i \in 1..Len(a) : a[i] \in Line
  OBVIOUS
<1>1. /\ u + 1 \in 1..(Len(a) + 1) /\ x - 1 \in u..Len(a) /\ to \in (x - 1)..Len(a) /\ to \in u..Len(a)
      /\ u \in 0..Len(a) /\ u + 1 \in Int /\ x - 1 \in Int /\ (x - 1) + 1 = x
  BY <1>0
<1>2. z = SubSeq(a, x, to)
  <2>1. CASE x <= Len(a)
    <3>1. x \in 1..Len(a)
      BY <1>0, <2>1
    <3>2. SubSeq(a, x, x) = <<a[x]>>
      <4>1. SubSeq(a, x, x) = << a[x] >> \o SubSeq(a, x + 1, x)
        BY <1>0, <3>1, SubSeqRecursiveFirst
      <4>2. SubSeq(a, x + 1, x) = <<>>
        BY <3>1, SubSeqEmpty
      <4>3. <<a[x]>> \in Seq(Line)
        BY <1>0, <3>1
      <4>4. <<a[x]>> \o <<>> = <<a[x]>>
        BY <4>3, ConcatEmptySeq
      <4>5. QED  BY <4>1, <4>2, <4>4
    <3>3. QED  BY <2>1, <3>2 DEF LineAt
  <2>2. CASE ~(x <= Len(a))
    <3>1. SubSeq(a, x, Len(a)) = <<>>
      BY <1>0, <2>2, SubSeqEmpty
    <3>2. QED  BY <2>2, <3>1 DEF LineAt
  <2>3. QED  BY <2>1, <2>2
<1> HIDE DEF to, z
<1>3. \A i \in (u + 1)..(x - 1) : a[i] \in Line
  BY <1>0, <1>1
<1>4. SubSeq(a, u + 1, x - 1) \in Seq(Line)
  BY <1>1, <1>3, SubSeqProperties
<1>5. Len(SubSeq(a, u + 1, x - 1)) = x - 1 - u
  <2>1. Len(SubSeq(a, u + 1, x - 1)) = IF u + 1 <= x - 1 THEN (x - 1) - (u + 1) + 1 ELSE 0
    BY <1>1, <1>3, SubSeqProperties
  <2>2. QED  BY <1>1, <2>1
<1>6. z \in Seq(Line)
  <2>1. \A i \in x..to : a[i] \in Line
    BY <1>0, <1>1
  <2>2. x \in Int /\ to \in Int
    BY <1>0, <1>1
  <2>3. QED  BY <1>2, <2>1, <2>2, SubSeqProperties
<1>7. SubSeq(a, u + 1, x - 1) \o z = SubSeq(a, u + 1, to)
  <2>1. SubSeq(a, u + 1, x - 1) \o SubSeq(a, (x - 1) + 1, to) = SubSeq(a, u + 1, to)
    <3>1. x - 1 \in ((u + 1) - 1)..Len(a)
      BY <1>1
    <3>2. QED  BY <1>1, <3>1, ConcatAdjacentSubSeq
  <2>2. QED  BY <1>1, <1>2, <2>1
<1>8. SubSeq(a, 1, u) \o SubSeq(a, u + 1, to) = SubSeq(a, 1, to)
  <2>1. 1 \in 1..(Len(a) + 1) /\ u \in (1 - 1)..Len(a)
    BY <1>0, <1>1
  <2>2. QED  BY <1>1, <2>1, ConcatAdjacentSubSeq
<1>9. SubSeq(a, 1, u) \in Seq(Line)
  <2>1. \A i \in 1..u : a[i] \in Line
    BY <1>0, <1>1
  <2>2. QED  BY <2>1, SubSeqProperties
<1>10. QED  BY <1>4, <1>5, <1>6, <1>7, <1>8, <1>9, Zenon DEF to, z, Between, LineAt, Through

(* Pairs of lines which are the same, in order. *)
InCommon(a, b, c) ==
    /\ c \in Seq(Nat \X Nat)
    /\ \A i \in 1..Len(c) : c[i] \in Matches(a, b)
    /\ \A i, j \in 1..Len(c) : j = i + 1 => c[i][1] < c[j][1] /\ c[i][2] < c[j][2]

(* What is read of a piece of a script: lines removed, others added, and   *)
(* what is kept.                                                           *)
Piece(p, q, k) == (Marked("removed", p) \o Marked("added", q)) \o k
KeptAs(k, z) == \A ops : Texted(k, ops) = IF "kept" \in ops THEN z ELSE <<>>
PieceReads(p, q, z, k) ==
    /\ Piece(p, q, k) \in Seq(Edits)
    /\ Texted(Piece(p, q, k), InOld) = p \o z
    /\ Texted(Piece(p, q, k), InNew) = q \o z
    /\ Texted(Piece(p, q, k), Changed) = p \o q

LEMMA PieceIs ==
    ASSUME NEW p \in Seq(Line), NEW q \in Seq(Line), NEW z \in Seq(Line), NEW k \in Seq(Edits),
           KeptAs(k, z)
    PROVE  PieceReads(p, q, z, k)
<1> DEFINE r == Marked("removed", p)
           s == Marked("added", q)
           piece == Piece(p, q, k)
<1>1. /\ r \in Seq(Edits) /\ s \in Seq(Edits)
      /\ \A ops : Texted(r, ops) = IF "removed" \in ops THEN p ELSE <<>>
      /\ \A ops : Texted(s, ops) = IF "added" \in ops THEN q ELSE <<>>
  BY TextedOfMarked
<1> HIDE DEF r, s, piece
<1>2. r \o s \in Seq(Edits) /\ (r \o s) \o k \in Seq(Edits)
  BY <1>1
<1>3. ASSUME NEW ops
      PROVE  Texted(piece, ops) = (Texted(r, ops) \o Texted(s, ops)) \o Texted(k, ops)
  <2>1. Texted(r \o s, ops) = Texted(r, ops) \o Texted(s, ops)
    BY <1>1, TextedOfBoth
  <2>2. PICK rs \in Seq(Edits) : rs = r \o s
    BY <1>2
  <2>3. Texted(rs \o k, ops) = Texted(rs, ops) \o Texted(k, ops)
    BY TextedOfBoth
  <2>4. piece = rs \o k
    BY <2>2, Zenon DEF r, s, piece, Piece
  <2>5. QED  BY <2>1, <2>2, <2>3, <2>4, Zenon
<1>4. <<>> \o q = q /\ p \o <<>> = p /\ p \o q \in Seq(Line) /\ (p \o q) \o <<>> = p \o q
  <2>1. p \o q \in Seq(Line)
    OBVIOUS
  <2>2. <<>> \o q = q /\ p \o <<>> = p
    BY ConcatEmptySeq
  <2>3. PICK pq \in Seq(Line) : pq = p \o q
    BY <2>1
  <2>4. pq \o <<>> = pq
    BY ConcatEmptySeq
  <2>5. QED  BY <2>1, <2>2, <2>3, <2>4, Zenon
<1>5. Texted(piece, InOld) = p \o z
  <2>1. /\ Texted(r, InOld) = p /\ Texted(s, InOld) = <<>>
        /\ Texted(k, InOld) = z
    BY <1>1 DEF KeptAs, InOld, InNew, Changed
  <2>2. QED  BY <1>3, <1>4, <2>1, Zenon
<1>6. Texted(piece, InNew) = q \o z
  <2>1. /\ Texted(r, InNew) = <<>> /\ Texted(s, InNew) = q
        /\ Texted(k, InNew) = z
    BY <1>1 DEF KeptAs, InOld, InNew, Changed
  <2>2. QED  BY <1>3, <1>4, <2>1, Zenon
<1>7. Texted(piece, Changed) = p \o q
  <2>1. /\ Texted(r, Changed) = p /\ Texted(s, Changed) = q
        /\ Texted(k, Changed) = <<>>
    BY <1>1 DEF KeptAs, InOld, InNew, Changed
  <2>2. QED  BY <1>3, <1>4, <2>1, Zenon
<1>8. piece \in Seq(Edits)
  BY <1>2, Zenon DEF r, s, piece, Piece
<1>9. QED  BY <1>5, <1>6, <1>7, <1>8, Zenon DEF piece, PieceReads

(* The script of pairs in common reads as the one text and as the other,   *)
(* and every line which is in no pair is an edit.                          *)
LEMMA EditScriptIs ==
    ASSUME sides.a \in Seq(Line), sides.b \in Seq(Line),
           NEW common, InCommon(sides.a, sides.b, common)
    PROVE  /\ EditScript(common) \in Seq(Edits)
           /\ Texted(EditScript(common), InOld) = sides.a
           /\ Texted(EditScript(common), InNew) = sides.b
           /\ Len(Texted(EditScript(common), Changed))
                 = Len(sides.a) + Len(sides.b) - 2 * Len(common)
<1>1. PICK a \in Seq(Line), b \in Seq(Line) : a = sides.a /\ b = sides.b
  OBVIOUS
<1> DEFINE n == Len(common)
           pairs == Append(common, <<Len(a) + 1, Len(b) + 1>>)
           before(i) == IF i = 1 THEN <<0, 0>> ELSE pairs[i - 1]
           kept(i) == IF i \in DOMAIN common THEN Marked("kept", <<a[pairs[i][1]]>>) ELSE <<>>
           piece(i) == Piece(Between(a, before(i)[1], pairs[i][1]),
                             Between(b, before(i)[2], pairs[i][2]), kept(i))
           pieces == [i \in DOMAIN pairs |-> piece(i)]
<1>2. Len(a) \in Nat /\ Len(b) \in Nat
  OBVIOUS
<1>3. common \in Seq(Nat \X Nat) /\ n \in Nat /\ DOMAIN common = 1..n
  BY DEF InCommon
<1>4. /\ pairs \in Seq(Nat \X Nat) /\ Len(pairs) = n + 1 /\ DOMAIN pairs = 1..(n + 1)
      /\ \A i \in 1..n : pairs[i] = common[i]
      /\ pairs[n + 1] = <<Len(a) + 1, Len(b) + 1>>
  <2>1. <<Len(a) + 1, Len(b) + 1>> \in Nat \X Nat
    BY <1>2
  <2>2. QED  BY <1>3, <2>1, AppendProperties
<1>5. ASSUME NEW i \in 1..n
      PROVE  /\ common[i][1] \in 1..Len(a) /\ common[i][2] \in 1..Len(b)
             /\ a[common[i][1]] = b[common[i][2]]
  <2>1. common[i] \in Matches(a, b)
    BY <1>1, <1>3 DEF InCommon
  <2>2. QED  BY <2>1 DEF Matches
<1>6. \A i, j \in 1..n : j = i + 1 => common[i][1] < common[j][1] /\ common[i][2] < common[j][2]
  BY DEF InCommon
<1>7. EditScript(common) = FlattenSeq(pieces)
  BY <1>1 DEF EditScript, Piece, Between
<1> HIDE DEF pairs
(* Where a piece begins and ends. *)
<1> DEFINE u(i) == before(i)[1]
           v(i) == before(i)[2]
           x(i) == pairs[i][1]
           y(i) == pairs[i][2]
<1>8. ASSUME NEW i \in 1..(n + 1)
      PROVE  /\ u(i) \in Nat /\ v(i) \in Nat /\ x(i) \in Nat /\ y(i) \in Nat
             /\ u(i) < x(i) /\ v(i) < y(i) /\ x(i) <= Len(a) + 1 /\ y(i) <= Len(b) + 1
             /\ i \in 1..n => x(i) <= Len(a) /\ y(i) <= Len(b) /\ a[x(i)] = b[y(i)]
             /\ i \notin 1..n => x(i) = Len(a) + 1 /\ y(i) = Len(b) + 1
  <2>1. CASE i \in 1..n
    <3>1. /\ x(i) \in 1..Len(a) /\ y(i) \in 1..Len(b) /\ a[x(i)] = b[y(i)]
      BY <1>4, <1>5, <2>1
    <3>2. CASE i = 1
      BY <1>2, <2>1, <3>1, <3>2
    <3>3. CASE i # 1
      <4>1. i - 1 \in 1..n /\ i = (i - 1) + 1
        BY <1>3, <2>1, <3>3
      <4>2. u(i) = common[i - 1][1] /\ v(i) = common[i - 1][2]
        BY <1>4, <3>3, <4>1
      <4>3. x(i) = common[i][1] /\ y(i) = common[i][2]
        BY <1>4, <2>1
      <4>4. common[i - 1][1] < common[i][1] /\ common[i - 1][2] < common[i][2]
        BY <1>6, <2>1, <4>1
      <4>5. common[i - 1][1] \in 1..Len(a) /\ common[i - 1][2] \in 1..Len(b)
        BY <1>5, <4>1
      <4>6. u(i) \in 1..Len(a) /\ v(i) \in 1..Len(b) /\ u(i) < x(i) /\ v(i) < y(i)
        <5> HIDE DEF u, v, x, y
        <5>1. QED  BY <4>2, <4>3, <4>4, <4>5
      <4> HIDE DEF u, v, x, y
      <4>7. QED  BY <1>2, <2>1, <3>1, <4>6
    <3>4. QED  BY <3>2, <3>3
  <2>2. CASE i \notin 1..n
    <3>0. i = n + 1
      BY <1>3, <2>2
    <3>1. x(i) = Len(a) + 1 /\ y(i) = Len(b) + 1
      BY <1>4, <3>0
    <3>2. CASE i = 1
      <4>1. u(i) = 0 /\ v(i) = 0
        BY <3>2
      <4> HIDE DEF u, v, x, y
      <4>2. QED  BY <1>2, <2>2, <3>1, <4>1
    <3>3. CASE i # 1
      <4>1. i - 1 \in 1..n
        BY <1>3, <3>0, <3>3
      <4>2. u(i) = common[i - 1][1] /\ v(i) = common[i - 1][2]
        BY <1>4, <3>3, <4>1
      <4>3. common[i - 1][1] \in 1..Len(a) /\ common[i - 1][2] \in 1..Len(b)
        BY <1>5, <4>1
      <4> HIDE DEF u, v, x, y
      <4>4. QED  BY <1>2, <2>2, <3>1, <4>2, <4>3
    <3>4. QED  BY <3>2, <3>3
  <2>3. QED  BY <2>1, <2>2
<1>9. \A i \in 2..(n + 1) : u(i) = x(i - 1) /\ v(i) = y(i - 1)
  <2>1. \A i \in 2..(n + 1) : i # 1
    BY <1>3
  <2>2. QED  BY <2>1
<1> DEFINE za(i) == LineAt(a, x(i))
           la(i) == Between(a, u(i), x(i))
           lb(i) == Between(b, v(i), y(i))
           ta(i) == Through(a, x(i))
           tb(i) == Through(b, y(i))
<1>10. ASSUME NEW i \in 1..(n + 1)
       PROVE  /\ la(i) \in Seq(Line) /\ Len(la(i)) = x(i) - 1 - u(i)
              /\ lb(i) \in Seq(Line) /\ Len(lb(i)) = y(i) - 1 - v(i)
              /\ za(i) \in Seq(Line)
              /\ SubSeq(a, 1, u(i)) \in Seq(Line) /\ SubSeq(b, 1, v(i)) \in Seq(Line)
              /\ SubSeq(a, 1, u(i)) \o (la(i) \o za(i)) = ta(i)
              /\ SubSeq(b, 1, v(i)) \o (lb(i) \o za(i)) = tb(i)
  <2>1. PICK u0 \in Nat, v0 \in Nat, x0 \in Nat, y0 \in Nat :
            u0 = u(i) /\ v0 = v(i) /\ x0 = x(i) /\ y0 = y(i)
    <3> HIDE DEF u, v, x, y
    <3>1. QED  BY <1>8
  <2>2. /\ u0 < x0 /\ v0 < y0 /\ x0 <= Len(a) + 1 /\ y0 <= Len(b) + 1
        /\ i \in 1..n => x0 <= Len(a) /\ y0 <= Len(b) /\ a[x0] = b[y0]
        /\ i \notin 1..n => x0 = Len(a) + 1 /\ y0 = Len(b) + 1
    <3> HIDE DEF u, v, x, y
    <3>1. QED  BY <1>8, <2>1
  <2>3. LineAt(a, x0) = LineAt(b, y0)
    BY <1>2, <2>2 DEF LineAt
  <2>4. /\ Between(a, u0, x0) \in Seq(Line) /\ Len(Between(a, u0, x0)) = x0 - 1 - u0
        /\ LineAt(a, x0) \in Seq(Line) /\ SubSeq(a, 1, u0) \in Seq(Line)
        /\ SubSeq(a, 1, u0) \o (Between(a, u0, x0) \o LineAt(a, x0)) = Through(a, x0)
    BY <2>2, ReadOn
  <2>5. /\ Between(b, v0, y0) \in Seq(Line) /\ Len(Between(b, v0, y0)) = y0 - 1 - v0
        /\ LineAt(b, y0) \in Seq(Line) /\ SubSeq(b, 1, v0) \in Seq(Line)
        /\ SubSeq(b, 1, v0) \o (Between(b, v0, y0) \o LineAt(b, y0)) = Through(b, y0)
    BY <2>2, ReadOn
  <2>6. QED  BY <2>1, <2>3, <2>4, <2>5, Zenon
<1>11. ASSUME NEW i \in 1..(n + 1)
       PROVE  /\ piece(i) \in Seq(Edits)
              /\ Texted(piece(i), InOld) = la(i) \o za(i)
              /\ Texted(piece(i), InNew) = lb(i) \o za(i)
              /\ Texted(piece(i), Changed) = la(i) \o lb(i)
  <2>1. kept(i) \in Seq(Edits) /\ KeptAs(kept(i), za(i))
    <3>1. CASE i \in 1..n
      <4>1. za(i) = <<a[x(i)]>> /\ x(i) \in Nat
        <5> HIDE DEF u, v, x, y
        <5>1. QED  BY <1>8, <3>1 DEF LineAt
      <4>2. za(i) \in Seq(Line)
        BY <1>10
      <4>3. kept(i) = Marked("kept", za(i))
        BY <1>3, <3>1, <4>1, Zenon
      <4> HIDE DEF za, kept
      <4>4. QED  BY <4>2, <4>3, TextedOfMarked DEF KeptAs
    <3>2. CASE i \notin 1..n
      <4>1. za(i) = <<>>
        <5>1. ~(x(i) <= Len(a))
          <6> HIDE DEF u, v, x, y
          <6>1. QED  BY <1>2, <1>8, <3>2
        <5>2. QED  BY <5>1 DEF LineAt
      <4>2. kept(i) = <<>>
        BY <1>3, <3>2
      <4> HIDE DEF za, kept
      <4>3. QED  BY <4>1, <4>2, TextedOfNone DEF KeptAs
    <3>3. QED  BY <3>1, <3>2
  <2>2. piece(i) = Piece(la(i), lb(i), kept(i))
    BY Zenon
  <2>3. la(i) \in Seq(Line) /\ lb(i) \in Seq(Line) /\ za(i) \in Seq(Line)
    BY <1>10
  <2> HIDE DEF la, lb, za, kept, piece
  <2>4. PICK p \in Seq(Line), q \in Seq(Line), z \in Seq(Line), k \in Seq(Edits) :
            p = la(i) /\ q = lb(i) /\ z = za(i) /\ k = kept(i)
    BY <2>1, <2>3
  <2>5. KeptAs(k, z)
    BY <2>1, <2>4
  <2>6. PieceReads(p, q, z, k)
    BY <2>5, PieceIs
  <2>7. QED  BY <2>2, <2>4, <2>6, Zenon DEF PieceReads
<1> DEFINE S == Seq(Edits)
<1>12. pieces \in Seq(S) /\ Len(pieces) = n + 1 /\ \A i \in 1..(n + 1) : pieces[i] = piece(i)
  <2> HIDE DEF piece, la, lb, za
  <2>1. pieces = [i \in 1..(n + 1) |-> piece(i)]
    BY <1>4, Zenon
  <2>2. \A i \in 1..(n + 1) : piece(i) \in S
    BY <1>11
  <2> HIDE DEF S, pieces
  <2>3. pieces \in [1..(n + 1) -> S]
    BY <2>1, <2>2
  <2>4. n + 1 \in Nat
    BY <1>3
  <2>5. pieces \in Seq(S) /\ Len(pieces) = n + 1
    BY <2>3, <2>4
  <2>6. \A i \in 1..(n + 1) : pieces[i] = piece(i)
    BY <2>1
  <2>7. QED  BY <2>5, <2>6
<1> HIDE DEF pieces
<1>13. PICK f : FlattenedBy(pieces, n + 1, f) /\ EditScript(common) = f[n + 1]
  <2>1. Len(pieces) # 0
    BY <1>3, <1>12
  <2>2. \E f : FlattenedBy(pieces, Len(pieces), f) /\ FlattenSeq(pieces) = f[Len(pieces)]
    BY <1>12, <2>1, FlattenIs
  <2>3. QED  BY <1>7, <1>12, <2>2
<1> HIDE DEF piece, ta, tb, la, lb, za, u, v, x, y
<1> DEFINE Reads(i) ==
              /\ f[i] \in Seq(Edits)
              /\ Texted(f[i], InOld) = ta(i)
              /\ Texted(f[i], InNew) = tb(i)
              /\ Texted(f[i], Changed) \in Seq(Line)
              /\ Len(Texted(f[i], Changed)) = x(i) + y(i) - 2 * i
<1>14. Reads(1)
  <2>1. f[1] = piece(1) /\ 1 \in 1..(n + 1)
    <3>1. 1 \in 1..(n + 1)
      BY <1>3
    <3>2. f[1] = pieces[1]
      BY <1>13 DEF FlattenedBy
    <3>3. QED  BY <1>12, <3>1, <3>2
  <2>2. u(1) = 0 /\ v(1) = 0
    BY DEF u, v
  <2>3. SubSeq(a, 1, 0) = <<>> /\ SubSeq(b, 1, 0) = <<>>
    BY SubSeqEmpty
  <2>4. /\ <<>> \o (la(1) \o za(1)) = ta(1) /\ <<>> \o (lb(1) \o za(1)) = tb(1)
    BY <1>10, <2>1, <2>2, <2>3, Zenon
  <2>5. la(1) \in Seq(Line) /\ lb(1) \in Seq(Line) /\ za(1) \in Seq(Line)
    BY <1>10, <2>1
  <2>6. PICK p \in Seq(Line), q \in Seq(Line), z \in Seq(Line) : p = la(1) /\ q = lb(1) /\ z = za(1)
    BY <2>5
  <2>7. <<>> \o (p \o z) = p \o z /\ <<>> \o (q \o z) = q \o z /\ Len(p \o q) = Len(p) + Len(q)
        /\ p \o q \in Seq(Line)
    <3>1. p \o z \in Seq(Line) /\ q \o z \in Seq(Line) /\ p \o q \in Seq(Line)
      OBVIOUS
    <3>2. Len(p \o q) = Len(p) + Len(q)
      OBVIOUS
    <3>3. PICK pz \in Seq(Line), qz \in Seq(Line) : pz = p \o z /\ qz = q \o z
      BY <3>1
    <3>4. <<>> \o pz = pz /\ <<>> \o qz = qz
      BY ConcatEmptySeq
    <3>5. QED  BY <3>1, <3>2, <3>3, <3>4, Zenon
  <2>8. la(1) \o za(1) = ta(1) /\ lb(1) \o za(1) = tb(1) /\ la(1) \o lb(1) = p \o q
    BY <2>4, <2>6, <2>7, Zenon
  <2>9. /\ Texted(f[1], InOld) = ta(1)
        /\ Texted(f[1], InNew) = tb(1)
        /\ Texted(f[1], Changed) = p \o q
        /\ f[1] \in Seq(Edits)
    BY <1>11, <2>1, <2>8, Zenon
  <2>10. Len(p) = x(1) - 1 /\ Len(q) = y(1) - 1 /\ x(1) \in Nat /\ y(1) \in Nat
    <3>1. /\ Len(la(1)) = x(1) - 1 - u(1) /\ Len(lb(1)) = y(1) - 1 - v(1)
          /\ x(1) \in Nat /\ y(1) \in Nat
      BY <1>8, <1>10, <2>1
    <3>2. QED  BY <2>2, <2>6, <3>1
  <2>11. Len(p \o q) = x(1) + y(1) - 2 * 1
    BY <2>7, <2>10
  <2>12. QED  BY <2>7, <2>9, <2>11
<1>15. ASSUME NEW i \in 1..n, Reads(i) PROVE Reads(i + 1)
  <2> DEFINE j == i + 1
  <2>1. j \in 1..(n + 1) /\ j \in 2..(n + 1) /\ i \in 1..(n + 1) /\ j - 1 = i /\ i \in Nat /\ j = i + 1
    BY <1>3
  <2> HIDE DEF j
  <2>2. f[j] = f[i] \o piece(j)
    <3>1. f[j] = f[j - 1] \o pieces[j]
      BY <1>13, <2>1 DEF FlattenedBy
    <3>2. QED  BY <1>12, <2>1, <3>1
  <2>3. u(j) = x(i) /\ v(j) = y(i)
    BY <1>9, <2>1
  <2>4. ta(i) = SubSeq(a, 1, u(j)) /\ tb(i) = SubSeq(b, 1, v(j))
    <3>1. x(i) <= Len(a) /\ y(i) <= Len(b)
      BY <1>8, <2>1
    <3>2. QED  BY <2>3, <3>1, Zenon DEF ta, tb, Through
  <2>5. PICK s \in Seq(Edits), t \in Seq(Edits) : s = f[i] /\ t = piece(j)
    BY <1>11, <1>15, <2>1
  <2>6. s \o t \in Seq(Edits) /\ \A ops : Texted(s \o t, ops) = Texted(s, ops) \o Texted(t, ops)
    BY TextedOfBoth
  <2>7. f[j] \in Seq(Edits) /\ \A ops : Texted(f[j], ops) = Texted(f[i], ops) \o Texted(piece(j), ops)
    BY <2>2, <2>5, <2>6, Zenon
  <2>8. Texted(f[j], InOld) = ta(j)
    <3>1. Texted(f[j], InOld) = SubSeq(a, 1, u(j)) \o (la(j) \o za(j))
      BY <1>11, <1>15, <2>1, <2>4, <2>7, Zenon
    <3>2. QED  BY <1>10, <2>1, <3>1, Zenon
  <2>9. Texted(f[j], InNew) = tb(j)
    <3>1. Texted(f[j], InNew) = SubSeq(b, 1, v(j)) \o (lb(j) \o za(j))
      BY <1>11, <1>15, <2>1, <2>4, <2>7, Zenon
    <3>2. QED  BY <1>10, <2>1, <3>1, Zenon
  <2>10. /\ Texted(f[j], Changed) \in Seq(Line)
         /\ Len(Texted(f[j], Changed)) = x(j) + y(j) - 2 * j
    <3>1. PICK r \in Seq(Line), p \in Seq(Line), q \in Seq(Line) :
              r = Texted(f[i], Changed) /\ p = la(j) /\ q = lb(j)
      BY <1>10, <1>15, <2>1
    <3>2. r \o (p \o q) \in Seq(Line) /\ Len(r \o (p \o q)) = Len(r) + (Len(p) + Len(q))
      <4>1. PICK pq \in Seq(Line) : pq = p \o q /\ Len(pq) = Len(p) + Len(q)
        <5>1. p \o q \in Seq(Line) /\ Len(p \o q) = Len(p) + Len(q)
          BY ConcatProperties
        <5>2. QED  BY <5>1, Zenon
      <4>2. r \o pq \in Seq(Line) /\ Len(r \o pq) = Len(r) + Len(pq)
        OBVIOUS
      <4>3. QED  BY <4>1, <4>2, Zenon
    <3>3. Texted(f[j], Changed) = r \o (p \o q)
      BY <1>11, <2>1, <2>7, <3>1, Zenon
    <3>4. /\ Len(r) = x(i) + y(i) - 2 * i /\ Len(p) = x(j) - 1 - x(i) /\ Len(q) = y(j) - 1 - y(i)
      BY <1>10, <1>15, <2>1, <2>3, <3>1
    <3>5. x(i) \in Nat /\ y(i) \in Nat /\ x(j) \in Nat /\ y(j) \in Nat
      BY <1>8, <2>1
    <3>6. Len(r) + (Len(p) + Len(q)) = x(j) + y(j) - 2 * j
      <4>0. Len(r) \in Int /\ Len(p) \in Int /\ Len(q) \in Int
        OBVIOUS
      <4>1. PICK lr \in Int, lp \in Int, lq \in Int, xi \in Nat, yi \in Nat, xj \in Nat, yj \in Nat :
                /\ lr = Len(r) /\ lp = Len(p) /\ lq = Len(q)
                /\ xi = x(i) /\ yi = y(i) /\ xj = x(j) /\ yj = y(j)
        BY <3>5, <4>0, Zenon
      <4>2. lr = xi + yi - 2 * i /\ lp = xj - 1 - xi /\ lq = yj - 1 - yi
        BY <3>4, <4>1, Zenon
      <4>3. lr + (lp + lq) = xj + yj - 2 * j
        BY <2>1, <4>2
      <4>4. QED  BY <4>1, <4>3, Zenon
    <3>7. QED  BY <3>2, <3>3, <3>6
  <2>11. QED  BY <2>7, <2>8, <2>9, <2>10 DEF j
<1>16. Reads(n + 1)
  <2> DEFINE T == {m \in Nat : m <= n => Reads(m + 1)}
  <2> HIDE DEF Reads
  <2>1. 0 \in T
    BY <1>14
  <2>2. ASSUME NEW m \in T PROVE m + 1 \in T
    <3>1. m \in Nat /\ (m <= n => Reads(m + 1))
      OBVIOUS
    <3>2. m + 1 <= n => m + 1 \in 1..n /\ m <= n
      BY <1>3, <3>1
    <3>3. m + 1 <= n => Reads((m + 1) + 1)
      BY <1>15, <3>1, <3>2
    <3>4. QED  BY <3>1, <3>3
  <2>3. T \in SUBSET Nat
    OBVIOUS
  <2> HIDE DEF T
  <2>4. T = Nat
    BY <2>1, <2>2, <2>3, Counting
  <2>5. n \in T /\ n <= n
    BY <1>3, <2>4
  <2>6. QED  BY <2>5 DEF T
<1>17. n + 1 \in 1..(n + 1) /\ n + 1 \notin 1..n
  BY <1>3
<1>18. x(n + 1) = Len(a) + 1 /\ y(n + 1) = Len(b) + 1
  BY <1>8, <1>17
<1>19. ta(n + 1) = a /\ tb(n + 1) = b
  <2>1. ~(Len(a) + 1 <= Len(a)) /\ ~(Len(b) + 1 <= Len(b))
    BY <1>2
  <2>2. SubSeq(a, 1, Len(a)) = a /\ SubSeq(b, 1, Len(b)) = b
    BY SubSeqFull
  <2>3. QED  BY <1>18, <2>1, <2>2, Zenon DEF ta, tb, Through
<1>20. x(n + 1) + y(n + 1) - 2 * (n + 1) = Len(a) + Len(b) - 2 * n
  BY <1>2, <1>3, <1>18
<1>21. QED  BY <1>1, <1>13, <1>16, <1>19, <1>20
(* The least of numbers, and the lines after two places which carry on     *)
(* being the same.                                                         *)
LEMMA LeastIs ==
    ASSUME NEW s \in SUBSET Nat, s # {}
    PROVE  Least(s) \in s /\ \A y \in s : Least(s) <= y
<1>1. PICK n \in s : \A m \in s : ~(<<m, n>> \in OpToRel(<, Nat))
  BY NatLessThanWellFounded, WFMin
<1>2. \A m \in s : m \in Nat /\ n \in Nat
  OBVIOUS
<1>3. \A m \in s : ~(m < n)
  BY <1>1, <1>2 DEF OpToRel
<1>4. \A m \in s : n <= m
  BY <1>2, <1>3
<1>5. QED  BY <1>4 DEF Least

LEMMA SnakeIs ==
    ASSUME NEW S, search.a \in Seq(S), search.b \in Seq(S), NEW x \in Nat, NEW y \in Nat
    PROVE  /\ Snake(x, y) \in Nat
           /\ \A n \in Nat : n < Snake(x, y) => <<x + n + 1, y + n + 1>> \in Matches(search.a, search.b)
           /\ <<x + Snake(x, y) + 1, y + Snake(x, y) + 1>> \notin Matches(search.a, search.b)
<1>1. PICK a \in Seq(S), b \in Seq(S) : a = search.a /\ b = search.b
  OBVIOUS
<1> DEFINE s == {n \in 0..Len(a) : ~ /\ x + n < Len(a) /\ y + n < Len(b)
                                     /\ a[x + n + 1] = b[y + n + 1]}
<1>2. Len(a) \in Nat /\ Len(b) \in Nat
  OBVIOUS
<1>3. s \in SUBSET Nat /\ s # {}
  <2>1. Len(a) \in 0..Len(a) /\ ~(x + Len(a) < Len(a))
    BY <1>2
  <2>2. Len(a) \in s
    BY <2>1
  <2>3. s \in SUBSET Nat
    BY <1>2
  <2>4. QED  BY <2>2, <2>3
<1>4. Snake(x, y) = Least(s)
  BY <1>1, Zenon DEF Snake
<1>5. Least(s) \in s /\ \A n \in s : Least(s) <= n
  <2> HIDE DEF s
  <2>1. QED  BY <1>3, LeastIs
<1>6. PICK l \in Nat : l = Least(s)
  BY <1>3, <1>5
<1>7. l \in 0..Len(a) /\ ~ /\ x + l < Len(a) /\ y + l < Len(b) /\ a[x + l + 1] = b[y + l + 1]
  BY <1>5, <1>6
<1>8. ASSUME NEW n \in Nat, n < l
      PROVE  x + n < Len(a) /\ y + n < Len(b) /\ a[x + n + 1] = b[y + n + 1]
  <2>1. n \in 0..Len(a)
    BY <1>2, <1>7, <1>8
  <2>2. n \notin s
    <3> HIDE DEF s
    <3>1. QED  BY <1>5, <1>6, <1>8
  <2>3. QED  BY <2>1, <2>2
<1> HIDE DEF s
<1>9. ASSUME NEW n \in Nat, n < l PROVE <<x + n + 1, y + n + 1>> \in Matches(a, b)
  <2>0. x + n < Len(a) /\ y + n < Len(b)
    BY <1>8, <1>9
  <2>1. x + n + 1 \in 1..Len(a) /\ y + n + 1 \in 1..Len(b)
    BY <1>2, <2>0
  <2>2. a[x + n + 1] = b[y + n + 1]
    BY <1>8, <1>9
  <2>3. QED  BY <2>1, <2>2 DEF Matches
<1>10. <<x + l + 1, y + l + 1>> \notin Matches(a, b)
  <2>1. SUFFICES ASSUME <<x + l + 1, y + l + 1>> \in Matches(a, b) PROVE FALSE
    OBVIOUS
  <2>2. x + l + 1 \in 1..Len(a) /\ y + l + 1 \in 1..Len(b) /\ a[x + l + 1] = b[y + l + 1]
    BY <2>1 DEF Matches
  <2>3. x + l < Len(a) /\ y + l < Len(b)
    BY <1>2, <2>2
  <2>4. QED  BY <1>7, <2>2, <2>3
<1>11. QED  BY <1>1, <1>4, <1>6, <1>9, <1>10, Zenon
-----------------------------------------------------------------------------
LEMMA DiagonalsAre ==
    ASSUME NEW d \in Int, NEW k
    PROVE  k \in Diagonals(d) <=> k \in Int /\ -d <= k /\ k <= d /\ \E q \in Int : k + d = 2 * q
BY DEF Diagonals

(* The furthest place on diagonal k that e edits reach, and an array of    *)
(* the furthest places.                                                    *)
FurthestAt(m, x, k, e) ==
    /\ x \in Nat /\ x - k \in Nat
    /\ Fewest(m, x, x - k) <= e
    /\ \A u, v \in Nat : u - v = k /\ Fewest(m, u, v) <= e => u <= x
Furthest(m, w, e) == \A k \in Diagonals(e) : FurthestAt(m, w[k], k, e)
Start(v, d, k) ==
    LET from == Previous(v, d, k) IN IF from = k + 1 THEN v[from] ELSE v[from] + 1

(* Where the search starts on a diagonal is d edits from the beginning at  *)
(* most, and no less far than one edit more than the diagonals beside it.  *)
LEMMA StartIs ==
    ASSUME NEW m, NEW v, NEW d \in Nat, NEW k \in Diagonals(d),
           Furthest(m, v, d - 1), d = 0 => v[1] = 0
    PROVE  /\ Start(v, d, k) \in Nat /\ Start(v, d, k) - k \in Nat
           /\ Fewest(m, Start(v, d, k), Start(v, d, k) - k) <= d
           /\ k - 1 \in Diagonals(d - 1) => v[k - 1] + 1 <= Start(v, d, k)
           /\ k + 1 \in Diagonals(d - 1) => v[k + 1] <= Start(v, d, k)
<1>1. k \in Int /\ -d <= k /\ k <= d /\ d - 1 \in Int /\ \E q \in Int : k + d = 2 * q
  BY DiagonalsAre
<1>2. CASE d = 0
  <2>1. k = 0 /\ k = -d
    BY <1>1, <1>2
  <2>2. Start(v, d, k) = 0
    <3>1. Previous(v, d, k) = k + 1 /\ k + 1 = 1
      BY <2>1 DEF Previous
    <3>2. QED  BY <1>2, <3>1 DEF Start
  <2>3. Fewest(m, 0, 0) = 0
    BY FewestFromNone
  <2>4. k - 1 \notin Diagonals(d - 1) /\ k + 1 \notin Diagonals(d - 1)
    <3>1. \A j \in Diagonals(d - 1) : j \in Int /\ -(d - 1) <= j /\ j <= d - 1
      BY <1>1, DiagonalsAre
    <3>2. QED  BY <1>2, <3>1
  <2>5. QED  BY <1>2, <2>1, <2>2, <2>3, <2>4
<1>3. CASE d # 0
  <2>1. k # -d => k - 1 \in Diagonals(d - 1)
    <3>1. ASSUME k # -d PROVE k - 1 \in Int /\ -(d - 1) <= k - 1 /\ k - 1 <= d - 1
      BY <1>1, <3>1
    <3>2. \E q \in Int : (k - 1) + (d - 1) = 2 * q
      <4>1. PICK q \in Int : k + d = 2 * q
        BY <1>1
      <4>2. (k - 1) + (d - 1) = 2 * (q - 1) /\ q - 1 \in Int
        BY <1>1, <4>1
      <4>3. QED  BY <4>2
    <3>3. QED  BY <1>1, <3>1, <3>2, DiagonalsAre
  <2>2. k # d => k + 1 \in Diagonals(d - 1)
    <3>1. ASSUME k # d PROVE k + 1 \in Int /\ -(d - 1) <= k + 1 /\ k + 1 <= d - 1
      BY <1>1, <3>1
    <3>2. \E q \in Int : (k + 1) + (d - 1) = 2 * q
      BY <1>1
    <3>3. QED  BY <1>1, <3>1, <3>2, DiagonalsAre
  <2>3. k = d => k # -d
    BY <1>1, <1>3
  <2>4. k - 1 \in Diagonals(d - 1) => FurthestAt(m, v[k - 1], k - 1, d - 1)
    BY DEF Furthest
  <2>5. k + 1 \in Diagonals(d - 1) => FurthestAt(m, v[k + 1], k + 1, d - 1)
    BY DEF Furthest
  <2>6. CASE Previous(v, d, k) = k + 1
    <3>1. Start(v, d, k) = v[k + 1]
      BY <2>6 DEF Start
    <3>2. k # d
      BY <1>1, <2>3, <2>6 DEF Previous
    <3>3. FurthestAt(m, v[k + 1], k + 1, d - 1)
      BY <2>2, <2>5, <3>2
    <3>4. PICK x \in Nat : x = v[k + 1]
      BY <3>3 DEF FurthestAt
    <3>5. x - (k + 1) \in Nat /\ Fewest(m, x, x - (k + 1)) <= d - 1
      BY <3>3, <3>4 DEF FurthestAt
    <3>6. PICK y \in Nat : y = x - (k + 1)
      BY <3>5
    <3>7. Fewest(m, x, y + 1) - Fewest(m, x, y) \in {1, -1} /\ Fewest(m, x, y) \in Nat
      BY OneLineMore, FewestIsNat
    <3>8. Fewest(m, x, y + 1) \in Nat
      BY FewestIsNat
    <3>9. x - k = y + 1
      BY <1>1, <3>6
    <3>10. Fewest(m, x, y + 1) <= d
      BY <3>5, <3>6, <3>7, <3>8
    <3>11. k - 1 \in Diagonals(d - 1) => v[k - 1] + 1 <= x
      <4>1. SUFFICES ASSUME k - 1 \in Diagonals(d - 1) PROVE v[k - 1] + 1 <= x
        OBVIOUS
      <4>2. k - 1 >= -(d - 1)
        BY <4>1, <1>1, DiagonalsAre
      <4>3. k # -d
        BY <4>2, <1>1
      <4>4. v[k - 1] < v[k + 1]
        BY <1>1, <2>6, <4>3 DEF Previous
      <4>5. v[k - 1] \in Nat
        BY <2>4, <4>1 DEF FurthestAt
      <4>6. QED  BY <3>4, <4>4, <4>5
    <3>12. QED  BY <3>1, <3>4, <3>9, <3>10, <3>11
  <2>7. CASE Previous(v, d, k) # k + 1
    <3>1. Previous(v, d, k) = k - 1 /\ k # -d /\ (k # d => ~(v[k - 1] < v[k + 1]))
      BY <2>7 DEF Previous
    <3>2. Start(v, d, k) = v[k - 1] + 1
      BY <2>7, <3>1 DEF Start
    <3>3. FurthestAt(m, v[k - 1], k - 1, d - 1)
      BY <2>1, <2>4, <3>1
    <3>4. PICK x \in Nat : x = v[k - 1]
      BY <3>3 DEF FurthestAt
    <3>5. x - (k - 1) \in Nat /\ Fewest(m, x, x - (k - 1)) <= d - 1
      BY <3>3, <3>4 DEF FurthestAt
    <3>6. PICK y \in Nat : y = x - (k - 1)
      BY <3>5
    <3>7. Fewest(m, x + 1, y) - Fewest(m, x, y) \in {1, -1} /\ Fewest(m, x, y) \in Nat
      BY OneLineMore, FewestIsNat
    <3>8. Fewest(m, x + 1, y) \in Nat
      BY FewestIsNat
    <3>9. (x + 1) - k = y /\ x + 1 \in Nat
      BY <1>1, <3>6
    <3>10. Fewest(m, x + 1, y) <= d
      BY <3>5, <3>6, <3>7, <3>8
    <3>11. k + 1 \in Diagonals(d - 1) => v[k + 1] <= x + 1
      <4>1. SUFFICES ASSUME k + 1 \in Diagonals(d - 1) PROVE v[k + 1] <= x + 1
        OBVIOUS
      <4>2. k + 1 <= d - 1
        BY <4>1, <1>1, DiagonalsAre
      <4>3. k # d
        BY <4>2, <1>1
      <4>4. ~(x < v[k + 1])
        BY <3>1, <3>4, <4>3
      <4>5. v[k + 1] \in Nat
        BY <2>5, <4>1 DEF FurthestAt
      <4>6. QED  BY <4>4, <4>5
    <3>12. QED  BY <3>2, <3>4, <3>9, <3>10, <3>11
  <2>8. QED  BY <2>6, <2>7
<1>4. QED  BY <1>2, <1>3

(* Equal lines cost nothing. *)
SameFrom(m, x, y, n) == \A i \in Nat : i < n => <<x + i + 1, y + i + 1>> \in m

LEMMA AlongEqualLines ==
    ASSUME NEW m, NEW x \in Nat, NEW y \in Nat, NEW n \in Nat, SameFrom(m, x, y, n)
    PROVE  Fewest(m, x + n, y + n) = Fewest(m, x, y)
<1> DEFINE T == {i \in Nat : i <= n => Fewest(m, x + i, y + i) = Fewest(m, x, y)}
<1>1. 0 \in T
  OBVIOUS
<1>2. ASSUME NEW i \in T PROVE i + 1 \in T
  <2>1. i \in Nat /\ (i <= n => Fewest(m, x + i, y + i) = Fewest(m, x, y))
    OBVIOUS
  <2>2. ASSUME i + 1 <= n PROVE Fewest(m, x + (i + 1), y + (i + 1)) = Fewest(m, x, y)
    <3>1. i < n /\ i <= n
      BY <2>1, <2>2
    <3>2. PICK u \in Nat, w \in Nat : u = x + i /\ w = y + i
      BY <2>1
    <3>3. <<u + 1, w + 1>> \in m
      BY <2>1, <3>1, <3>2 DEF SameFrom
    <3>4. Fewest(m, u + 1, w + 1) = Fewest(m, u, w)
      BY <3>3, FewestIs
    <3>5. u + 1 = x + (i + 1) /\ w + 1 = y + (i + 1)
      BY <2>1, <3>2
    <3>6. QED  BY <2>1, <3>1, <3>2, <3>4, <3>5
  <2>3. QED  BY <2>1, <2>2
<1>3. T \in SUBSET Nat
  OBVIOUS
<1> HIDE DEF T
<1>4. T = Nat
  BY <1>1, <1>2, <1>3, Counting
<1>5. n \in T
  BY <1>4
<1>6. QED  BY <1>5 DEF T

(* So where equal lines stop carrying on is the furthest on the diagonal.  *)
LEMMA StartAndSnakeIsFurthest ==
    ASSUME NEW m, NEW v, NEW d \in Nat, NEW k \in Diagonals(d),
           Furthest(m, v, d - 1), d = 0 => v[1] = 0,
           NEW x \in Nat, NEW y \in Nat, x = Start(v, d, k), y = x - k,
           NEW n \in Nat, SameFrom(m, x, y, n),
           <<x + n + 1, y + n + 1>> \notin m
    PROVE  FurthestAt(m, x + n, k, d)
<1>1. k \in Int /\ -d <= k /\ k <= d /\ d - 1 \in Int /\ \E q \in Int : k + d = 2 * q
  BY DiagonalsAre
<1>2. /\ Fewest(m, x, y) <= d
      /\ k - 1 \in Diagonals(d - 1) => v[k - 1] + 1 <= x
      /\ k + 1 \in Diagonals(d - 1) => v[k + 1] <= x
  BY StartIs
<1>3. Fewest(m, x + n, y + n) = Fewest(m, x, y)
  BY AlongEqualLines
<1>4. PICK w \in Nat, z \in Nat : w = x + n /\ z = y + n
  OBVIOUS
<1>5. w - k = z /\ <<w + 1, z + 1>> \notin m /\ Fewest(m, w, z) <= d /\ x <= w
  BY <1>1, <1>2, <1>3, <1>4
<1>6. ASSUME NEW u \in Nat, NEW t \in Nat, u - t = k, Fewest(m, u, t) <= d, ~(u <= w)
      PROVE  FALSE
  <2>1. PICK i \in Nat : u = (w + 1) + i /\ t = (z + 1) + i
    <3>1. u - (w + 1) \in Nat /\ u = (w + 1) + (u - (w + 1)) /\ t = (z + 1) + (u - (w + 1))
      BY <1>1, <1>5, <1>6
    <3>2. QED  BY <3>1
  <2>2. Fewest(m, w + 1, z + 1) <= Fewest(m, u, t)
    <3>1. PICK p \in Nat, r \in Nat : p = w + 1 /\ r = z + 1
      OBVIOUS
    <3>2. Fewest(m, p, r) <= Fewest(m, p + i, r + i)
      BY MoreOfBoth
    <3>3. QED  BY <2>1, <3>1, <3>2
  <2>3. /\ Fewest(m, w + 1, z + 1) \in Nat /\ Fewest(m, u, t) \in Nat
        /\ Fewest(m, w, z + 1) \in Nat /\ Fewest(m, w + 1, z) \in Nat
    BY FewestIsNat
  <2>4. Fewest(m, w + 1, z + 1) <= d
    BY <1>6, <2>2, <2>3
  <2>5. \/ Fewest(m, w + 1, z + 1) = 1 + Fewest(m, w, z + 1)
        \/ Fewest(m, w + 1, z + 1) = 1 + Fewest(m, w + 1, z)
    BY <1>5, OneMoreOfBoth
  <2>6. CASE Fewest(m, w + 1, z + 1) = 1 + Fewest(m, w, z + 1)
    <3>1. Fewest(m, w, z + 1) <= d - 1
      BY <2>3, <2>4, <2>6
    <3>2. w - (z + 1) <= Fewest(m, w, z + 1) /\ (z + 1) - w <= Fewest(m, w, z + 1)
      BY FewestBounds
    <3>3. w - (z + 1) = k - 1
      BY <1>1, <1>5
    <3>4. k - 1 \in Diagonals(d - 1)
      <4>1. k - 1 \in Int /\ -(d - 1) <= k - 1 /\ k - 1 <= d - 1
        BY <1>1, <2>3, <3>1, <3>2, <3>3
      <4>2. \E q \in Int : (k - 1) + (d - 1) = 2 * q
        <5>1. PICK q \in Int : k + d = 2 * q
          BY <1>1
        <5>2. (k - 1) + (d - 1) = 2 * (q - 1) /\ q - 1 \in Int
          BY <1>1, <5>1
        <5>3. QED  BY <5>2
      <4>3. QED  BY <1>1, <4>1, <4>2, DiagonalsAre
    <3>5. FurthestAt(m, v[k - 1], k - 1, d - 1)
      BY <3>4 DEF Furthest
    <3>6. w <= v[k - 1] /\ v[k - 1] \in Nat
      BY <3>1, <3>3, <3>5 DEF FurthestAt
    <3>7. QED  BY <1>2, <1>5, <3>4, <3>6
  <2>7. CASE Fewest(m, w + 1, z + 1) = 1 + Fewest(m, w + 1, z)
    <3>1. Fewest(m, w + 1, z) <= d - 1
      BY <2>3, <2>4, <2>7
    <3>2. (w + 1) - z <= Fewest(m, w + 1, z) /\ z - (w + 1) <= Fewest(m, w + 1, z)
      BY FewestBounds
    <3>3. (w + 1) - z = k + 1
      BY <1>1, <1>5
    <3>4. k + 1 \in Diagonals(d - 1)
      <4>1. k + 1 \in Int /\ -(d - 1) <= k + 1 /\ k + 1 <= d - 1
        BY <1>1, <2>3, <3>1, <3>2, <3>3
      <4>2. \E q \in Int : (k + 1) + (d - 1) = 2 * q
        <5>1. PICK q \in Int : k + d = 2 * q
          BY <1>1
        <5>2. (k + 1) + (d - 1) = 2 * q
          BY <1>1, <5>1
        <5>3. QED  BY <5>2
      <4>3. QED  BY <1>1, <4>1, <4>2, DiagonalsAre
    <3>5. FurthestAt(m, v[k + 1], k + 1, d - 1)
      BY <3>4 DEF Furthest
    <3>6. w + 1 <= v[k + 1] /\ v[k + 1] \in Nat
      BY <3>1, <3>3, <3>5 DEF FurthestAt
    <3>7. QED  BY <1>2, <1>5, <3>4, <3>6
  <2>8. QED  BY <2>5, <2>6, <2>7
<1>7. \A u, t \in Nat : u - t = k /\ Fewest(m, u, t) <= d => u <= w
  BY <1>6
<1>8. QED  BY <1>4, <1>5, <1>7 DEF FurthestAt

-----------------------------------------------------------------------------
(* A path of d edits to a diagonal has one of d - 1 to a diagonal beside.  *)
LEMMA PreviousIs ==
    ASSUME NEW v, NEW d \in Nat, d # 0, NEW k \in Diagonals(d)
    PROVE  /\ Previous(v, d, k) \in Diagonals(d - 1)
           /\ Previous(v, d, k) = k - 1 \/ Previous(v, d, k) = k + 1
<1>1. k \in Int /\ -d <= k /\ k <= d /\ d - 1 \in Int
  BY DiagonalsAre
<1>2. PICK q \in Int : k + d = 2 * q
  BY DiagonalsAre
<1>3. CASE Previous(v, d, k) = k + 1
  <2>1. k # d
    BY <1>1, <1>3 DEF Previous
  <2>2. k + 1 \in Int /\ -(d - 1) <= k + 1 /\ k + 1 <= d - 1 /\ (k + 1) + (d - 1) = 2 * q
    BY <1>1, <1>2, <2>1
  <2>3. k + 1 \in Diagonals(d - 1)
    BY <1>1, <1>2, <2>2, DiagonalsAre
  <2>4. QED  BY <1>3, <2>3
<1>4. CASE Previous(v, d, k) # k + 1
  <2>1. k # -d /\ Previous(v, d, k) = k - 1
    BY <1>4 DEF Previous
  <2>2. /\ k - 1 \in Int /\ -(d - 1) <= k - 1 /\ k - 1 <= d - 1
        /\ (k - 1) + (d - 1) = 2 * (q - 1) /\ q - 1 \in Int
    BY <1>1, <1>2, <2>1
  <2>3. k - 1 \in Diagonals(d - 1)
    BY <1>1, <2>2, DiagonalsAre
  <2>4. QED  BY <2>1, <2>3
<1>5. QED  BY <1>3, <1>4

LEMMA FurthestIsOne ==
    ASSUME NEW m, NEW e \in Int, NEW k \in Int, NEW x, NEW y,
           FurthestAt(m, x, k, e), FurthestAt(m, y, k, e)
    PROVE  x = y
<1>1. x \in Nat /\ y \in Nat /\ x - k \in Nat /\ y - k \in Nat
  BY DEF FurthestAt
<1>2. x - (x - k) = k /\ y - (y - k) = k
  BY <1>1
<1>3. Fewest(m, x, x - k) <= e /\ Fewest(m, y, y - k) <= e
  BY DEF FurthestAt
<1>4. x <= y
  BY <1>1, <1>2, <1>3 DEF FurthestAt
<1>5. y <= x
  BY <1>1, <1>2, <1>3 DEF FurthestAt
<1>6. QED  BY <1>1, <1>4, <1>5

(* The search has come to the end of both texts when it has made as many   *)
(* edits as they are apart, and not before; the end is then the furthest   *)
(* on its diagonal.                                                        *)
LEMMA EndReached ==
    ASSUME NEW na \in Nat, NEW nb \in Nat, NEW m \in SUBSET ((1..na) \X (1..nb)),
           NEW w, NEW d \in Nat, Furthest(m, w, d), Fewest(m, na, nb) >= d
    PROVE  /\ (\E k \in Diagonals(d) : w[k] >= na /\ w[k] - k >= nb) <=> Fewest(m, na, nb) = d
           /\ Fewest(m, na, nb) = d =>
                 na - nb \in Diagonals(d) /\ FurthestAt(m, na, na - nb, d)
<1>1. /\ Fewest(m, na, nb) \in Nat /\ na - nb <= Fewest(m, na, nb) /\ nb - na <= Fewest(m, na, nb)
      /\ \E q \in Int : Fewest(m, na, nb) = na + nb - 2 * q
  BY FewestBounds
<1>2. ASSUME NEW k \in Diagonals(d), w[k] >= na, w[k] - k >= nb
      PROVE  Fewest(m, na, nb) = d
  <2>1. k \in Int
    BY DiagonalsAre
  <2>2. w[k] \in Nat /\ w[k] - k \in Nat /\ Fewest(m, w[k], w[k] - k) <= d
    BY DEF Furthest, FurthestAt
  <2>3. PICK i \in Nat, j \in Nat : w[k] = na + i /\ w[k] - k = nb + j
    <3>1. PICK x \in Nat, y \in Nat : x = w[k] /\ y = w[k] - k
      BY <2>2
    <3>2. x - na \in Nat /\ y - nb \in Nat /\ x = na + (x - na) /\ y = nb + (y - nb)
      BY <1>2, <3>1
    <3>3. QED  BY <3>1, <3>2
  <2>4. Fewest(m, na + i, nb + j) = Fewest(m, na, nb) + i + j
    BY PastTheEnd
  <2>5. Fewest(m, na + i, nb + j) <= d
    BY <2>2, <2>3
  <2>6. QED  BY <1>1, <2>4, <2>5
<1>3. ASSUME Fewest(m, na, nb) = d
      PROVE  /\ na - nb \in Diagonals(d) /\ FurthestAt(m, na, na - nb, d)
             /\ w[na - nb] >= na /\ w[na - nb] - (na - nb) >= nb
  <2>1. PICK q \in Int : d = na + nb - 2 * q
    BY <1>1, <1>3
  <2>2. /\ na - nb \in Int /\ -d <= na - nb /\ na - nb <= d
        /\ (na - nb) + d = 2 * (na - q) /\ na - q \in Int
    BY <1>1, <1>3, <2>1
  <2>3. PICK k \in Int : k = na - nb
    BY <2>2
  <2>4. k \in Diagonals(d)
    <3>1. -d <= k /\ k <= d /\ k + d = 2 * (na - q) /\ na - q \in Int
      BY <2>2, <2>3
    <3>2. \E r \in Int : k + d = 2 * r
      BY <3>1
    <3>3. d \in Int
      OBVIOUS
    <3>4. QED  BY <2>3, <3>1, <3>2, <3>3, DiagonalsAre
  <2>5. FurthestAt(m, w[k], k, d)
    BY <2>4 DEF Furthest
  <2>6. w[k] \in Nat /\ na <= w[k]
    BY <1>3, <2>3, <2>5 DEF FurthestAt
  <2>7. ASSUME NEW u \in Nat, NEW t \in Nat, u - t = na - nb, Fewest(m, u, t) <= d, ~(u <= na)
        PROVE  FALSE
    <3>1. PICK i \in Nat : u = na + i /\ t = nb + i /\ i # 0
      <4>1. u - na \in Nat /\ u = na + (u - na) /\ t = nb + (u - na) /\ u - na # 0
        BY <2>7
      <4>2. QED  BY <4>1
    <3>2. Fewest(m, na + i, nb + i) = Fewest(m, na, nb) + i + i
      BY PastTheEnd
    <3>3. Fewest(m, na + i, nb + i) <= d
      BY <2>7, <3>1
    <3>4. QED  BY <1>3, <3>1, <3>2, <3>3
  <2>8. na - (na - nb) = nb
    OBVIOUS
  <2>9. \A u, t \in Nat : u - t = na - nb /\ Fewest(m, u, t) <= d => u <= na
    BY <2>7
  <2>10. FurthestAt(m, na, na - nb, d)
    BY <1>1, <1>3, <2>8, <2>9 DEF FurthestAt
  <2>11. QED  BY <2>3, <2>4, <2>6, <2>10
<1>4. QED  BY <1>2, <1>3

(* Where the search comes to on a diagonal, from an array of the edits     *)
(* before, is the furthest, past equal lines.                              *)
Came(v, d, k) == Start(v, d, k) + Snake(Start(v, d, k), Start(v, d, k) - k)
LEMMA CameIsFurthest ==
    ASSUME NEW S, search.a \in Seq(S), search.b \in Seq(S), NEW m, m = Matches(search.a, search.b),
           NEW v, NEW d \in Nat, NEW k \in Diagonals(d),
           Furthest(m, v, d - 1), d = 0 => v[1] = 0
    PROVE  /\ FurthestAt(m, Came(v, d, k), k, d)
           /\ \E n \in Nat : /\ Came(v, d, k) = Start(v, d, k) + n
                             /\ SameFrom(m, Start(v, d, k), Start(v, d, k) - k, n)
<1>1. PICK x \in Nat, y \in Nat : x = Start(v, d, k) /\ y = Start(v, d, k) - k
  BY StartIs
<1>2. PICK n \in Nat : n = Snake(x, y)
  BY SnakeIs
<1>3. /\ \A i \in Nat : i < n => <<x + i + 1, y + i + 1>> \in m
      /\ <<x + n + 1, y + n + 1>> \notin m
  BY <1>2, SnakeIs, Zenon
<1>4. SameFrom(m, x, y, n)
  BY <1>3, Zenon DEF SameFrom
<1>5. y = x - k
  BY <1>1
<1>6. FurthestAt(m, x + n, k, d)
  BY <1>1, <1>3, <1>4, <1>5, StartAndSnakeIsFurthest
<1>7. Came(v, d, k) = x + n
  BY <1>1, <1>2, Zenon DEF Came
<1>8. QED  BY <1>1, <1>4, <1>6, <1>7, Zenon

(* Walking back from the furthest place of d edits comes to the furthest   *)
(* of d - 1, past pairs of equal lines.                                    *)
Back(v, d, x, y) ==
    LET k == Previous(v, d, x - y) IN IF d = 0 THEN <<0, 0>> ELSE <<v[k], v[k] - k>>
StepBack(m, v, d, x, y, p, r, n) ==
    /\ Back(v, d, x, y) = <<p, r>> /\ Shorter(x - p, y - r) = n
    /\ p + n <= x /\ r + n <= y
    /\ \A i \in 1..n : <<(x - n) + i, (y - n) + i>> \in m
    /\ d = 0 => x = n /\ y = n /\ p = 0 /\ r = 0
    /\ d # 0 => /\ x + y = p + r + 2 * n + 1
                /\ p - r \in Diagonals(d - 1) /\ FurthestAt(m, p, p - r, d - 1)
LEMMA WalkedBack ==
    ASSUME NEW S, search.a \in Seq(S), search.b \in Seq(S), NEW m, m = Matches(search.a, search.b),
           NEW v, NEW d \in Nat, Furthest(m, v, d - 1), d = 0 => v[1] = 0,
           NEW x \in Nat, NEW y \in Nat, x - y \in Diagonals(d), FurthestAt(m, x, x - y, d)
    PROVE  \E p \in Nat, r \in Nat, n \in Nat : StepBack(m, v, d, x, y, p, r, n)
<1>1. PICK k \in Diagonals(d) : k = x - y
  OBVIOUS
<1>2. k \in Int /\ d \in Int /\ -d <= k /\ k <= d /\ d - 1 \in Int
  BY DiagonalsAre
<1>3. PICK s \in Nat, t \in Nat : s = Start(v, d, k) /\ t = s - k
  BY StartIs
<1>4. PICK n \in Nat : Came(v, d, k) = s + n /\ SameFrom(m, s, t, n)
  BY <1>3, CameIsFurthest
<1>5. FurthestAt(m, s + n, k, d)
  <2>1. FurthestAt(m, Came(v, d, k), k, d)
    BY CameIsFurthest
  <2>2. QED  BY <1>4, <2>1
<1>6. x = s + n
  BY <1>1, <1>2, <1>5, FurthestIsOne
<1>7. y = t + n
  <2>1. y = x - k
    BY <1>1, <1>2
  <2>2. QED  BY <1>2, <1>3, <1>6, <2>1
<1>8. ASSUME NEW i \in 1..n PROVE <<(x - n) + i, (y - n) + i>> \in m
  <2>1. PICK j \in Nat : i = j + 1 /\ j < n
    <3>1. i - 1 \in Nat /\ i = (i - 1) + 1 /\ i - 1 < n
      OBVIOUS
    <3>2. QED  BY <3>1
  <2>2. <<s + j + 1, t + j + 1>> \in m
    BY <1>4, <2>1 DEF SameFrom
  <2>3. (x - n) + i = s + j + 1 /\ (y - n) + i = t + j + 1
    BY <1>6, <1>7, <2>1
  <2>4. QED  BY <2>2, <2>3
<1>9. CASE d = 0
  <2>1. k = 0 /\ k = -d
    BY <1>2, <1>9
  <2>2. Previous(v, d, k) = k + 1 /\ k + 1 = 1
    BY <2>1 DEF Previous
  <2>3. s = 0
    BY <1>3, <1>9, <2>2 DEF Start
  <2>4. t = 0 /\ x = n /\ y = n
    BY <1>3, <1>6, <1>7, <2>1, <2>3
  <2>5. Back(v, d, x, y) = <<0, 0>>
    BY <1>9 DEF Back
  <2>6. Shorter(x - 0, y - 0) = n
    BY <2>4 DEF Shorter
  <2>7. 0 + n <= x /\ 0 + n <= y /\ d = 0
    BY <1>9, <2>4
  <2>8. QED  BY <1>8, <2>4, <2>5, <2>6, <2>7 DEF StepBack
<1>10. CASE d # 0
  <2>1. PICK l \in Diagonals(d - 1) : l = Previous(v, d, k)
    BY <1>10, PreviousIs
  <2>2. l = k - 1 \/ l = k + 1
    BY <1>10, <2>1, PreviousIs
  <2>3. FurthestAt(m, v[l], l, d - 1) /\ l \in Int
    BY <1>2, DiagonalsAre DEF Furthest
  <2>4. PICK p \in Nat, r \in Nat : p = v[l] /\ r = v[l] - l
    BY <2>3 DEF FurthestAt
  <2>5. Back(v, d, x, y) = <<p, r>>
    BY <1>1, <1>10, <2>1, <2>4 DEF Back
  <2>6. p - r = l
    BY <2>3, <2>4
  <2>7. FurthestAt(m, p, p - r, d - 1) /\ p - r \in Diagonals(d - 1)
    BY <2>3, <2>4, <2>6
  <2>8. s = IF l = k + 1 THEN p ELSE p + 1
    BY <1>3, <2>1, <2>4 DEF Start
  <2>9. r = p - l
    BY <2>4
  <2>10. /\ Shorter(x - p, y - r) = n /\ p + n <= x /\ r + n <= y
         /\ x + y = p + r + 2 * n + 1
    <3>1. CASE l = k + 1
      <4>1. s = p /\ t = r + 1
        BY <1>2, <1>3, <2>8, <2>9, <3>1
      <4>2. x - p = n /\ y - r = n + 1
        BY <1>6, <1>7, <4>1
      <4>3. Shorter(x - p, y - r) = n
        BY <4>2 DEF Shorter
      <4>4. QED  BY <1>6, <1>7, <4>1, <4>3
    <3>2. CASE l = k - 1
      <4>1. s = p + 1 /\ t = r
        BY <1>2, <1>3, <2>8, <2>9, <3>2
      <4>2. x - p = n + 1 /\ y - r = n
        BY <1>6, <1>7, <4>1
      <4>3. Shorter(x - p, y - r) = n
        BY <4>2 DEF Shorter
      <4>4. QED  BY <1>6, <1>7, <4>1, <4>3
    <3>3. QED  BY <2>2, <3>1, <3>2
  <2>11. StepBack(m, v, d, x, y, p, r, n)
    BY <1>8, <1>10, <2>5, <2>7, <2>10 DEF StepBack
  <2>12. QED  BY <2>11
<1>11. QED  BY <1>9, <1>10

-----------------------------------------------------------------------------
(* Pairs in common which are all before a place, or all after it.          *)
Within(c, x, y) == \A i \in 1..Len(c) : c[i][1] <= x /\ c[i][2] <= y
After(c, x, y) == \A i \in 1..Len(c) : c[i][1] > x /\ c[i][2] > y
Run(x, y, n) == [i \in 1..n |-> <<x + i, y + i>>]

Joined(e, c, d) == e = c \o d
LEMMA JoinedInCommon ==
    ASSUME NEW a, NEW b, NEW c, NEW d, NEW x \in Nat, NEW y \in Nat,
           InCommon(a, b, c), InCommon(a, b, d), Within(c, x, y), After(d, x, y),
           NEW e, Joined(e, c, d)
    PROVE  /\ InCommon(a, b, e) /\ Len(e) = Len(c) + Len(d)
           /\ \A u, v \in Nat : u <= x /\ v <= y /\ After(c, u, v) => After(e, u, v)
           /\ \A u, v \in Nat : x <= u /\ y <= v /\ Within(d, u, v) => Within(e, u, v)
<1>1. c \in Seq(Nat \X Nat) /\ d \in Seq(Nat \X Nat)
  BY DEF InCommon
<1>2. PICK m \in Nat, n \in Nat : m = Len(c) /\ n = Len(d)
  BY <1>1
<1>3. e = c \o d
  BY DEF Joined
<1>4. e \in Seq(Nat \X Nat) /\ Len(e) = m + n
  BY <1>1, <1>2, <1>3, ConcatProperties
<1>5. \A i \in 1..m : e[i] = c[i]
  BY <1>1, <1>2, <1>3, ConcatProperties
<1>6. \A i \in (m + 1)..(m + n) : e[i] = d[i - m] /\ i - m \in 1..n
  <2>1. \A i \in 1..(m + n) : i > m => e[i] = d[i - m]
    BY <1>1, <1>2, <1>3, ConcatProperties
  <2>2. ASSUME NEW i \in (m + 1)..(m + n) PROVE i \in 1..(m + n) /\ i > m /\ i - m \in 1..n
    BY <1>2
  <2>3. QED  BY <2>1, <2>2
<1>7. \A i \in 1..(m + n) : i \in 1..m \/ i \in (m + 1)..(m + n)
  BY <1>2
<1>8. /\ \A i \in 1..m : c[i] \in Nat \X Nat /\ c[i] \in Matches(a, b) /\ c[i][1] <= x /\ c[i][2] <= y
      /\ \A i \in 1..n : d[i] \in Nat \X Nat /\ d[i] \in Matches(a, b) /\ d[i][1] > x /\ d[i][2] > y
  BY <1>1, <1>2 DEF InCommon, Within, After
<1>9. /\ \A i, j \in 1..m : j = i + 1 => c[i][1] < c[j][1] /\ c[i][2] < c[j][2]
      /\ \A i, j \in 1..n : j = i + 1 => d[i][1] < d[j][1] /\ d[i][2] < d[j][2]
  BY <1>2 DEF InCommon
<1>10. ASSUME NEW i \in 1..(m + n) PROVE e[i] \in Matches(a, b)
  BY <1>5, <1>6, <1>7, <1>8
<1>11. ASSUME NEW i \in 1..(m + n), NEW j \in 1..(m + n), j = i + 1
       PROVE  e[i][1] < e[j][1] /\ e[i][2] < e[j][2]
  <2>1. CASE j \in 1..m
    <3>1. i \in 1..m
      BY <1>2, <1>11, <2>1
    <3>2. QED  BY <1>5, <1>9, <1>11, <2>1, <3>1
  <2>2. CASE i \in (m + 1)..(m + n)
    <3>1. j \in (m + 1)..(m + n)
      BY <1>2, <1>11, <2>2
    <3>2. PICK k \in 1..n, l \in 1..n : k = i - m /\ l = j - m
      BY <1>6, <2>2, <3>1
    <3>3. l = k + 1
      BY <1>2, <1>11, <3>2
    <3>4. d[k][1] < d[l][1] /\ d[k][2] < d[l][2]
      BY <1>9, <3>3
    <3>5. e[i] = d[k] /\ e[j] = d[l]
      BY <1>6, <2>2, <3>1, <3>2
    <3>6. QED  BY <3>4, <3>5
  <2>3. CASE i \in 1..m /\ j \in (m + 1)..(m + n)
    <3>1. PICK k \in 1..n : k = j - m
      BY <1>6, <2>3
    <3>2. e[i] = c[i] /\ e[j] = d[k]
      BY <1>5, <1>6, <2>3, <3>1
    <3>3. c[i] \in Nat \X Nat /\ c[i][1] <= x /\ c[i][2] <= y
      BY <1>8, <2>3
    <3>4. d[k] \in Nat \X Nat /\ d[k][1] > x /\ d[k][2] > y
      BY <1>8
    <3>5. PICK c1 \in Nat, c2 \in Nat, d1 \in Nat, d2 \in Nat :
              c1 = c[i][1] /\ c2 = c[i][2] /\ d1 = d[k][1] /\ d2 = d[k][2]
      BY <3>3, <3>4
    <3>6. c1 < d1 /\ c2 < d2
      BY <3>3, <3>4, <3>5
    <3>7. QED  BY <3>2, <3>5, <3>6
  <2>4. QED  BY <1>7, <2>1, <2>2, <2>3
<1>12. InCommon(a, b, e)
  BY <1>4, <1>10, <1>11 DEF InCommon
<1>13. ASSUME NEW u \in Nat, NEW v \in Nat, u <= x, v <= y, After(c, u, v) PROVE After(e, u, v)
  <2>1. ASSUME NEW i \in 1..(m + n) PROVE e[i][1] > u /\ e[i][2] > v
    <3>1. CASE i \in 1..m
      BY <1>2, <1>5, <1>13, <3>1 DEF After
    <3>2. CASE i \in (m + 1)..(m + n)
      <4>1. PICK k \in 1..n : k = i - m /\ e[i] = d[k]
        BY <1>6, <3>2
      <4>2. d[k] \in Nat \X Nat /\ d[k][1] > x /\ d[k][2] > y
        BY <1>8
      <4>3. PICK d1 \in Nat, d2 \in Nat : d1 = d[k][1] /\ d2 = d[k][2]
        BY <4>2
      <4>4. d1 > u /\ d2 > v
        BY <1>13, <4>2, <4>3
      <4>5. QED  BY <4>1, <4>3, <4>4
    <3>3. QED  BY <1>7, <3>1, <3>2
  <2>2. QED  BY <1>4, <2>1 DEF After
<1>14. ASSUME NEW u \in Nat, NEW v \in Nat, x <= u, y <= v, Within(d, u, v) PROVE Within(e, u, v)
  <2>1. ASSUME NEW i \in 1..(m + n) PROVE e[i][1] <= u /\ e[i][2] <= v
    <3>1. CASE i \in (m + 1)..(m + n)
      BY <1>2, <1>6, <1>14, <3>1 DEF Within
    <3>2. CASE i \in 1..m
      <4>1. c[i] \in Nat \X Nat /\ c[i][1] <= x /\ c[i][2] <= y /\ e[i] = c[i]
        BY <1>5, <1>8, <3>2
      <4>2. PICK d1 \in Nat, d2 \in Nat : d1 = c[i][1] /\ d2 = c[i][2]
        BY <4>1
      <4>3. d1 <= u /\ d2 <= v
        BY <1>14, <4>1, <4>2
      <4>4. QED  BY <4>1, <4>2, <4>3
    <3>3. QED  BY <1>7, <3>1, <3>2
  <2>2. QED  BY <1>4, <2>1 DEF Within
<1>15. QED  BY <1>2, <1>3, <1>4, <1>12, <1>13, <1>14, Zenon

SameRun(a, b, x, y, n) == \A i \in 1..n : <<x + i, y + i>> \in Matches(a, b)
LEMMA RunIs ==
    ASSUME NEW a, NEW b, NEW x \in Nat, NEW y \in Nat, NEW n \in Nat,
           SameRun(a, b, x, y, n), NEW c, c = Run(x, y, n)
    PROVE  /\ InCommon(a, b, c) /\ Len(c) = n
           /\ After(c, x, y) /\ Within(c, x + n, y + n)
<1>1. c = [i \in 1..n |-> <<x + i, y + i>>]
  BY DEF Run
<1>2. \A i \in 1..n : <<x + i, y + i>> \in Nat \X Nat
  OBVIOUS
<1>3. c \in [1..n -> Nat \X Nat]
  BY <1>1, <1>2
<1>4. c \in Seq(Nat \X Nat) /\ Len(c) = n
  BY <1>3
<1>5. ASSUME NEW i \in 1..n
      PROVE  /\ c[i] \in Matches(a, b)
             /\ c[i][1] = x + i /\ c[i][2] = y + i
  <2>1. c[i] = <<x + i, y + i>>
    BY <1>1
  <2>2. QED  BY <2>1 DEF SameRun
<1>6. \A i, j \in 1..n : j = i + 1 => c[i][1] < c[j][1] /\ c[i][2] < c[j][2]
  BY <1>5
<1>7. InCommon(a, b, c)
  BY <1>4, <1>5, <1>6 DEF InCommon
<1>8. After(c, x, y) /\ Within(c, x + n, y + n)
  <2>1. \A i \in 1..n : x + i > x /\ y + i > y /\ x + i <= x + n /\ y + i <= y + n
    OBVIOUS
  <2>2. \A i \in 1..n : c[i][1] > x /\ c[i][2] > y /\ c[i][1] <= x + n /\ c[i][2] <= y + n
    BY <1>5, <2>1
  <2>3. QED  BY <1>4, <2>2 DEF After, Within
<1>9. QED  BY <1>4, <1>7, <1>8

(* Pairs of the middles of two texts are pairs of the texts.               *)
Shifted(c, p) == [i \in DOMAIN c |-> <<c[i][1] + p, c[i][2] + p>>]
LEMMA ShiftedInCommon ==
    ASSUME NEW S, NEW a \in Seq(S), NEW b \in Seq(S), NEW p \in Nat, NEW s \in Nat,
           p + s <= Len(a), p + s <= Len(b),
           NEW c, InCommon(SubSeq(a, p + 1, Len(a) - s), SubSeq(b, p + 1, Len(b) - s), c)
    PROVE  /\ InCommon(a, b, Shifted(c, p)) /\ Len(Shifted(c, p)) = Len(c)
           /\ After(Shifted(c, p), p, p) /\ Within(Shifted(c, p), Len(a) - s, Len(b) - s)
<1>1. PICK na \in Nat, nb \in Nat : na = Len(a) /\ nb = Len(b)
  OBVIOUS
<1>2. PICK k, l : k = SubSeq(a, p + 1, na - s) /\ l = SubSeq(b, p + 1, nb - s)
  OBVIOUS
<1>3. /\ Len(k) = na - s - p /\ Len(l) = nb - s - p
      /\ \A i \in 1..(na - s - p) : k[i] = a[p + i]
      /\ \A i \in 1..(nb - s - p) : l[i] = b[p + i]
  <2>1. p + 1 \in Int /\ na - s \in Int /\ nb - s \in Int /\ p + s <= na /\ p + s <= nb
    BY <1>1
  <2>2. /\ \A i \in (p + 1)..(na - s) : a[i] \in S
        /\ \A i \in (p + 1)..(nb - s) : b[i] \in S
    BY <1>1
  <2>3. PICK m \in Int, u \in Int, w \in Int : m = p + 1 /\ u = na - s /\ w = nb - s
    BY <2>1
  <2>4. /\ Len(SubSeq(a, m, u)) = IF m <= u THEN u - m + 1 ELSE 0
        /\ \A i \in 1..(u - m + 1) : SubSeq(a, m, u)[i] = a[m + i - 1]
    BY <2>2, <2>3, SubSeqProperties
  <2>5. /\ Len(SubSeq(b, m, w)) = IF m <= w THEN w - m + 1 ELSE 0
        /\ \A i \in 1..(w - m + 1) : SubSeq(b, m, w)[i] = b[m + i - 1]
    BY <2>2, <2>3, SubSeqProperties
  <2>6. k = SubSeq(a, m, u) /\ l = SubSeq(b, m, w)
    BY <1>2, <2>3
  <2>7. /\ u - m + 1 = na - s - p /\ w - m + 1 = nb - s - p
        /\ ~(m <= u) => na - s - p = 0
        /\ ~(m <= w) => nb - s - p = 0
    BY <2>1, <2>3
  <2>8. Len(k) = na - s - p /\ Len(l) = nb - s - p
    BY <2>4, <2>5, <2>6, <2>7
  <2>9. \A i \in 1..(na - s - p) : k[i] = a[p + i]
    <3>1. \A i \in 1..(na - s - p) : k[i] = a[m + i - 1]
      BY <2>4, <2>6, <2>7
    <3>2. \A i \in 1..(na - s - p) : m + i - 1 = p + i
      BY <2>3
    <3>3. QED  BY <3>1, <3>2
  <2>10. \A i \in 1..(nb - s - p) : l[i] = b[p + i]
    <3>1. \A i \in 1..(nb - s - p) : l[i] = b[m + i - 1]
      BY <2>5, <2>6, <2>7
    <3>2. \A i \in 1..(nb - s - p) : m + i - 1 = p + i
      BY <2>3
    <3>3. QED  BY <3>1, <3>2
  <2>11. QED  BY <2>8, <2>9, <2>10
<1>4. InCommon(k, l, c)
  BY <1>1, <1>2
<1>5. c \in Seq(Nat \X Nat)
  BY <1>4 DEF InCommon
<1>6. PICK n \in Nat : n = Len(c) /\ DOMAIN c = 1..n
  BY <1>5
<1> DEFINE d == Shifted(c, p)
<1>7. d = [i \in 1..n |-> <<c[i][1] + p, c[i][2] + p>>]
  BY <1>6, Zenon DEF Shifted
<1>8. \A i \in 1..n : c[i] \in Nat \X Nat
  BY <1>5, <1>6
<1>9. \A i \in 1..n : <<c[i][1] + p, c[i][2] + p>> \in Nat \X Nat
  BY <1>8
<1> HIDE DEF d
<1>10. d \in [1..n -> Nat \X Nat]
  BY <1>7, <1>9
<1>11. d \in Seq(Nat \X Nat) /\ Len(d) = n
  BY <1>10
<1>12. ASSUME NEW i \in 1..n
       PROVE  /\ d[i][1] = c[i][1] + p /\ d[i][2] = c[i][2] + p
              /\ c[i][1] \in 1..(na - s - p) /\ c[i][2] \in 1..(nb - s - p)
              /\ d[i] \in Matches(a, b)
  <2>1. d[i] = <<c[i][1] + p, c[i][2] + p>>
    BY <1>7
  <2>2. c[i] \in Matches(k, l)
    BY <1>4, <1>6 DEF InCommon
  <2>3. c[i][1] \in 1..(na - s - p) /\ c[i][2] \in 1..(nb - s - p) /\ k[c[i][1]] = l[c[i][2]]
    BY <1>3, <2>2 DEF Matches
  <2>4. PICK u \in 1..(na - s - p), v \in 1..(nb - s - p) : u = c[i][1] /\ v = c[i][2] /\ k[u] = l[v]
    BY <2>3
  <2>5. a[p + u] = b[p + v]
    BY <1>3, <2>4
  <2>6. u + p \in 1..na /\ v + p \in 1..nb /\ p + u = u + p /\ p + v = v + p
    OBVIOUS
  <2>7. <<u + p, v + p>> \in Matches(a, b)
    BY <1>1, <2>5, <2>6 DEF Matches
  <2>8. QED  BY <2>1, <2>3, <2>4, <2>7
<1>13. \A i \in 1..n : c[i][1] \in Nat /\ c[i][2] \in Nat
  BY <1>8
<1>14. \A i, j \in 1..n : j = i + 1 => c[i][1] < c[j][1] /\ c[i][2] < c[j][2]
  BY <1>4, <1>6 DEF InCommon
<1>15. \A i, j \in 1..n : j = i + 1 => d[i][1] < d[j][1] /\ d[i][2] < d[j][2]
  <2>1. SUFFICES ASSUME NEW i \in 1..n, NEW j \in 1..n, j = i + 1
                 PROVE  d[i][1] < d[j][1] /\ d[i][2] < d[j][2]
    OBVIOUS
  <2>2. PICK i1 \in Nat, i2 \in Nat, j1 \in Nat, j2 \in Nat :
            i1 = c[i][1] /\ i2 = c[i][2] /\ j1 = c[j][1] /\ j2 = c[j][2]
    BY <1>13
  <2>3. i1 < j1 /\ i2 < j2
    BY <1>14, <2>1, <2>2
  <2>4. d[i][1] = i1 + p /\ d[i][2] = i2 + p /\ d[j][1] = j1 + p /\ d[j][2] = j2 + p
    BY <1>12, <2>2
  <2>5. QED  BY <2>3, <2>4
<1>16. InCommon(a, b, d)
  BY <1>11, <1>12, <1>15 DEF InCommon
<1>17. ASSUME NEW i \in 1..n
       PROVE  d[i][1] > p /\ d[i][2] > p /\ d[i][1] <= na - s /\ d[i][2] <= nb - s
  <2>1. PICK u \in 1..(na - s - p), v \in 1..(nb - s - p) : u + p = d[i][1] /\ v + p = d[i][2]
    BY <1>12
  <2>2. u + p > p /\ v + p > p /\ u + p <= na - s /\ v + p <= nb - s
    OBVIOUS
  <2>3. QED  BY <2>1, <2>2
<1>18. After(d, p, p) /\ Within(d, na - s, nb - s)
  BY <1>11, <1>17 DEF After, Within
<1>19. QED  BY <1>1, <1>6, <1>11, <1>16, <1>18 DEF d

-----------------------------------------------------------------------------
(* The middles k and l of two texts which are the same at the ends.        *)
Trimmed(a, b, p, s, k, l) ==
    /\ p \in Nat /\ s \in Nat /\ p + s <= Len(a) /\ p + s <= Len(b)
    /\ k = SubSeq(a, p + 1, Len(a) - s) /\ l = SubSeq(b, p + 1, Len(b) - s)
    /\ \A i \in 1..p : a[i] = b[i]
    /\ \A i \in 1..s : a[(Len(a) - s) + i] = b[(Len(b) - s) + i]

LEMMA MiddleIs ==
    ASSUME NEW S, NEW a \in Seq(S), NEW na \in Nat, na = Len(a),
           NEW p \in Nat, NEW s \in Nat, p + s <= na,
           NEW k, k = SubSeq(a, p + 1, na - s)
    PROVE  k \in Seq(S) /\ Len(k) = na - s - p /\ \A i \in 1..(na - s - p) : k[i] = a[p + i]
<1>1. p + 1 \in Int /\ na - s \in Int
  OBVIOUS
<1>2. PICK m \in Int, u \in Int : m = p + 1 /\ u = na - s
  BY <1>1
<1>3. \A i \in m..u : a[i] \in S
  BY <1>2
<1>4. k = SubSeq(a, m, u)
  BY <1>2
<1>5. /\ k \in Seq(S)
      /\ Len(k) = IF m <= u THEN u - m + 1 ELSE 0
      /\ \A i \in 1..(u - m + 1) : k[i] = a[m + i - 1]
  <2>1. /\ SubSeq(a, m, u) \in Seq(S)
        /\ Len(SubSeq(a, m, u)) = IF m <= u THEN u - m + 1 ELSE 0
        /\ \A i \in 1..(u - m + 1) : SubSeq(a, m, u)[i] = a[m + i - 1]
    BY <1>3, SubSeqProperties
  <2>2. QED  BY <1>4, <2>1, Zenon
<1>6. u - m + 1 = na - s - p /\ (~(m <= u) => na - s - p = 0)
  BY <1>2
<1>7. \A i \in 1..(na - s - p) : m + i - 1 = p + i
  BY <1>2
<1>8. Len(k) = na - s - p
  BY <1>5, <1>6
<1>9. \A i \in 1..(na - s - p) : k[i] = a[p + i]
  BY <1>5, <1>6, <1>7
<1>10. QED  BY <1>5, <1>8, <1>9

LEMMA TrimmedIs ==
    ASSUME NEW S, NEW a \in Seq(S), NEW b \in Seq(S), NEW p, NEW s, NEW k, NEW l,
           Trimmed(a, b, p, s, k, l)
    PROVE  /\ p \in Nat /\ s \in Nat
           /\ k \in Seq(S) /\ l \in Seq(S)
           /\ Len(k) = Len(a) - s - p /\ Len(l) = Len(b) - s - p
           /\ \A i \in 1..p : <<i, i>> \in Matches(a, b)
           /\ \A i \in 1..s : <<(Len(a) - s) + i, (Len(b) - s) + i>> \in Matches(a, b)
           /\ Distance(a, b) = Fewest(Matches(k, l), Len(k), Len(l))
<1>1. PICK na \in Nat, nb \in Nat : na = Len(a) /\ nb = Len(b)
  OBVIOUS
<1>2. p \in Nat /\ s \in Nat /\ p + s <= na /\ p + s <= nb
  BY <1>1 DEF Trimmed
<1>3. k = SubSeq(a, p + 1, na - s) /\ l = SubSeq(b, p + 1, nb - s)
  BY <1>1, Zenon DEF Trimmed
<1>4. /\ \A i \in 1..p : a[i] = b[i]
      /\ \A i \in 1..s : a[(na - s) + i] = b[(nb - s) + i]
  BY <1>1, Zenon DEF Trimmed
<1>5. k \in Seq(S) /\ Len(k) = na - s - p /\ \A i \in 1..(na - s - p) : k[i] = a[p + i]
  BY <1>1, <1>2, <1>3, MiddleIs
<1>6. l \in Seq(S) /\ Len(l) = nb - s - p /\ \A i \in 1..(nb - s - p) : l[i] = b[p + i]
  BY <1>1, <1>2, <1>3, MiddleIs
<1>7. PICK ka \in Nat, kb \in Nat : ka = na - s - p /\ kb = nb - s - p
  <2>1. na - s - p \in Nat /\ nb - s - p \in Nat
    BY <1>2
  <2>2. QED  BY <2>1
<1> DEFINE m == Matches(a, b)
<1>8. m = {pair \in (1..na) \X (1..nb) : a[pair[1]] = b[pair[2]]}
  BY <1>1 DEF Matches
<1>9. Matches(k, l) = {pair \in (1..ka) \X (1..kb) : k[pair[1]] = l[pair[2]]}
  BY <1>5, <1>6, <1>7 DEF Matches
<1> HIDE DEF m
<1>10. ASSUME NEW x \in 1..ka, NEW y \in 1..kb
       PROVE  <<x, y>> \in Matches(k, l) <=> <<p + x, p + y>> \in m
  <2>1. k[x] = a[p + x] /\ l[y] = b[p + y]
    BY <1>5, <1>6, <1>7
  <2>2. p + x \in 1..na /\ p + y \in 1..nb
    BY <1>2, <1>7
  <2>3. <<p + x, p + y>> \in m <=> a[p + x] = b[p + y]
    BY <1>8, <2>2
  <2>4. <<x, y>> \in Matches(k, l) <=> k[x] = l[y]
    BY <1>9
  <2>5. QED  BY <2>1, <2>3, <2>4
<1>11. ASSUME NEW i \in 1..p PROVE <<i, i>> \in m
  <2>1. i \in 1..na /\ i \in 1..nb
    BY <1>2
  <2>2. a[i] = b[i]
    BY <1>4
  <2>3. QED  BY <1>8, <2>1, <2>2
<1>12. ASSUME NEW i \in 1..s PROVE <<(na - s) + i, (nb - s) + i>> \in m
  <2>1. (na - s) + i \in 1..na /\ (nb - s) + i \in 1..nb
    BY <1>2
  <2>2. a[(na - s) + i] = b[(nb - s) + i]
    BY <1>4
  <2>3. QED  BY <1>8, <2>1, <2>2
<1>13. \A i \in 1..s : <<p + ka + i, p + kb + i>> \in m
  <2>1. \A i \in 1..s : p + ka + i = (na - s) + i /\ p + kb + i = (nb - s) + i
    BY <1>2, <1>7
  <2>2. QED  BY <1>12, <2>1
<1>14. Fewest(m, p + ka + s, p + kb + s) = Fewest(Matches(k, l), ka, kb)
  <2>1. PICK n : n = Matches(k, l)
    OBVIOUS
  <2>2. \A x \in 1..ka, y \in 1..kb : <<x, y>> \in n <=> <<p + x, p + y>> \in m
    BY <1>10, <2>1
  <2>3. EndsMatch(m, n, ka, kb, p, s)
    BY <1>11, <1>13, <2>2 DEF EndsMatch
  <2>4. Fewest(m, p + ka + s, p + kb + s) = Fewest(n, ka, kb)
    BY <1>2, <2>3, SameAtTheEnds
  <2>5. QED  BY <2>1, <2>4
<1>15. p + ka + s = na /\ p + kb + s = nb
  BY <1>2, <1>7
<1>16. Distance(a, b) = Fewest(m, na, nb)
  BY <1>1, DistanceIs DEF m
<1>17. Distance(a, b) = Fewest(Matches(k, l), ka, kb)
  BY <1>14, <1>15, <1>16, Zenon
<1>18. /\ \A i \in 1..p : <<i, i>> \in Matches(a, b)
       /\ \A i \in 1..s : <<(na - s) + i, (nb - s) + i>> \in Matches(a, b)
  BY <1>11, <1>12 DEF m
<1>19. QED  BY <1>1, <1>2, <1>5, <1>6, <1>7, <1>17, <1>18, Zenon

(* What the search found and what the ends share is in common.             *)
LEMMA CommonIs ==
    ASSUME NEW S, sides.a \in Seq(S), sides.b \in Seq(S),
           Trimmed(sides.a, sides.b, search.prefix, search.suffix, search.a, search.b),
           InCommon(search.a, search.b, search.pairs)
    PROVE  /\ InCommon(sides.a, sides.b, Common)
           /\ Len(Common) = search.prefix + Len(search.pairs) + search.suffix
<1>1. PICK a \in Seq(S), b \in Seq(S), c \in {search.pairs} : a = sides.a /\ b = sides.b /\ c = search.pairs
  OBVIOUS
<1>2. PICK p, s, k, l : p = search.prefix /\ s = search.suffix /\ k = search.a /\ l = search.b
  OBVIOUS
<1>3. Trimmed(a, b, p, s, k, l) /\ InCommon(k, l, c)
  BY <1>1, <1>2
<1>4. PICK na \in Nat, nb \in Nat : na = Len(a) /\ nb = Len(b)
  OBVIOUS
<1>5. /\ p \in Nat /\ s \in Nat /\ p + s <= na /\ p + s <= nb
      /\ k = SubSeq(a, p + 1, na - s) /\ l = SubSeq(b, p + 1, nb - s)
  BY <1>3, <1>4, Zenon DEF Trimmed
<1>6. /\ \A i \in 1..p : <<i, i>> \in Matches(a, b)
      /\ \A i \in 1..s : <<(na - s) + i, (nb - s) + i>> \in Matches(a, b)
  BY <1>3, <1>4, TrimmedIs, Zenon
<1> DEFINE first == Run(0, 0, p)
           middle == Shifted(c, p)
           last == Run(na - s, nb - s, s)
<1>7. na - s \in Nat /\ nb - s \in Nat /\ p <= na - s /\ p <= nb - s /\ 0 + p = p
  BY <1>5
<1>8. Common = (first \o middle) \o last
  <2>1. [i \in 1..p |-> <<i, i>>] = first
    <3>1. \A i \in 1..p : <<i, i>> = <<0 + i, 0 + i>>
      OBVIOUS
    <3>2. QED  BY <3>1 DEF Run
  <2>2. [i \in DOMAIN c |-> <<c[i][1] + p, c[i][2] + p>>] = middle
    BY Zenon DEF Shifted
  <2>3. [i \in 1..s |-> <<na - s + i, nb - s + i>>] = last
    BY Zenon DEF Run
  <2> HIDE DEF first, middle, last
  <2>4. Common = ([i \in 1..p |-> <<i, i>>] \o [i \in DOMAIN c |-> <<c[i][1] + p, c[i][2] + p>>])
                    \o [i \in 1..s |-> <<na - s + i, nb - s + i>>]
    BY <1>1, <1>2, <1>4, Zenon DEF Common
  <2>5. QED  BY <2>1, <2>2, <2>3, <2>4, Zenon
<1>9. InCommon(a, b, first) /\ Len(first) = p /\ Within(first, p, p)
  <2>1. \A i \in 1..p : <<0 + i, 0 + i>> \in Matches(a, b)
    <3>1. \A i \in 1..p : 0 + i = i
      OBVIOUS
    <3>2. QED  BY <1>6, <3>1
  <2>2. SameRun(a, b, 0, 0, p)
    BY <2>1 DEF SameRun
  <2>3. PICK d : d = Run(0, 0, p)
    OBVIOUS
  <2>4. InCommon(a, b, d) /\ Len(d) = p /\ Within(d, 0 + p, 0 + p)
    BY <1>5, <2>2, <2>3, RunIs
  <2>5. QED  BY <1>7, <2>3, <2>4
<1>10. InCommon(a, b, last) /\ Len(last) = s /\ After(last, na - s, nb - s)
  <2>1. PICK x \in Nat, y \in Nat : x = na - s /\ y = nb - s
    BY <1>7
  <2>2. \A i \in 1..s : <<x + i, y + i>> \in Matches(a, b)
    BY <1>6, <2>1
  <2>3. SameRun(a, b, x, y, s)
    BY <2>2 DEF SameRun
  <2>4. PICK d : d = Run(x, y, s)
    OBVIOUS
  <2>5. InCommon(a, b, d) /\ Len(d) = s /\ After(d, x, y)
    BY <1>5, <2>3, <2>4, RunIs
  <2>6. QED  BY <2>1, <2>4, <2>5
<1>11. /\ InCommon(a, b, middle) /\ Len(middle) = Len(c)
       /\ After(middle, p, p) /\ Within(middle, na - s, nb - s)
  <2>1. p + s <= Len(a) /\ p + s <= Len(b)
    BY <1>4, <1>5
  <2>2. InCommon(SubSeq(a, p + 1, Len(a) - s), SubSeq(b, p + 1, Len(b) - s), c)
    BY <1>3, <1>4, <1>5, Zenon
  <2>3. /\ InCommon(a, b, Shifted(c, p)) /\ Len(Shifted(c, p)) = Len(c)
        /\ After(Shifted(c, p), p, p) /\ Within(Shifted(c, p), Len(a) - s, Len(b) - s)
    BY <1>5, <2>1, <2>2, ShiftedInCommon
  <2>4. QED  BY <1>4, <2>3, Zenon
<1> HIDE DEF first, middle, last
<1>12. PICK x \in Nat, y \in Nat : x = na - s /\ y = nb - s /\ p <= x /\ p <= y
  BY <1>7
<1>13. PICK d : d = first \o middle
  OBVIOUS
<1>14. PICK e : e = d \o last
  OBVIOUS
<1>15. InCommon(a, b, d) /\ Len(d) = Len(first) + Len(middle) /\ Within(d, x, y)
  <2>1. Within(middle, x, y)
    BY <1>11, <1>12
  <2>2. Joined(d, first, middle)
    BY <1>13 DEF Joined
  <2>3. QED  BY <1>5, <1>9, <1>11, <1>12, <2>1, <2>2, JoinedInCommon
<1>16. InCommon(a, b, e) /\ Len(e) = Len(d) + Len(last)
  <2>1. After(last, x, y)
    BY <1>10, <1>12
  <2>2. Joined(e, d, last)
    BY <1>14 DEF Joined
  <2>3. QED  BY <1>10, <1>15, <2>1, <2>2, JoinedInCommon
<1>17. InCommon(a, b, Common) /\ Len(Common) = (Len(first) + Len(middle)) + Len(last)
  BY <1>8, <1>13, <1>14, <1>15, <1>16, Zenon
<1>18. QED  BY <1>1, <1>2, <1>9, <1>10, <1>11, <1>17, Zenon

(* The least numbers Trim finds are such ends.                             *)
LEMMA TrimIs ==
    ASSUME NEW S, NEW a \in Seq(S), NEW b \in Seq(S), NEW n, n = Shorter(Len(a), Len(b)),
           NEW p, p = Least({i \in 0..n : i = n \/ a[i + 1] # b[i + 1]}),
           NEW s, s = Least({i \in 0..(n - p) : i = n - p \/ a[Len(a) - i] # b[Len(b) - i]})
    PROVE  Trimmed(a, b, p, s, SubSeq(a, p + 1, Len(a) - s), SubSeq(b, p + 1, Len(b) - s))
<1>1. PICK na \in Nat, nb \in Nat : na = Len(a) /\ nb = Len(b)
  OBVIOUS
<1>2. n \in Nat /\ n <= na /\ n <= nb
  BY <1>1 DEF Shorter
<1> DEFINE ps == {i \in 0..n : i = n \/ a[i + 1] # b[i + 1]}
<1>3. ps \in SUBSET Nat /\ n \in ps
  BY <1>2
<1>4. p \in ps /\ \A i \in ps : p <= i
  <2> HIDE DEF ps
  <2>1. Least(ps) \in ps /\ \A i \in ps : Least(ps) <= i
    BY <1>3, LeastIs
  <2>2. p = Least(ps)
    BY DEF ps
  <2>3. QED  BY <2>1, <2>2
<1>5. p \in Nat /\ p <= n
  BY <1>2, <1>4
<1>6. ASSUME NEW i \in 1..p PROVE a[i] = b[i]
  <2>1. PICK j \in Nat : j = i - 1 /\ j < p /\ j \in 0..n /\ j # n /\ j + 1 = i
    <3>1. i - 1 \in Nat /\ i - 1 < p /\ i - 1 \in 0..n /\ i - 1 # n /\ (i - 1) + 1 = i
      BY <1>2, <1>5
    <3>2. QED  BY <3>1
  <2>2. j \notin ps
    <3> HIDE DEF ps
    <3>1. ~(p <= j)
      BY <1>5, <2>1
    <3>2. QED  BY <1>4, <3>1
  <2>3. ~(a[j + 1] # b[j + 1])
    BY <2>1, <2>2
  <2>4. QED  BY <2>1, <2>3
<1> HIDE DEF ps
<1>7. PICK r \in Nat : r = n - p
  <2>1. n - p \in Nat
    BY <1>2, <1>5
  <2>2. QED  BY <2>1
<1> DEFINE ss == {i \in 0..r : i = r \/ a[na - i] # b[nb - i]}
<1>8. ss \in SUBSET Nat /\ r \in ss
  OBVIOUS
<1>9. s \in ss /\ \A i \in ss : s <= i
  <2>1. s = Least(ss)
    BY <1>1, <1>7, Zenon
  <2> HIDE DEF ss
  <2>2. Least(ss) \in ss /\ \A i \in ss : Least(ss) <= i
    BY <1>8, LeastIs
  <2>3. QED  BY <2>1, <2>2
<1>10. s \in Nat /\ s <= r
  BY <1>9
<1>11. ASSUME NEW i \in 1..s PROVE a[(na - s) + i] = b[(nb - s) + i]
  <2>1. PICK j \in Nat : j = s - i /\ j < s /\ j \in 0..r /\ j # r
    <3>1. s - i \in Nat /\ s - i < s /\ s - i \in 0..r /\ s - i # r
      BY <1>10
    <3>2. QED  BY <3>1
  <2>2. j \notin ss
    <3> HIDE DEF ss
    <3>1. ~(s <= j)
      BY <1>10, <2>1
    <3>2. QED  BY <1>9, <3>1
  <2>3. ~(a[na - j] # b[nb - j])
    BY <2>1, <2>2
  <2>4. na - j = (na - s) + i /\ nb - j = (nb - s) + i
    BY <1>10, <2>1
  <2>5. QED  BY <2>3, <2>4
<1>12. p + s <= na /\ p + s <= nb
  BY <1>2, <1>5, <1>7, <1>10
<1>13. QED  BY <1>1, <1>5, <1>6, <1>10, <1>11, <1>12, Zenon DEF Trimmed

-----------------------------------------------------------------------------
(* The invariant.  The texts are trimmed at both ends; until the search    *)
(* ends they are further apart than the edits it has made, and what it     *)
(* keeps of every depth is as far as that many edits reach.  The walk back *)
(* is at the furthest place of the edits left to it, and has gone by as    *)
(* many pairs as leave no more lines than those edits.                     *)
DiagonalRange == -MaxDiffDepth..MaxDiffDepth
Shape(w) ==
    w \in [stage : {"search", "back", "script", "hunks", "compared"},
           prefix : Nat, suffix : Nat, a : Seq(Line), b : Seq(Line),
           v : [DiagonalRange -> Int], trace : Seq([DiagonalRange -> Int]),
           at : Nat \X Nat, pairs : Seq(Nat \X Nat)]
Far(w) == Fewest(Matches(w.a, w.b), Len(w.a), Len(w.b))
Traced(m, trace) ==
    \A i \in 1..Len(trace) : Furthest(m, trace[i], i - 2) /\ (i = 1 => trace[i][1] = 0)
Searching(w) ==
    /\ Traced(Matches(w.a, w.b), w.trace)
    /\ Furthest(Matches(w.a, w.b), w.v, Len(w.trace) - 1)
    /\ Len(w.trace) = 0 => w.v[1] = 0
    /\ Len(w.trace) <= Far(w) /\ Len(w.trace) <= Depth(Len(w.a) + Len(w.b))
    /\ w.at = <<Len(w.a), Len(w.b)>> /\ w.pairs = <<>>
WalkingBack(w) ==
    /\ Traced(Matches(w.a, w.b), w.trace) /\ Len(w.trace) # 0
    /\ w.at[1] - w.at[2] \in Diagonals(Len(w.trace) - 1)
    /\ FurthestAt(Matches(w.a, w.b), w.at[1], w.at[1] - w.at[2], Len(w.trace) - 1)
    /\ InCommon(w.a, w.b, w.pairs) /\ After(w.pairs, w.at[1], w.at[2])
    /\ (Len(w.a) - w.at[1]) + (Len(w.b) - w.at[2]) - 2 * Len(w.pairs)
          = Far(w) - (Len(w.trace) - 1)
HasFound(w) ==
    /\ InCommon(w.a, w.b, w.pairs)
    /\ Far(w) <= MaxDiffDepth => Len(w.a) + Len(w.b) - 2 * Len(w.pairs) = Far(w)
Shortest(g, script) ==
    /\ script \in Seq(Edits)
    /\ Texted(script, InOld) = g.a
    /\ Texted(script, InNew) = g.b
    /\ Distance(g.a, g.b) <= MaxDiffDepth =>
          Len(Texted(script, Changed)) = Distance(g.a, g.b)
Progress(g, w, script) ==
    w.stage # "trim" =>
        /\ Shape(w) /\ Trimmed(g.a, g.b, w.prefix, w.suffix, w.a, w.b)
        /\ w.stage = "search" => Searching(w)
        /\ w.stage = "back" => WalkingBack(w)
        /\ w.stage = "script" => HasFound(w)
        /\ w.stage \in {"hunks", "compared"} => Shortest(g, script)
Comparing ==
    /\ sides.a \in Seq(Line) /\ sides.b \in Seq(Line)
    /\ diff = [script |-> diff.script, hunks |-> diff.hunks]
    /\ Progress(sides, search, diff.script)

LEMMA ComparingInit == ASSUME DiffInit PROVE Comparing
<1>1. search.stage = "trim"
  BY DEF DiffInit
<1>2. sides.a \in Texts /\ sides.b \in Texts
  BY DEF DiffInit
<1>3. Texts \subseteq Seq(Line)
  BY DEF Texts
<1>4. diff = [script |-> diff.script, hunks |-> diff.hunks]
  BY DEF DiffInit
<1>5. QED  BY <1>1, <1>2, <1>3, <1>4 DEF Comparing, Progress

LEMMA NoDiagonals == Diagonals(-1) = {}
<1>1. \A k \in Diagonals(-1) : k \in Int /\ -(-1) <= k /\ k <= -1
  BY DiagonalsAre
<1>2. QED  BY <1>1

LEMMA TrimKeeps ==
    ASSUME DiffConstants, Comparing, Trim
    PROVE  Comparing'
<1> DEFINE n == Shorter(Len(sides.a), Len(sides.b))
           p == Least({i \in 0..n : i = n \/ sides.a[i + 1] # sides.b[i + 1]})
           s == Least({i \in 0..(n - p) : i = n - p \/ sides.a[Len(sides.a) - i] # sides.b[Len(sides.b) - i]})
<1>1. PICK a \in Seq(Line), b \in Seq(Line) : a = sides.a /\ b = sides.b
  BY DEF Comparing
<1>2. PICK k, l : k = SubSeq(sides.a, p + 1, Len(sides.a) - s) /\ l = SubSeq(sides.b, p + 1, Len(sides.b) - s)
  OBVIOUS
<1>3. search' = [stage |-> IF k = <<>> \/ l = <<>> THEN "script" ELSE "search",
               prefix |-> p, suffix |-> s, a |-> k, b |-> l,
               v |-> [j \in -MaxDiffDepth..MaxDiffDepth |-> 0],
               trace |-> <<>>, at |-> <<Len(k), Len(l)>>, pairs |-> <<>>]
  BY <1>2, Zenon DEF Trim
<1>4. Trimmed(a, b, p, s, SubSeq(a, p + 1, Len(a) - s), SubSeq(b, p + 1, Len(b) - s))
  <2>1. PICK n0, p0, s0 : n0 = n /\ p0 = p /\ s0 = s
    OBVIOUS
  <2>2. n0 = Shorter(Len(a), Len(b))
    BY <1>1, <2>1, Zenon
  <2>3. p0 = Least({i \in 0..n0 : i = n0 \/ a[i + 1] # b[i + 1]})
    BY <1>1, <2>1, Zenon
  <2>4. s0 = Least({i \in 0..(n0 - p0) : i = n0 - p0 \/ a[Len(a) - i] # b[Len(b) - i]})
    BY <1>1, <2>1, Zenon
  <2> HIDE DEF n, p, s
  <2>5. Trimmed(a, b, p0, s0, SubSeq(a, p0 + 1, Len(a) - s0), SubSeq(b, p0 + 1, Len(b) - s0))
    BY <2>2, <2>3, <2>4, TrimIs
  <2>6. QED  BY <2>1, <2>5, Zenon
<1> HIDE DEF n, p, s
<1>5. Trimmed(a, b, p, s, k, l)
  BY <1>1, <1>2, <1>4, Zenon
<1>6. p \in Nat /\ s \in Nat /\ k \in Seq(Line) /\ l \in Seq(Line)
  BY <1>5, TrimmedIs
<1> DEFINE zeros == [j \in -MaxDiffDepth..MaxDiffDepth |-> 0]
<1>7. zeros \in [DiagonalRange -> Int] /\ zeros[1] = 0
  <2>1. 1 \in DiagonalRange
    BY DEF DiffConstants, DiagonalRange
  <2>2. QED  BY <2>1 DEF DiagonalRange
<1> HIDE DEF zeros
<1>8. PICK w : w = search'
  OBVIOUS
<1>9. /\ w.prefix = p /\ w.suffix = s /\ w.a = k /\ w.b = l /\ w.v = zeros
      /\ w.trace = <<>> /\ w.at = <<Len(k), Len(l)>> /\ w.pairs = <<>>
      /\ w.stage = IF k = <<>> \/ l = <<>> THEN "script" ELSE "search"
  BY <1>3, <1>8 DEF zeros
<1>10. PICK x \in Nat, y \in Nat : x = Len(k) /\ y = Len(l)
  BY <1>6
<1>11. Shape(w)
  <2>1. <<Len(k), Len(l)>> \in Nat \X Nat
    BY <1>10
  <2>2. PICK st \in {"search", "script"} : st = IF k = <<>> \/ l = <<>> THEN "script" ELSE "search"
    OBVIOUS
  <2>3. w = [stage |-> st, prefix |-> p, suffix |-> s, a |-> k, b |-> l, v |-> zeros,
             trace |-> <<>>, at |-> <<Len(k), Len(l)>>, pairs |-> <<>>]
    BY <1>3, <1>8, <2>2, Zenon DEF zeros
  <2>4. <<>> \in Seq([DiagonalRange -> Int]) /\ <<>> \in Seq(Nat \X Nat)
    OBVIOUS
  <2>5. QED  BY <1>6, <1>7, <2>1, <2>2, <2>3, <2>4 DEF Shape
<1>12. Far(w) = Fewest(Matches(k, l), x, y)
  BY <1>9, <1>10 DEF Far
<1>13. CASE k = <<>> \/ l = <<>>
  <2>1. x = 0 \/ y = 0
    BY <1>10, <1>13
  <2>2. Far(w) = x + y
    BY <1>12, <2>1, FewestFromNone
  <2>3. InCommon(k, l, <<>>) /\ Len(<<>>) = 0
    BY DEF InCommon
  <2>4. HasFound(w)
    BY <1>9, <1>10, <2>2, <2>3 DEF HasFound
  <2>5. w.stage = "script"
    BY <1>9, <1>13
  <2>6. Progress(sides', w, diff'.script)
    BY <1>1, <1>5, <1>9, <1>11, <2>4, <2>5 DEF Progress, Trim
  <2>7. QED  BY <1>8, <2>6 DEF Comparing, Trim
<1>14. CASE ~(k = <<>> \/ l = <<>>)
  <2>1. w.stage = "search"
    BY <1>9, <1>14
  <2>2. Len(w.trace) = 0
    BY <1>9
  <2>3. Traced(Matches(w.a, w.b), w.trace)
    BY <2>2 DEF Traced
  <2>4. Furthest(Matches(w.a, w.b), w.v, Len(w.trace) - 1)
    <3>1. Len(w.trace) - 1 = -1
      BY <2>2
    <3>2. QED  BY <3>1, NoDiagonals DEF Furthest
  <2>5. Far(w) \in Nat
    BY <1>12, FewestIsNat
  <2>6. 0 <= Depth(x + y)
    BY DEF Depth, Shorter, DiffConstants
  <2>7. Searching(w)
    BY <1>7, <1>9, <1>10, <2>2, <2>3, <2>4, <2>5, <2>6 DEF Searching
  <2>8. Progress(sides', w, diff'.script)
    BY <1>1, <1>5, <1>9, <1>11, <2>1, <2>7 DEF Progress, Trim
  <2>9. QED  BY <1>8, <2>8 DEF Comparing, Trim
<1>15. QED  BY <1>13, <1>14

(* The fields of the record a step leaves.                                 *)
LEMMA DeepenKeeps ==
    ASSUME DiffConstants, Comparing, Deepen
    PROVE  Comparing'
<1> DEFINE d == Len(search.trace)
           m == Matches(search.a, search.b)
           x == Len(search.a)
           y == Len(search.b)
           nv == [k \in DOMAIN search.v |-> IF k \in Diagonals(d) THEN Reach(d, k) ELSE search.v[k]]
           tr == Append(search.trace, search.v)
           ended == \E k \in Diagonals(d) : Reach(d, k) >= x /\ Reach(d, k) - k >= y
           st == CASE ended -> "back"
                   [] ~ended /\ d = Depth(x + y) -> "script"
                   [] OTHER -> "search"
<1>1. search.stage = "search" /\ UNCHANGED <<sides, diff>>
  BY DEF Deepen
<1>2. search' = [search EXCEPT !.trace = tr, !.v = nv, !.stage = st]
  BY Zenon DEF Deepen
<1>3. /\ Shape(search) /\ Searching(search)
      /\ Trimmed(sides.a, sides.b, search.prefix, search.suffix, search.a, search.b)
  BY <1>1 DEF Comparing, Progress
<1>4. /\ search.a \in Seq(Line) /\ search.b \in Seq(Line) /\ search.v \in [DiagonalRange -> Int]
      /\ search.trace \in Seq([DiagonalRange -> Int])
  BY <1>3 DEF Shape
<1>5. x \in Nat /\ y \in Nat /\ d \in Nat
  BY <1>4
<1>6. /\ Traced(m, search.trace) /\ Furthest(m, search.v, d - 1) /\ (d = 0 => search.v[1] = 0)
      /\ d <= Fewest(m, x, y) /\ d <= Depth(x + y) /\ search.at = <<x, y>> /\ search.pairs = <<>>
  BY <1>3 DEF Searching, Far
<1>7. Depth(x + y) <= MaxDiffDepth /\ Depth(x + y) \in Nat /\ Depth(x + y) \in {x + y, MaxDiffDepth}
  <2> HIDE DEF x, y
  <2>1. PICK z \in Nat : z = x + y
    BY <1>5
  <2>2. Depth(z) <= MaxDiffDepth /\ Depth(z) \in Nat /\ Depth(z) \in {z, MaxDiffDepth}
    BY DEF Depth, Shorter, DiffConstants
  <2>3. QED  BY <2>1, <2>2
<1>8. m \in SUBSET ((1..x) \X (1..y))
  BY DEF Matches
<1>9. ASSUME NEW k \in Diagonals(d)
      PROVE  FurthestAt(m, Reach(d, k), k, d) /\ k \in DiagonalRange
  <2>1. Reach(d, k) = Came(search.v, d, k)
    BY Zenon DEF Reach, Came, Start
  <2> HIDE DEF d, m
  <2>2. FurthestAt(m, Came(search.v, d, k), k, d)
    <3>1. m = Matches(search.a, search.b)
      BY DEF m
    <3>2. QED  BY <1>4, <1>5, <1>6, <3>1, CameIsFurthest
  <2>3. k \in Int /\ -d <= k /\ k <= d
    BY <1>5, DiagonalsAre
  <2>4. k \in DiagonalRange
    <3> HIDE DEF x, y
    <3>1. d <= MaxDiffDepth /\ MaxDiffDepth \in Nat
      BY <1>5, <1>6, <1>7 DEF DiffConstants
    <3>2. -MaxDiffDepth <= k /\ k <= MaxDiffDepth
      BY <1>5, <2>3, <3>1
    <3>3. QED  BY <2>3, <3>1, <3>2 DEF DiagonalRange
  <2>5. QED  BY <2>1, <2>2, <2>4
<1> HIDE DEF d, m, x, y
<1>10. DOMAIN search.v = DiagonalRange
  BY <1>4
<1>11. ASSUME NEW k \in DiagonalRange PROVE nv[k] = IF k \in Diagonals(d) THEN Reach(d, k) ELSE search.v[k]
  BY <1>10
<1>12. nv \in [DiagonalRange -> Int]
  <2>1. \A k \in Diagonals(d) : Reach(d, k) \in Int
    BY <1>9 DEF FurthestAt
  <2>2. QED  BY <1>4, <1>10, <2>1
<1>13. \A k \in Diagonals(d) : nv[k] = Reach(d, k)
  BY <1>9, <1>11
<1> HIDE DEF nv
<1>14. Furthest(m, nv, d)
  BY <1>9, <1>13 DEF Furthest
<1>15. ended <=> \E k \in Diagonals(d) : nv[k] >= x /\ nv[k] - k >= y
  BY <1>13
<1> HIDE DEF ended
<1>16. /\ ended <=> Fewest(m, x, y) = d
       /\ Fewest(m, x, y) = d => x - y \in Diagonals(d) /\ FurthestAt(m, x, x - y, d)
  <2>1. Fewest(m, x, y) \in Nat
    BY <1>5, FewestIsNat
  <2>2. Fewest(m, x, y) >= d
    BY <1>5, <1>6, <2>1
  <2>3. /\ (\E k \in Diagonals(d) : nv[k] >= x /\ nv[k] - k >= y) <=> Fewest(m, x, y) = d
        /\ Fewest(m, x, y) = d => x - y \in Diagonals(d) /\ FurthestAt(m, x, x - y, d)
    BY <1>5, <1>8, <1>14, <2>2, EndReached
  <2>4. QED  BY <1>15, <2>3
<1>17. /\ tr \in Seq([DiagonalRange -> Int]) /\ Len(tr) = d + 1 /\ tr[d + 1] = search.v
       /\ \A i \in 1..d : tr[i] = search.trace[i]
  BY <1>4, AppendProperties DEF d
<1> HIDE DEF tr
<1>18. Traced(m, tr)
  <2>1. SUFFICES ASSUME NEW i \in 1..Len(tr)
                 PROVE  Furthest(m, tr[i], i - 2) /\ (i = 1 => tr[i][1] = 0)
    BY DEF Traced
  <2>2. CASE i \in 1..d
    <3>1. i \in 1..Len(search.trace)
      BY <2>2 DEF d
    <3>2. QED  BY <1>6, <1>17, <2>2, <3>1 DEF Traced
  <2>3. CASE i \notin 1..d
    <3>1. i = d + 1 /\ i - 2 = d - 1 /\ (i = 1 => d = 0)
      BY <1>5, <1>17, <2>3
    <3>2. QED  BY <1>6, <1>17, <3>1
  <2>4. QED  BY <2>2, <2>3
<1>19. PICK w : w = search'
  OBVIOUS
<1>20. st \in {"back", "script", "search"}
  OBVIOUS
<1>21. /\ w.prefix = search.prefix /\ w.suffix = search.suffix /\ w.a = search.a /\ w.b = search.b
       /\ w.v = nv /\ w.trace = tr /\ w.at = search.at /\ w.pairs = search.pairs /\ w.stage = st
       /\ Shape(w)
  <2> HIDE DEF st
  <2>1. PICK s0 \in {"back", "script", "search"} : s0 = st
    BY <1>20
  <2>2. w = [search EXCEPT !.trace = tr, !.v = nv, !.stage = s0]
    BY <1>2, <1>19, <2>1
  <2>3. QED  BY <1>3, <1>12, <1>17, <2>1, <2>2 DEF Shape
<1>22. Far(w) = Fewest(m, x, y) /\ Matches(w.a, w.b) = m /\ Len(w.a) = x /\ Len(w.b) = y
  BY <1>21 DEF Far, m, x, y
<1>23. Fewest(m, x, y) \in Nat /\ Fewest(m, x, y) <= x + y
  BY <1>5, FewestBounds
<1>24. InCommon(w.a, w.b, w.pairs) /\ Len(w.pairs) = 0
  BY <1>6, <1>21 DEF InCommon
<1>25. ASSUME st = "back" PROVE WalkingBack(w)
  <2>1. ended
    BY <1>25
  <2>2. Fewest(m, x, y) = d /\ x - y \in Diagonals(d) /\ FurthestAt(m, x, x - y, d)
    BY <1>16, <2>1
  <2>3. w.at[1] = x /\ w.at[2] = y
    BY <1>6, <1>21
  <2>4. Len(w.trace) = d + 1 /\ Len(w.trace) # 0 /\ Len(w.trace) - 1 = d
    BY <1>5, <1>17, <1>21
  <2>5. After(w.pairs, w.at[1], w.at[2])
    BY <1>24 DEF After
  <2>6. (x - x) + (y - y) - 2 * 0 = d - d
    BY <1>5
  <2>7. /\ w.at[1] - w.at[2] \in Diagonals(Len(w.trace) - 1)
        /\ FurthestAt(Matches(w.a, w.b), w.at[1], w.at[1] - w.at[2], Len(w.trace) - 1)
    BY <1>22, <2>2, <2>3, <2>4
  <2>8. (Len(w.a) - w.at[1]) + (Len(w.b) - w.at[2]) - 2 * Len(w.pairs)
           = Far(w) - (Len(w.trace) - 1)
    BY <1>22, <1>24, <2>2, <2>3, <2>4, <2>6
  <2>9. Traced(Matches(w.a, w.b), w.trace)
    BY <1>18, <1>21, <1>22
  <2>10. QED  BY <1>24, <2>4, <2>5, <2>7, <2>8, <2>9 DEF WalkingBack
<1>26. ASSUME st = "script" PROVE HasFound(w)
  <2>1. ~ended /\ d = Depth(x + y)
    BY <1>26
  <2>2. Fewest(m, x, y) # d
    BY <1>16, <2>1
  <2>3. Fewest(m, x, y) > MaxDiffDepth
    BY <1>5, <1>6, <1>7, <1>23, <2>1, <2>2 DEF DiffConstants
  <2>4. ~(Far(w) <= MaxDiffDepth)
    BY <1>22, <1>23, <2>3 DEF DiffConstants
  <2>5. QED  BY <1>24, <2>4 DEF HasFound
<1>27. ASSUME st = "search" PROVE Searching(w)
  <2>1. ~ended /\ d # Depth(x + y)
    BY <1>27
  <2>2. Fewest(m, x, y) # d
    BY <1>16, <2>1
  <2>3. Len(w.trace) = d + 1
    BY <1>17, <1>21
  <2>4. Len(w.trace) <= Far(w) /\ Len(w.trace) <= Depth(Len(w.a) + Len(w.b))
    BY <1>5, <1>6, <1>7, <1>22, <1>23, <2>1, <2>2, <2>3
  <2>5. Furthest(Matches(w.a, w.b), w.v, Len(w.trace) - 1)
    BY <1>5, <1>14, <1>21, <1>22, <2>3
  <2>6. Traced(Matches(w.a, w.b), w.trace)
    BY <1>18, <1>21, <1>22
  <2>7. Len(w.trace) # 0
    BY <1>5, <2>3
  <2>8. w.at = <<Len(w.a), Len(w.b)>> /\ w.pairs = <<>>
    BY <1>6, <1>21, <1>22
  <2>9. QED  BY <2>4, <2>5, <2>6, <2>7, <2>8 DEF Searching
<1>28. Progress(sides', w, diff'.script)
  <2> HIDE DEF st
  <2>1. /\ w.stage = "search" => Searching(w)
        /\ w.stage = "back" => WalkingBack(w)
        /\ w.stage = "script" => HasFound(w)
        /\ w.stage \notin {"hunks", "compared"}
    BY <1>20, <1>21, <1>25, <1>26, <1>27
  <2>2. Trimmed(sides.a, sides.b, w.prefix, w.suffix, w.a, w.b)
    BY <1>3, <1>21
  <2>3. QED  BY <1>1, <1>21, <2>1, <2>2 DEF Progress
<1>29. QED  BY <1>1, <1>19, <1>28 DEF Comparing

(* The walk back goes by the pairs between two of the furthest places.     *)
LEMMA WalkBackKeeps ==
    ASSUME DiffConstants, Comparing, WalkBack
    PROVE  Comparing'
<1> DEFINE d == Len(search.trace) - 1
           v == search.trace[d + 1]
           came == Back(v, d, search.at[1], search.at[2])
           same == Shorter(search.at[1] - came[1], search.at[2] - came[2])
           m == Matches(search.a, search.b)
<1>1. search.stage = "back" /\ UNCHANGED <<sides, diff>>
  BY DEF WalkBack
<1>2. search' = [search EXCEPT
         !.pairs = [i \in 1..same |-> <<search.at[1] - same + i, search.at[2] - same + i>>] \o @,
         !.at = came, !.trace = SubSeq(@, 1, d), !.stage = IF d = 0 THEN "script" ELSE @]
  BY Zenon DEF WalkBack, Back
<1>3. /\ Shape(search) /\ WalkingBack(search)
      /\ Trimmed(sides.a, sides.b, search.prefix, search.suffix, search.a, search.b)
  BY <1>1 DEF Comparing, Progress
<1>4. /\ search.a \in Seq(Line) /\ search.b \in Seq(Line) /\ search.at \in Nat \X Nat
      /\ search.trace \in Seq([DiagonalRange -> Int])
  BY <1>3 DEF Shape
<1>5. Len(search.trace) \in Nat /\ Len(search.trace) # 0
  BY <1>3, <1>4 DEF WalkingBack
<1>6. d \in Nat /\ Len(search.trace) = d + 1 /\ d + 1 \in 1..Len(search.trace)
  BY <1>5
<1>7. PICK x \in Nat, y \in Nat : x = search.at[1] /\ y = search.at[2]
  BY <1>4
<1>8. /\ Traced(m, search.trace) /\ x - y \in Diagonals(d) /\ FurthestAt(m, x, x - y, d)
      /\ InCommon(search.a, search.b, search.pairs) /\ After(search.pairs, x, y)
      /\ (Len(search.a) - x) + (Len(search.b) - y) - 2 * Len(search.pairs) = Far(search) - d
  BY <1>3, <1>7 DEF WalkingBack
<1> HIDE DEF d, m, came, same
<1>9. Furthest(m, v, d - 1) /\ (d = 0 => v[1] = 0)
  <2>1. (d + 1) - 2 = d - 1 /\ (d = 0 => d + 1 = 1)
    BY <1>6
  <2>2. QED  BY <1>6, <1>8, <2>1 DEF Traced
<1> HIDE DEF v
<1>10. PICK p \in Nat, r \in Nat, n \in Nat : StepBack(m, v, d, x, y, p, r, n)
  <2>1. m = Matches(search.a, search.b)
    BY DEF m
  <2>2. QED  BY <1>4, <1>6, <1>8, <1>9, <2>1, WalkedBack
<1>11. came = <<p, r>> /\ same = n
  BY <1>7, <1>10 DEF came, same, StepBack
<1> DEFINE run == [i \in 1..same |-> <<search.at[1] - same + i, search.at[2] - same + i>>]
<1>12. PICK u \in Nat, t \in Nat : u = x - n /\ t = y - n /\ u + n = x /\ t + n = y /\ p <= u /\ r <= t
  <2>1. x - n \in Nat /\ y - n \in Nat /\ (x - n) + n = x /\ (y - n) + n = y /\ p <= x - n /\ r <= y - n
    BY <1>10 DEF StepBack
  <2>2. QED  BY <2>1
<1>13. run = Run(u, t, n)
  BY <1>7, <1>11, <1>12 DEF Run
<1>14. SameRun(search.a, search.b, u, t, n)
  BY <1>10, <1>12 DEF SameRun, m, StepBack
<1>15. PICK q : q = run
  OBVIOUS
<1>16. /\ InCommon(search.a, search.b, q) /\ Len(q) = n /\ After(q, u, t) /\ Within(q, x, y)
  <2>1. q = Run(u, t, n)
    BY <1>13, <1>15, Zenon
  <2> HIDE DEF run
  <2>2. InCommon(search.a, search.b, q) /\ Len(q) = n /\ After(q, u, t) /\ Within(q, u + n, t + n)
    BY <1>14, <2>1, RunIs
  <2>3. QED  BY <1>12, <2>2
<1>17. PICK e : e = q \o search.pairs
  OBVIOUS
<1>18. /\ InCommon(search.a, search.b, e) /\ Len(e) = n + Len(search.pairs) /\ After(e, u, t)
  <2>1. PICK c : c = search.pairs
    OBVIOUS
  <2>2. Joined(e, q, c)
    BY <1>17, <2>1 DEF Joined
  <2>3. InCommon(search.a, search.b, c) /\ After(c, x, y)
    BY <1>8, <2>1
  <2>4. /\ InCommon(search.a, search.b, e) /\ Len(e) = Len(q) + Len(c)
        /\ \A f, g \in Nat : f <= x /\ g <= y /\ After(q, f, g) => After(e, f, g)
    BY <1>16, <2>2, <2>3, JoinedInCommon
  <2>5. u <= x /\ t <= y
    BY <1>12
  <2>6. QED  BY <1>16, <2>1, <2>4, <2>5
<1>19. e \in Seq(Nat \X Nat)
  BY <1>18 DEF InCommon
<1>20. After(e, p, r)
  <2>1. SUFFICES ASSUME NEW i \in 1..Len(e) PROVE e[i][1] > p /\ e[i][2] > r
    BY DEF After
  <2>2. e[i] \in Nat \X Nat /\ e[i][1] > u /\ e[i][2] > t
    BY <1>18, <1>19 DEF After
  <2>3. PICK e1 \in Nat, e2 \in Nat : e1 = e[i][1] /\ e2 = e[i][2]
    BY <2>2
  <2>4. e1 > p /\ e2 > r
    BY <1>12, <2>2, <2>3
  <2>5. QED  BY <2>3, <2>4
<1>21. PICK tr : tr = SubSeq(search.trace, 1, d)
  OBVIOUS
<1>22. tr \in Seq([DiagonalRange -> Int]) /\ Len(tr) = d /\ \A i \in 1..d : tr[i] = search.trace[i]
  <2>1. PICK s0 \in Seq([DiagonalRange -> Int]) : s0 = search.trace
    BY <1>4
  <2>2. d <= Len(s0) /\ Len(s0) = d + 1
    BY <1>6, <2>1
  <2>3. \A i \in 1..d : s0[i] \in [DiagonalRange -> Int]
    BY <1>6, <2>2
  <2>4. /\ SubSeq(s0, 1, d) \in Seq([DiagonalRange -> Int])
        /\ Len(SubSeq(s0, 1, d)) = IF 1 <= d THEN d - 1 + 1 ELSE 0
        /\ \A i \in 1..(d - 1 + 1) : SubSeq(s0, 1, d)[i] = s0[1 + i - 1]
    <3>1. 1 \in Int /\ d \in Int
      BY <1>6
    <3>2. QED  BY <2>3, <3>1, SubSeqProperties
  <2>5. (IF 1 <= d THEN d - 1 + 1 ELSE 0) = d /\ d - 1 + 1 = d /\ \A i \in 1..d : 1 + i - 1 = i
    BY <1>6
  <2>6. tr = SubSeq(s0, 1, d)
    BY <1>21, <2>1
  <2>7. QED  BY <2>1, <2>4, <2>5, <2>6
<1>23. Traced(m, tr)
  <2>1. \A i \in 1..d : i \in 1..Len(search.trace)
    BY <1>6
  <2>2. QED  BY <1>8, <1>22, <2>1 DEF Traced
<1>24. PICK w : w = search'
  OBVIOUS
<1>25. /\ w.prefix = search.prefix /\ w.suffix = search.suffix /\ w.a = search.a /\ w.b = search.b
       /\ w.trace = tr /\ w.at = <<p, r>> /\ w.pairs = e
       /\ w.stage = (IF d = 0 THEN "script" ELSE "back")
       /\ Shape(w)
  <2>1. PICK s0 \in {"back", "script"} : s0 = IF d = 0 THEN "script" ELSE "back"
    OBVIOUS
  <2>2. search' = [search EXCEPT !.pairs = run \o search.pairs, !.at = came,
                             !.trace = SubSeq(search.trace, 1, d),
                             !.stage = IF d = 0 THEN "script" ELSE search.stage]
    BY <1>2, Zenon
  <2>3. (IF d = 0 THEN "script" ELSE search.stage) = s0
    BY <1>1, <2>1
  <2> HIDE DEF run
  <2>4. w = [search EXCEPT !.pairs = e, !.at = <<p, r>>, !.trace = tr, !.stage = s0]
    BY <1>11, <1>15, <1>17, <1>21, <1>24, <2>2, <2>3, Zenon
  <2>5. <<p, r>> \in Nat \X Nat
    OBVIOUS
  <2>6. QED  BY <1>3, <1>19, <1>22, <2>1, <2>4, <2>5 DEF Shape
<1> HIDE DEF run
<1>26. /\ Far(w) = Far(search) /\ Matches(w.a, w.b) = m /\ Len(w.a) = Len(search.a) /\ Len(w.b) = Len(search.b)
       /\ w.at[1] = p /\ w.at[2] = r /\ Len(w.pairs) = n + Len(search.pairs) /\ Len(w.trace) = d
  BY <1>18, <1>22, <1>25 DEF Far, m
<1>27. PICK f \in Nat, na \in Nat, nb \in Nat, c \in Nat :
          f = Far(search) /\ na = Len(search.a) /\ nb = Len(search.b) /\ c = Len(search.pairs)
  <2>1. Len(search.a) \in Nat /\ Len(search.b) \in Nat
    BY <1>4
  <2>2. Far(search) \in Nat
    BY <2>1, FewestIsNat DEF Far
  <2>3. Len(search.pairs) \in Nat
    BY <1>8 DEF InCommon
  <2>4. QED  BY <2>1, <2>2, <2>3
<1>28. (na - x) + (nb - y) - 2 * c = f - d
  BY <1>8, <1>27
<1>29. ASSUME d = 0 PROVE HasFound(w)
  <2>1. x = n /\ y = n
    BY <1>10, <1>29 DEF StepBack
  <2>2. na + nb - 2 * (n + c) = f
    BY <1>28, <1>29, <2>1
  <2>3. Len(w.a) + Len(w.b) - 2 * Len(w.pairs) = Far(w)
    BY <1>26, <1>27, <2>2
  <2>4. QED  BY <1>18, <1>25, <2>3 DEF HasFound
<1>30. ASSUME d # 0 PROVE WalkingBack(w)
  <2>1. /\ x + y = p + r + 2 * n + 1
        /\ p - r \in Diagonals(d - 1) /\ FurthestAt(m, p, p - r, d - 1)
    BY <1>10, <1>30 DEF StepBack
  <2>2. (na - p) + (nb - r) - 2 * (n + c) = f - (d - 1)
    BY <1>6, <1>28, <2>1
  <2>3. (Len(w.a) - w.at[1]) + (Len(w.b) - w.at[2]) - 2 * Len(w.pairs)
           = Far(w) - (Len(w.trace) - 1)
    BY <1>26, <1>27, <2>2
  <2>4. Len(w.trace) # 0
    BY <1>26, <1>30
  <2>5. InCommon(w.a, w.b, w.pairs) /\ After(w.pairs, w.at[1], w.at[2])
    BY <1>18, <1>20, <1>25, <1>26
  <2>6. Traced(Matches(w.a, w.b), w.trace)
    BY <1>23, <1>25, <1>26
  <2>7. /\ w.at[1] - w.at[2] \in Diagonals(Len(w.trace) - 1)
        /\ FurthestAt(Matches(w.a, w.b), w.at[1], w.at[1] - w.at[2], Len(w.trace) - 1)
    BY <1>26, <2>1
  <2>8. QED  BY <2>3, <2>4, <2>5, <2>6, <2>7 DEF WalkingBack
<1>31. Progress(sides', w, diff'.script)
  <2>1. /\ w.stage = "search" => Searching(w)
        /\ w.stage = "back" => WalkingBack(w)
        /\ w.stage = "script" => HasFound(w)
        /\ w.stage \notin {"hunks", "compared"}
    BY <1>25, <1>29, <1>30
  <2>2. Trimmed(sides.a, sides.b, w.prefix, w.suffix, w.a, w.b)
    BY <1>3, <1>25
  <2>3. QED  BY <1>1, <1>25, <2>1, <2>2 DEF Progress
<1>32. QED  BY <1>1, <1>24, <1>31 DEF Comparing

LEMMA ScriptKeeps ==
    ASSUME DiffConstants, Comparing, Script
    PROVE  Comparing'
<1>1. /\ search.stage = "script" /\ sides' = sides
      /\ diff' = [diff EXCEPT !.script = EditScript(Common)]
      /\ search' = [search EXCEPT !.stage = "hunks"]
  BY DEF Script
<1>2. /\ Shape(search) /\ HasFound(search)
      /\ Trimmed(sides.a, sides.b, search.prefix, search.suffix, search.a, search.b)
  BY <1>1 DEF Comparing, Progress
<1>3. PICK a \in Seq(Line), b \in Seq(Line) : a = sides.a /\ b = sides.b
  BY DEF Comparing
<1>4. InCommon(search.a, search.b, search.pairs)
  BY <1>2 DEF HasFound
<1>5. InCommon(sides.a, sides.b, Common) /\ Len(Common) = search.prefix + Len(search.pairs) + search.suffix
  BY <1>2, <1>3, <1>4, CommonIs
<1>6. PICK script : script = EditScript(Common)
  OBVIOUS
<1>7. /\ script \in Seq(Edits)
      /\ Texted(script, InOld) = a /\ Texted(script, InNew) = b
      /\ Len(Texted(script, Changed)) = Len(a) + Len(b) - 2 * Len(Common)
  BY <1>3, <1>5, <1>6, EditScriptIs
<1>8. PICK p, s, k, l : p = search.prefix /\ s = search.suffix /\ k = search.a /\ l = search.b
  OBVIOUS
<1>9. Trimmed(a, b, p, s, k, l)
  BY <1>2, <1>3, <1>8
<1>10. /\ p \in Nat /\ s \in Nat /\ k \in Seq(Line) /\ l \in Seq(Line)
       /\ Len(k) = Len(a) - s - p /\ Len(l) = Len(b) - s - p
       /\ Distance(a, b) = Fewest(Matches(k, l), Len(k), Len(l))
  BY <1>9, TrimmedIs
<1>11. PICK f \in Nat : f = Far(search) /\ f = Distance(a, b)
  <2>1. Len(k) \in Nat /\ Len(l) \in Nat
    BY <1>10
  <2>2. Distance(a, b) \in Nat
    BY <1>10, <2>1, FewestIsNat
  <2>3. Far(search) = Distance(a, b)
    BY <1>8, <1>10 DEF Far
  <2>4. QED  BY <2>2, <2>3
<1>12. ASSUME Distance(a, b) <= MaxDiffDepth
       PROVE  Len(Texted(script, Changed)) = Distance(a, b)
  <2>1. Len(k) + Len(l) - 2 * Len(search.pairs) = f
    BY <1>2, <1>8, <1>11, <1>12 DEF HasFound
  <2>2. PICK c \in Nat, na \in Nat, nb \in Nat : c = Len(search.pairs) /\ na = Len(a) /\ nb = Len(b)
    BY <1>4 DEF InCommon
  <2>3. (na - s - p) + (nb - s - p) - 2 * c = f
    BY <1>10, <2>1, <2>2
  <2>4. na + nb - 2 * (p + c + s) = f
    BY <1>10, <2>3
  <2>5. Len(Texted(script, Changed)) = na + nb - 2 * (p + c + s)
    BY <1>5, <1>7, <1>8, <2>2
  <2>6. QED  BY <1>11, <2>4, <2>5
<1>13. Shortest(sides, script)
  BY <1>3, <1>7, <1>12 DEF Shortest
<1>14. diff' = [script |-> script, hunks |-> diff.hunks]
  BY <1>1, <1>6 DEF Comparing
<1>15. diff'.script = script /\ diff' = [script |-> diff'.script, hunks |-> diff'.hunks]
  BY <1>14
<1>16. PICK w : w = search'
  OBVIOUS
<1>17. /\ Shape(w) /\ w.stage = "hunks" /\ w.prefix = search.prefix /\ w.suffix = search.suffix
       /\ w.a = search.a /\ w.b = search.b
  BY <1>1, <1>2, <1>16 DEF Shape
<1>18. Progress(sides', w, diff'.script)
  BY <1>1, <1>2, <1>13, <1>15, <1>17 DEF Progress
<1>19. QED  BY <1>1, <1>15, <1>16, <1>18 DEF Comparing

LEMMA CutKeeps ==
    ASSUME DiffConstants, Comparing, Cut
    PROVE  Comparing'
<1>1. /\ search.stage = "hunks" /\ sides' = sides
      /\ diff' = [diff EXCEPT !.hunks = Hunks(diff.script)]
      /\ search' = [search EXCEPT !.stage = "compared"]
  BY DEF Cut
<1>2. /\ Shape(search) /\ Shortest(sides, diff.script)
      /\ Trimmed(sides.a, sides.b, search.prefix, search.suffix, search.a, search.b)
  BY <1>1 DEF Comparing, Progress
<1>3. PICK hunks : hunks = Hunks(diff.script)
  OBVIOUS
<1>4. diff' = [script |-> diff.script, hunks |-> hunks]
  BY <1>1, <1>3 DEF Comparing
<1>5. diff'.script = diff.script /\ diff' = [script |-> diff'.script, hunks |-> diff'.hunks]
  BY <1>4
<1>6. PICK w : w = search'
  OBVIOUS
<1>7. /\ Shape(w) /\ w.stage = "compared" /\ w.prefix = search.prefix /\ w.suffix = search.suffix
      /\ w.a = search.a /\ w.b = search.b
  BY <1>1, <1>2, <1>6 DEF Shape
<1>8. Progress(sides', w, diff'.script)
  BY <1>1, <1>2, <1>5, <1>7 DEF Progress
<1>9. QED  BY <1>1, <1>5, <1>6, <1>8 DEF Comparing

LEMMA ComparingAlways ==
    ASSUME DiffConstants
    PROVE  DiffSpec => []Comparing
<1>1. DiffInit => Comparing
  BY ComparingInit
<1>2. Comparing /\ [DiffNext]_comparing => Comparing'
  <2>1. SUFFICES ASSUME Comparing, [DiffNext]_comparing PROVE Comparing'
    OBVIOUS
  <2>2. CASE Trim  BY <2>1, <2>2, TrimKeeps
  <2>3. CASE Deepen  BY <2>1, <2>3, DeepenKeeps
  <2>4. CASE WalkBack  BY <2>1, <2>4, WalkBackKeeps
  <2>5. CASE Script  BY <2>1, <2>5, ScriptKeeps
  <2>6. CASE Cut  BY <2>1, <2>6, CutKeeps
  <2>7. CASE UNCHANGED comparing  BY <2>1, <2>7 DEF comparing, Comparing, Progress
  <2>8. QED  BY <2>1, <2>2, <2>3, <2>4, <2>5, <2>6, <2>7 DEF DiffNext
<1>3. QED  BY <1>1, <1>2, PTL DEF DiffSpec

(* A script tells one text and the other apart, with as few edits as there *)
(* can be where that few is within the depth the search goes to: the       *)
(* greedy search, its giving up, the walk back over what it kept, and the  *)
(* lines it put aside at both ends, for texts and depths of any length.    *)
THEOREM ScriptsShortest ==
    ASSUME DiffConstants
    PROVE  DiffSpec => []ScriptsAreShortest
<1>1. DiffSpec => []Comparing
  BY ComparingAlways
<1>2. Comparing => ScriptsAreShortest
  BY DEF Comparing, Progress, Shortest, ScriptsAreShortest, Compared
<1>3. QED  BY <1>1, <1>2, PTL
-----------------------------------------------------------------------------
(* The edits of a script after the u-th and through the v-th, and the lines *)
(* of a text they account for.                                             *)
Part(s, u, v) == SubSeq(s, u + 1, v)

LEMMA PartIs ==
    ASSUME NEW S, NEW s \in Seq(S), NEW u \in Nat, NEW v \in Nat, u <= v, v <= Len(s)
    PROVE  /\ Part(s, u, v) \in Seq(S) /\ Len(Part(s, u, v)) = v - u
           /\ \A i \in 1..(v - u) : Part(s, u, v)[i] = s[u + i]
<1>1. u + 1 \in Int /\ v \in Int /\ \A i \in (u + 1)..v : s[i] \in S
  <2>1. \A i \in (u + 1)..v : i \in 1..Len(s)
    OBVIOUS
  <2>2. QED  BY <2>1, ElementOfSeq
<1>2. /\ SubSeq(s, u + 1, v) \in Seq(S)
      /\ Len(SubSeq(s, u + 1, v)) = IF u + 1 <= v THEN v - (u + 1) + 1 ELSE 0
      /\ \A i \in 1..(v - (u + 1) + 1) : SubSeq(s, u + 1, v)[i] = s[(u + 1) + i - 1]
  BY <1>1, SubSeqProperties
<1>3. v - (u + 1) + 1 = v - u /\ (u + 1 <= v \/ v - u = 0)
  OBVIOUS
<1>4. \A i \in 1..(v - u) : (u + 1) + i - 1 = u + i
  OBVIOUS
<1>5. QED  BY <1>2, <1>3, <1>4 DEF Part

LEMMA PartsJoin ==
    ASSUME NEW S, NEW s \in Seq(S), NEW u \in Nat, NEW v \in Nat, NEW x \in Nat,
           u <= v, v <= x, x <= Len(s)
    PROVE  Part(s, u, v) \o Part(s, v, x) = Part(s, u, x)
<1>1. u + 1 \in 1..(Len(s) + 1) /\ v \in ((u + 1) - 1)..Len(s) /\ x \in v..Len(s)
  OBVIOUS
<1>2. QED  BY <1>1, ConcatAdjacentSubSeq DEF Part

LEMMA PartsRead ==
    ASSUME NEW s \in Seq(Edits), NEW ops, NEW u \in Nat, NEW v \in Nat, NEW x \in Nat,
           u <= v, v <= x, x <= Len(s)
    PROVE  /\ Texted(Part(s, u, v), ops) \in Seq(Line)
           /\ Joined(Texted(Part(s, u, x), ops), Texted(Part(s, u, v), ops), Texted(Part(s, v, x), ops))
<1>1. v <= Len(s)
  OBVIOUS
<1>2. Part(s, u, v) \in Seq(Edits) /\ Part(s, v, x) \in Seq(Edits)
  BY <1>1, PartIs
<1>3. Part(s, u, v) \o Part(s, v, x) = Part(s, u, x)
  BY PartsJoin
<1>4. Texted(Part(s, u, v) \o Part(s, v, x), ops)
         = Texted(Part(s, u, v), ops) \o Texted(Part(s, v, x), ops)
  BY <1>2, TextedOfBoth
<1>5. Joined(Texted(Part(s, u, x), ops), Texted(Part(s, u, v), ops), Texted(Part(s, v, x), ops))
  BY <1>3, <1>4 DEF Joined
<1>6. QED  BY <1>2, <1>5, TextedOfLines

LEMMA PartOfNone ==
    ASSUME NEW s \in Seq(Edits), NEW ops, NEW u \in Nat, u <= Len(s)
    PROVE  Texted(Part(s, u, u), ops) = <<>>
<1>1. u + 1 \in Int /\ u \in Int /\ u < u + 1
  OBVIOUS
<1>2. Part(s, u, u) = <<>>
  BY <1>1, SubSeqEmpty DEF Part
<1>3. QED  BY <1>2, TextedOfNone

LEMMA PartOfOne ==
    ASSUME NEW s \in Seq(Edits), NEW ops, NEW u \in Nat, u + 1 <= Len(s)
    PROVE  Texted(Part(s, u, u + 1), ops) = EditRead(s[u + 1], ops)
<1>1. u + 1 \in Nat /\ (u + 1) - u = 1 /\ u <= u + 1 /\ 1 \in 1..1 /\ u + 1 \in 1..Len(s)
  OBVIOUS
<1>2. PICK v \in Nat : v = u + 1 /\ v - u = 1 /\ u <= v /\ v <= Len(s)
  BY <1>1
<1>9. PICK p : p = Part(s, u, v)
  OBVIOUS
<1>3. p \in Seq(Edits) /\ Len(p) = 1 /\ p[1] = s[u + 1]
  <2>1. /\ Part(s, u, v) \in Seq(Edits) /\ Len(Part(s, u, v)) = v - u
        /\ \A i \in 1..(v - u) : Part(s, u, v)[i] = s[u + i]
    BY <1>2, PartIs
  <2>2. QED  BY <1>1, <1>2, <1>9, <2>1
<1>4. PICK f : TextedBy(p, ops, 1, f) /\ Texted(p, ops) = f[1]
  BY <1>3, TextedIs
<1>5. f[1] = f[0] \o EditRead(p[1], ops) /\ f[0] = <<>>
  <2>1. 1 - 1 = 0
    OBVIOUS
  <2>2. QED  BY <1>1, <1>4, <2>1 DEF TextedBy
<1>6. EditRead(p[1], ops) \in Seq(Line)
  <2>1. s[u + 1] \in Edits
    BY <1>1, ElementOfSeq
  <2>2. QED  BY <1>3, <2>1, ReadIsLines
<1>7. f[1] = EditRead(p[1], ops)
  BY <1>5, <1>6, ConcatEmptySeq
<1>8. QED  BY <1>2, <1>3, <1>4, <1>7, <1>9

(* How many lines of a text the first edits of a script account for.       *)
Reached(s, ops, n) == Len(Texted(Part(s, 0, n), ops))

LEMMA ReachedIsNat ==
    ASSUME NEW s \in Seq(Edits), NEW ops, NEW n \in Nat, n <= Len(s)
    PROVE  Reached(s, ops, n) \in Nat
<1>1. 0 <= n /\ n <= n
  OBVIOUS
<1>2. Texted(Part(s, 0, n), ops) \in Seq(Line)
  BY <1>1, PartsRead
<1>3. QED  BY <1>2 DEF Reached

LEMMA ReachedNone ==
    ASSUME NEW s \in Seq(Edits), NEW ops
    PROVE  Reached(s, ops, 0) = 0
<1>1. 0 <= Len(s)
  OBVIOUS
<1>2. Texted(Part(s, 0, 0), ops) = <<>>
  BY <1>1, PartOfNone
<1>3. QED  BY <1>2 DEF Reached

LEMMA ReachedMore ==
    ASSUME NEW s \in Seq(Edits), NEW ops, NEW n \in Nat, NEW k \in Nat, k = n + 1, k <= Len(s)
    PROVE  Reached(s, ops, k) = Reached(s, ops, n) + Len(EditRead(s[k], ops))
<1>1. 0 <= n /\ n <= k /\ n <= Len(s) /\ k \in 1..Len(s)
  OBVIOUS
<1>2. PICK x, y, z : /\ x = Texted(Part(s, 0, n), ops) /\ y = EditRead(s[k], ops)
                     /\ z = Texted(Part(s, 0, k), ops)
  OBVIOUS
<1>3. x \in Seq(Line)
  BY <1>1, <1>2, PartsRead
<1>4. Texted(Part(s, n, k), ops) = y
  BY <1>1, <1>2, PartOfOne
<1>5. z = x \o y
  <2>1. PICK u \in Nat : u = 0 /\ u <= n
    BY <1>1
  <2>2. Joined(Texted(Part(s, u, k), ops), Texted(Part(s, u, n), ops), Texted(Part(s, n, k), ops))
    BY <1>1, <2>1, PartsRead
  <2>3. QED  BY <1>2, <1>4, <2>1, <2>2 DEF Joined
<1>6. y \in Seq(Line)
  <2>1. s[k] \in Edits
    BY <1>1, ElementOfSeq
  <2>2. QED  BY <1>2, <2>1, ReadIsLines
<1>7. Len(z) = Len(x) + Len(y)
  BY <1>3, <1>5, <1>6, ConcatProperties
<1>8. QED  BY <1>2, <1>7 DEF Reached

LEMMA OneRead == \A edit, ops : Len(EditRead(edit, ops)) = IF edit.op \in ops THEN 1 ELSE 0
BY DEF EditRead

LEMMA LinesToIs ==
    ASSUME NEW s \in Seq(Edits), NEW ops
    PROVE  \A n \in 0..Len(s) : LinesTo(s, ops)[n] = Reached(s, ops, n)
<1> DEFINE Is(f) == f = [n \in 0..Len(s) |->
                           IF n = 0 THEN 0 ELSE f[n - 1] + (IF s[n].op \in ops THEN 1 ELSE 0)]
           g == [n \in 0..Len(s) |-> Reached(s, ops, n)]
           lines == CHOOSE f : Is(f)
<1>0. Len(s) \in Nat
  OBVIOUS
<1>1. Is(g)
  <2>1. \A n \in 0..Len(s) :
           g[n] = IF n = 0 THEN 0 ELSE g[n - 1] + (IF s[n].op \in ops THEN 1 ELSE 0)
    <3> SUFFICES ASSUME NEW n \in 0..Len(s)
                 PROVE  g[n] = IF n = 0 THEN 0 ELSE g[n - 1] + (IF s[n].op \in ops THEN 1 ELSE 0)
      OBVIOUS
    <3>1. CASE n = 0
      BY <3>1, ReachedNone
    <3>2. CASE n # 0
      <4>1. PICK m \in Nat : n = m + 1 /\ m = n - 1 /\ m + 1 <= Len(s) /\ m \in 0..Len(s)
        <5>1. n - 1 \in Nat /\ n = (n - 1) + 1 /\ (n - 1) + 1 <= Len(s) /\ n - 1 \in 0..Len(s)
          BY <1>0, <3>2
        <5>2. QED  BY <5>1
      <4>2. g[n] = Reached(s, ops, m + 1) /\ g[n - 1] = Reached(s, ops, m)
        BY <4>1
      <4>3. Reached(s, ops, m + 1) = Reached(s, ops, m) + (IF s[m + 1].op \in ops THEN 1 ELSE 0)
        <5>1. PICK k \in Nat : k = m + 1 /\ k <= Len(s)
          BY <4>1
        <5>2. Reached(s, ops, k) = Reached(s, ops, m) + Len(EditRead(s[k], ops))
          BY <4>1, <5>1, ReachedMore
        <5>3. Len(EditRead(s[k], ops)) = IF s[k].op \in ops THEN 1 ELSE 0
          BY OneRead
        <5>4. QED  BY <5>1, <5>2, <5>3
      <4>4. QED  BY <3>2, <4>1, <4>2, <4>3
    <3>3. QED  BY <3>1, <3>2
  <2>2. g = [n \in 0..Len(s) |-> g[n]]
    OBVIOUS
  <2> HIDE DEF g
  <2>3. QED  BY <2>1, <2>2
<1>2. Is(lines)
  <2> HIDE DEF Is
  <2>1. QED  BY <1>1
<1>3. \A n \in 0..Len(s) :
          lines[n] = IF n = 0 THEN 0 ELSE lines[n - 1] + (IF s[n].op \in ops THEN 1 ELSE 0)
  <2> HIDE DEF lines
  <2>1. QED  BY <1>2
<1>4. LinesTo(s, ops) = lines
  BY DEF LinesTo
<1> HIDE DEF lines
<1> DEFINE T == {n \in Nat : n <= Len(s) => lines[n] = Reached(s, ops, n)}
<1>5. 0 \in T
  BY <1>0, <1>3, ReachedNone
<1>6. ASSUME NEW n \in T PROVE n + 1 \in T
  <2> SUFFICES ASSUME n + 1 <= Len(s) PROVE lines[n + 1] = Reached(s, ops, n + 1)
    OBVIOUS
  <2>1. n \in Nat /\ n <= Len(s) /\ n + 1 \in 0..Len(s) /\ n + 1 # 0 /\ (n + 1) - 1 = n
    BY <1>0
  <2>2. lines[n] = Reached(s, ops, n)
    BY <2>1
  <2>3. lines[n + 1] = lines[n] + (IF s[n + 1].op \in ops THEN 1 ELSE 0)
    BY <1>3, <2>1
  <2>4. PICK k \in Nat : k = n + 1 /\ k <= Len(s)
    BY <2>1
  <2>5. Reached(s, ops, k) = Reached(s, ops, n) + (IF s[k].op \in ops THEN 1 ELSE 0)
    <3>1. Reached(s, ops, k) = Reached(s, ops, n) + Len(EditRead(s[k], ops))
      BY <2>1, <2>4, ReachedMore
    <3>2. Len(EditRead(s[k], ops)) = IF s[k].op \in ops THEN 1 ELSE 0
      BY OneRead
    <3>3. QED  BY <3>1, <3>2
  <2>6. QED  BY <2>2, <2>3, <2>4, <2>5
<1>7. T \in SUBSET Nat
  OBVIOUS
<1> HIDE DEF T
<1>8. T = Nat
  BY <1>5, <1>6, <1>7, Counting
<1>9. QED  BY <1>0, <1>4, <1>8 DEF T
-----------------------------------------------------------------------------
(* The hunk of the edits after the u-th and through the v-th.              *)
HunkOver(s, u, v) ==
    [a |-> Reached(s, InOld, u), an |-> Reached(s, InOld, v) - Reached(s, InOld, u),
     b |-> Reached(s, InNew, u), bn |-> Reached(s, InNew, v) - Reached(s, InNew, u),
     edits |-> Part(s, u, v)]
AboutHunk(s, first, last, u, v) ==
    /\ u < first /\ last <= v /\ v <= Len(s) /\ v <= last + DiffContext
    /\ first > DiffContext => u = first - DiffContext - 1

LEMMA HunkIs ==
    ASSUME DiffConstants, NEW s \in Seq(Edits),
           NEW first \in 1..Len(s), NEW last \in 1..Len(s), first <= last
    PROVE  \E u, v \in Nat : Hunk(s, first, last) = HunkOver(s, u, v) /\ AboutHunk(s, first, last, u, v)
<1> DEFINE from == IF first - DiffContext < 1 THEN 1 ELSE first - DiffContext
           to == IF last + DiffContext > Len(s) THEN Len(s) ELSE last + DiffContext
<1>0. DiffContext \in Nat /\ Len(s) \in Nat /\ first \in Nat /\ last \in Nat
  BY DEF DiffConstants
<1>1. from - 1 \in Nat /\ to \in Nat /\ from - 1 \in 0..Len(s) /\ to \in 0..Len(s) /\ (from - 1) + 1 = from
  BY <1>0
<1>2. AboutHunk(s, first, last, from - 1, to)
  BY <1>0 DEF AboutHunk
<1>3. Hunk(s, first, last) =
         [a |-> LinesTo(s, InOld)[from - 1], an |-> LinesTo(s, InOld)[to] - LinesTo(s, InOld)[from - 1],
          b |-> LinesTo(s, InNew)[from - 1], bn |-> LinesTo(s, InNew)[to] - LinesTo(s, InNew)[from - 1],
          edits |-> SubSeq(s, from, to)]
  BY Zenon DEF Hunk
<1> HIDE DEF from, to
<1>4. PICK u \in Nat, v \in Nat : u = from - 1 /\ v = to /\ u \in 0..Len(s) /\ v \in 0..Len(s) /\ u + 1 = from
  BY <1>1
<1>5. /\ LinesTo(s, InOld)[u] = Reached(s, InOld, u) /\ LinesTo(s, InOld)[v] = Reached(s, InOld, v)
      /\ LinesTo(s, InNew)[u] = Reached(s, InNew, u) /\ LinesTo(s, InNew)[v] = Reached(s, InNew, v)
  BY <1>4, LinesToIs
<1>6. SubSeq(s, from, to) = Part(s, u, v)
  BY <1>4 DEF Part
<1>7. Hunk(s, first, last) = HunkOver(s, u, v)
  BY <1>3, <1>4, <1>5, <1>6 DEF HunkOver
<1>8. QED  BY <1>2, <1>4, <1>7
-----------------------------------------------------------------------------
(* The hunks h of a script, each over the edits after the first and through *)
(* the second of a pair of w, in order and apart.                          *)
Windows(s, h, w) ==
    /\ w \in Seq(Nat \X Nat) /\ h \in Seq({HunkOver(s, u, v) : u, v \in Nat}) /\ Len(h) = Len(w)
    /\ \A i \in 1..Len(w) : /\ w[i][1] < w[i][2] /\ w[i][2] <= Len(s)
                            /\ h[i] = HunkOver(s, w[i][1], w[i][2])
    /\ \A i \in 2..Len(w) : w[i - 1][2] <= w[i][1]
Covered(s, w, e) ==
    \A j \in Changes(s) : j <= e => \E i \in 1..Len(w) : w[i][1] < j /\ j <= w[i][2]
Ends(s, n) == n \in Changes(s) /\ HunkEnds(s, n)

(* The hunks cut at the first n edits, the last of them at e.              *)
CutBy(s, n, h, w, e) ==
    /\ e \in 0..n /\ (e # 0 => Ends(s, e)) /\ (e = 0 => w = <<>>)
    /\ \A j \in 1..n : Ends(s, j) => j <= e
    /\ Windows(s, h, w) /\ \A i \in 1..Len(w) : w[i][2] <= e + DiffContext
    /\ Covered(s, w, e)
HunkStep(s, n, h) == IF Ends(s, n) THEN Append(h, Hunk(s, Opening(s, n), n)) ELSE h

LEMMA OpeningIs ==
    ASSUME NEW s \in Seq(Edits), NEW n \in Nat, Ends(s, n),
           NEW e \in Nat, e < n, e # 0 => Ends(s, e),
           \A j \in 1..(n - 1) : Ends(s, j) => j <= e
    PROVE  /\ Opening(s, n) \in Changes(s) /\ Opening(s, n) <= n /\ e < Opening(s, n)
           /\ \A j \in Changes(s) : e < j => Opening(s, n) <= j
<1> DEFINE P == {i \in Changes(s) : \A j \in Changes(s) : j < n /\ HunkEnds(s, j) => j < i}
<1>1. Changes(s) \subseteq 1..Len(s)
  BY DEF Changes
<1>2. P \in SUBSET Nat
  BY <1>1
<1>3. ASSUME NEW i \in Changes(s), e < i PROVE i \in P
  <2> SUFFICES ASSUME NEW j \in Changes(s), j < n, HunkEnds(s, j) PROVE j < i
    OBVIOUS
  <2>1. Ends(s, j) /\ j \in 1..(n - 1) /\ i \in Nat
    BY <1>1 DEF Ends
  <2>2. j <= e
    BY <2>1
  <2>3. QED  BY <1>1, <1>3, <2>1, <2>2
<1>4. n \in P
  BY <1>3 DEF Ends
<1>5. PICK f : f = Opening(s, n)
  OBVIOUS
<1>6. f \in P /\ \A y \in P : f <= y
  <2> HIDE DEF P
  <2>1. P # {}
    BY <1>4
  <2>2. Least(P) \in P /\ \A y \in P : Least(P) <= y
    BY <1>2, <2>1, LeastIs
  <2>3. f = Least(P)
    BY <1>5 DEF Opening, P
  <2>4. QED  BY <2>2, <2>3
<1>7. f \in Changes(s) /\ f <= n
  BY <1>4, <1>6
<1>8. e < f
  <2>1. CASE e = 0
    BY <1>1, <1>7, <2>1
  <2>2. CASE e # 0
    <3>1. e \in Changes(s) /\ HunkEnds(s, e)
      BY <2>2 DEF Ends
    <3>2. QED  BY <1>6, <3>1
  <2>3. QED  BY <2>1, <2>2
<1>9. \A j \in Changes(s) : e < j => f <= j
  <2> HIDE DEF P
  <2>1. QED  BY <1>3, <1>6
<1>10. QED  BY <1>5, <1>7, <1>8, <1>9
-----------------------------------------------------------------------------
(* One hunk more. *)
LEMMA OneWindowMore ==
    ASSUME NEW s, Len(s) \in Nat, NEW h, NEW w, Windows(s, h, w), NEW u \in Nat, NEW v \in Nat,
           u < v, v <= Len(s), \A i \in 1..Len(w) : w[i][2] <= u
    PROVE  Windows(s, Append(h, HunkOver(s, u, v)), Append(w, <<u, v>>))
<1> DEFINE H == {HunkOver(s, x, y) : x, y \in Nat}
           g == Append(h, HunkOver(s, u, v))
           z == Append(w, <<u, v>>)
<1>1. w \in Seq(Nat \X Nat) /\ h \in Seq(H) /\ Len(h) = Len(w) /\ Len(w) \in Nat
  BY DEF Windows
<1>2. HunkOver(s, u, v) \in H /\ <<u, v>> \in Nat \X Nat
  OBVIOUS
<1> HIDE DEF H
<1>3. /\ g \in Seq(H) /\ Len(g) = Len(w) + 1 /\ g[Len(w) + 1] = HunkOver(s, u, v)
      /\ \A i \in 1..Len(w) : g[i] = h[i]
  BY <1>1, <1>2, AppendProperties
<1>4. /\ z \in Seq(Nat \X Nat) /\ Len(z) = Len(w) + 1 /\ z[Len(w) + 1] = <<u, v>>
      /\ \A i \in 1..Len(w) : z[i] = w[i]
  BY <1>1, <1>2, AppendProperties
<1> HIDE DEF g, z
<1>5. ASSUME NEW i \in 1..Len(z)
      PROVE  z[i][1] < z[i][2] /\ z[i][2] <= Len(s) /\ g[i] = HunkOver(s, z[i][1], z[i][2])
  <2>1. CASE i = Len(w) + 1
    BY <1>3, <1>4, <2>1
  <2>2. CASE i # Len(w) + 1
    <3>1. i \in 1..Len(w)
      BY <1>1, <1>4, <2>2
    <3>2. z[i] = w[i] /\ g[i] = h[i]
      BY <1>3, <1>4, <3>1
    <3>3. QED  BY <3>1, <3>2 DEF Windows
  <2>3. QED  BY <2>1, <2>2
<1>6. ASSUME NEW i \in 2..Len(z) PROVE z[i - 1][2] <= z[i][1]
  <2>1. i - 1 \in 1..Len(w)
    BY <1>1, <1>4
  <2>2. z[i - 1] = w[i - 1]
    BY <1>4, <2>1
  <2>3. CASE i = Len(w) + 1
    <3>1. z[i][1] = u
      BY <1>4, <2>3
    <3>2. QED  BY <2>1, <2>2, <3>1
  <2>4. CASE i # Len(w) + 1
    <3>1. i \in 2..Len(w) /\ i \in 1..Len(w)
      BY <1>1, <1>4, <2>4
    <3>2. z[i] = w[i]
      BY <1>4, <3>1
    <3>3. QED  BY <2>2, <3>1, <3>2 DEF Windows
  <2>5. QED  BY <2>3, <2>4
<1>7. g \in Seq({HunkOver(s, x, y) : x, y \in Nat}) /\ Len(g) = Len(z)
  BY <1>3, <1>4 DEF H
<1>8. Windows(s, g, z)
  BY <1>4, <1>5, <1>6, <1>7 DEF Windows
<1>9. QED  BY <1>8 DEF g, z

LEMMA HunksGrow ==
    ASSUME DiffConstants, NEW s \in Seq(Edits), NEW m \in Nat, NEW n \in Nat, n = m + 1, n <= Len(s),
           NEW h, NEW w, NEW e, CutBy(s, m, h, w, e)
    PROVE  \E x, d : CutBy(s, n, HunkStep(s, n, h), x, d)
<1>0. /\ Len(s) \in Nat /\ n \in 1..Len(s) /\ m = n - 1 /\ DiffContext \in Nat
      /\ Changes(s) \subseteq 1..Len(s)
  BY DEF DiffConstants, Changes
<1>1. /\ e \in Nat /\ e <= m /\ e < n /\ (e # 0 => Ends(s, e)) /\ (e = 0 => w = <<>>)
      /\ \A j \in 1..m : Ends(s, j) => j <= e
      /\ Windows(s, h, w) /\ \A i \in 1..Len(w) : w[i][2] <= e + DiffContext
      /\ Covered(s, w, e)
  BY <1>0 DEF CutBy
<1>2. CASE ~Ends(s, n)
  <2>1. \A j \in 1..n : Ends(s, j) => j <= e
    <3>1. \A j \in 1..n : j = n \/ j \in 1..m
      BY <1>0
    <3>2. QED  BY <1>1, <1>2, <3>1
  <2>2. e \in 0..n
    BY <1>0, <1>1
  <2>3. CutBy(s, n, h, w, e)
    BY <1>1, <2>1, <2>2 DEF CutBy
  <2>4. QED  BY <1>2, <2>3 DEF HunkStep
<1>3. CASE Ends(s, n)
  <2>1. PICK first : first = Opening(s, n)
    OBVIOUS
  <2>2. /\ first \in Changes(s) /\ first <= n /\ e < first
        /\ \A j \in Changes(s) : e < j => first <= j
    <3>1. \A j \in 1..(n - 1) : Ends(s, j) => j <= e
      BY <1>0, <1>1
    <3>2. QED  BY <1>1, <1>3, <2>1, <3>1, OpeningIs
  <2>3. first \in 1..Len(s)
    BY <1>0, <2>2
  <2>4. PICK u \in Nat, v \in Nat : Hunk(s, first, n) = HunkOver(s, u, v) /\ AboutHunk(s, first, n, u, v)
    BY <1>0, <2>2, <2>3, HunkIs
  <2>5. /\ u < first /\ n <= v /\ v <= Len(s) /\ v <= n + DiffContext /\ u < v
        /\ first > DiffContext => u = first - DiffContext - 1
    <3>1. /\ u < first /\ n <= v /\ v <= Len(s) /\ v <= n + DiffContext
          /\ first > DiffContext => u = first - DiffContext - 1
      BY <2>4 DEF AboutHunk
    <3>2. QED  BY <1>0, <2>2, <2>3, <3>1
  <2>6. \A i \in 1..Len(w) : w[i][2] <= u
    <3>1. SUFFICES ASSUME NEW i \in 1..Len(w) PROVE w[i][2] <= u
      OBVIOUS
    <3>2. w[i][2] \in Nat /\ w[i][2] <= e + DiffContext
      <4>1. w[i] \in Nat \X Nat
        BY <1>1, ElementOfSeq DEF Windows
      <4>2. QED  BY <1>1, <4>1
    <3>3. e # 0
      <4>1. e = 0 => Len(w) = 0
        BY <1>1
      <4>2. QED  BY <4>1
    <3>4. HunkEnds(s, e)
      BY <1>1, <3>3 DEF Ends
    <3>5. ~(first - e <= 2 * DiffContext + 1)
      BY <2>2, <3>4 DEF HunkEnds
    <3>6. first > DiffContext /\ e + DiffContext <= first - DiffContext - 1
      BY <1>0, <1>1, <2>3, <3>5
    <3>7. QED  BY <1>0, <1>1, <2>3, <2>5, <3>2, <3>6
  <2> DEFINE x == Append(w, <<u, v>>)
             g == Append(h, HunkOver(s, u, v))
  <2>7. Windows(s, g, x)
    BY <1>0, <1>1, <2>5, <2>6, OneWindowMore
  <2>8. /\ Len(w) \in Nat /\ Len(x) = Len(w) + 1 /\ x[Len(w) + 1] = <<u, v>>
        /\ \A i \in 1..Len(w) : x[i] = w[i]
    <3>1. w \in Seq(Nat \X Nat) /\ <<u, v>> \in Nat \X Nat
      BY <1>1 DEF Windows
    <3>2. QED  BY <3>1, AppendProperties
  <2> HIDE DEF x
  <2>9. \A i \in 1..Len(x) : x[i][2] <= n + DiffContext
    <3>1. SUFFICES ASSUME NEW i \in 1..Len(x) PROVE x[i][2] <= n + DiffContext
      OBVIOUS
    <3>2. CASE i = Len(w) + 1
      BY <2>5, <2>8, <3>2
    <3>3. CASE i # Len(w) + 1
      <4>1. i \in 1..Len(w)
        BY <2>8, <3>3
      <4>2. w[i] \in Nat \X Nat
        BY <1>1, <4>1, ElementOfSeq DEF Windows
      <4>3. x[i] = w[i] /\ w[i][2] <= e + DiffContext /\ w[i][2] \in Nat
        BY <1>1, <2>8, <4>1, <4>2
      <4>4. QED  BY <1>0, <1>1, <4>3
    <3>4. QED  BY <3>2, <3>3
  <2>10. Covered(s, x, n)
    <3>1. SUFFICES ASSUME NEW j \in Changes(s), j <= n
                   PROVE  \E i \in 1..Len(x) : x[i][1] < j /\ j <= x[i][2]
      BY DEF Covered
    <3>2. j \in Nat
      BY <1>0
    <3>3. CASE j <= e
      <4>1. PICK i \in 1..Len(w) : w[i][1] < j /\ j <= w[i][2]
        BY <1>1, <3>3 DEF Covered
      <4>2. i \in 1..Len(x) /\ x[i] = w[i]
        BY <2>8
      <4>3. QED  BY <4>1, <4>2
    <3>4. CASE ~(j <= e)
      <4>1. first <= j
        BY <1>1, <2>2, <3>2, <3>4
      <4>2. u < j /\ j <= v
        BY <1>0, <2>3, <2>5, <3>1, <3>2, <4>1
      <4>3. Len(w) + 1 \in 1..Len(x)
        BY <2>8
      <4>4. QED  BY <2>8, <4>2, <4>3
    <3>5. QED  BY <3>3, <3>4
  <2>11. \A j \in 1..n : j <= n
    BY <1>0
  <2>12. n \in 0..n /\ n # 0
    BY <1>0
  <2>13. CutBy(s, n, g, x, n)
    BY <1>3, <2>7, <2>9, <2>10, <2>11, <2>12 DEF CutBy
  <2>14. HunkStep(s, n, h) = g
    BY <1>3, <2>1, <2>4 DEF HunkStep
  <2>15. QED  BY <2>13, <2>14
<1>4. QED  BY <1>2, <1>3
-----------------------------------------------------------------------------
(* The hunks of a script, an edit at a time. *)
HunksBy(s, k, f) ==
    /\ f = [n \in 0..k |-> f[n]]
    /\ f[0] = <<>>
    /\ \A n \in 1..k : f[n] = HunkStep(s, n, f[n - 1])

LEMMA HunksExist ==
    ASSUME NEW s
    PROVE  \A k \in Nat : \E f : HunksBy(s, k, f)
<1> DEFINE T == {k \in Nat : \E f : HunksBy(s, k, f)}
<1>1. 0 \in T
  <2> DEFINE f == [n \in 0..0 |-> <<>>]
  <2>1. f = [n \in 0..0 |-> f[n]] /\ f[0] = <<>> /\ 1..0 = {}
    OBVIOUS
  <2>2. HunksBy(s, 0, f)
    BY <2>1 DEF HunksBy
  <2>3. QED  BY <2>2
<1>2. ASSUME NEW k \in T PROVE k + 1 \in T
  <2>1. PICK f : HunksBy(s, k, f)
    OBVIOUS
  <2> DEFINE last == HunkStep(s, k + 1, f[k])
             g == [n \in 0..(k + 1) |-> IF n = k + 1 THEN last ELSE f[n]]
  <2>2. k \in Nat
    OBVIOUS
  <2>3. g = [n \in 0..(k + 1) |-> g[n]]
    OBVIOUS
  <2>4. g[k + 1] = last /\ \A n \in 0..k : g[n] = f[n]
    BY <2>2
  <2> HIDE DEF g
  <2>5. g[0] = <<>>
    BY <2>1, <2>2, <2>4 DEF HunksBy
  <2>6. ASSUME NEW n \in 1..(k + 1)
        PROVE  g[n] = HunkStep(s, n, g[n - 1])
    <3>1. n - 1 \in 0..k
      BY <2>2
    <3>2. CASE n = k + 1
      <4>1. n - 1 = k
        BY <2>2, <3>2
      <4>2. QED  BY <2>4, <3>1, <3>2, <4>1
    <3>3. CASE n # k + 1
      <4>1. n \in 1..k /\ n \in 0..k
        BY <2>2, <3>3
      <4>2. f[n] = HunkStep(s, n, f[n - 1])
        BY <2>1, <4>1 DEF HunksBy
      <4>3. g[n] = f[n] /\ g[n - 1] = f[n - 1]
        BY <2>4, <3>1, <4>1
      <4>4. QED  BY <4>2, <4>3
    <3>4. QED  BY <3>2, <3>3
  <2>7. HunksBy(s, k + 1, g)
    BY <2>3, <2>5, <2>6 DEF HunksBy
  <2>8. QED  BY <2>2, <2>7
<1>3. T \in SUBSET Nat
  OBVIOUS
<1> HIDE DEF T
<1>4. T = Nat
  BY <1>1, <1>2, <1>3, Counting
<1>5. QED  BY <1>4 DEF T

LEMMA HunksAre ==
    ASSUME NEW s \in Seq(Edits)
    PROVE  \E f : HunksBy(s, Len(s), f) /\ Hunks(s) = f[Len(s)]
<1> DEFINE Is(f) == f = [n \in 0..Len(s) |->
                           IF n = 0 THEN <<>>
                           ELSE IF n \in Changes(s) /\ HunkEnds(s, n)
                                THEN Append(f[n - 1], Hunk(s, Opening(s, n), n))
                                ELSE f[n - 1]]
           hunks == CHOOSE f : Is(f)
<1>0. Len(s) \in Nat
  OBVIOUS
<1>1. PICK f : HunksBy(s, Len(s), f)
  <2> HIDE DEF Is, hunks
  <2>1. QED  BY <1>0, HunksExist
<1>2. Is(f)
  <2>1. \A n \in 0..Len(s) :
            f[n] = IF n = 0 THEN <<>>
                   ELSE IF n \in Changes(s) /\ HunkEnds(s, n)
                        THEN Append(f[n - 1], Hunk(s, Opening(s, n), n))
                        ELSE f[n - 1]
    <3> SUFFICES ASSUME NEW n \in 0..Len(s)
                 PROVE  f[n] = IF n = 0 THEN <<>>
                               ELSE IF n \in Changes(s) /\ HunkEnds(s, n)
                                    THEN Append(f[n - 1], Hunk(s, Opening(s, n), n))
                                    ELSE f[n - 1]
      OBVIOUS
    <3>1. CASE n = 0
      BY <1>1, <3>1 DEF HunksBy
    <3>2. CASE n # 0
      <4>1. n \in 1..Len(s)
        BY <3>2
      <4>2. f[n] = HunkStep(s, n, f[n - 1])
        BY <1>1, <4>1 DEF HunksBy
      <4>3. QED  BY <3>2, <4>2 DEF HunkStep, Ends
    <3>3. QED  BY <3>1, <3>2
  <2>2. f = [n \in 0..Len(s) |-> f[n]]
    BY <1>1 DEF HunksBy
  <2>3. QED  BY <2>1, <2>2
<1>3. Is(hunks)
  <2> HIDE DEF Is
  <2>1. QED  BY <1>2
<1>4. HunksBy(s, Len(s), hunks)
  <2> HIDE DEF hunks
  <2>1. \A n \in 0..Len(s) :
            hunks[n] = IF n = 0 THEN <<>>
                       ELSE IF n \in Changes(s) /\ HunkEnds(s, n)
                            THEN Append(hunks[n - 1], Hunk(s, Opening(s, n), n))
                            ELSE hunks[n - 1]
    BY <1>3
  <2>2. hunks[0] = <<>>
    BY <1>0, <2>1
  <2>3. \A n \in 1..Len(s) : hunks[n] = HunkStep(s, n, hunks[n - 1])
    <3>1. SUFFICES ASSUME NEW n \in 1..Len(s) PROVE hunks[n] = HunkStep(s, n, hunks[n - 1])
      OBVIOUS
    <3>2. n \in 0..Len(s) /\ n # 0
      BY <1>0
    <3>3. QED  BY <2>1, <3>2, Zenon DEF HunkStep, Ends
  <2>4. hunks = [n \in 0..Len(s) |-> hunks[n]]
    BY <1>3
  <2>5. QED  BY <2>2, <2>3, <2>4 DEF HunksBy
<1>5. Hunks(s) = hunks[Len(s)]
  BY DEF Hunks
<1>6. QED  BY <1>4, <1>5

(* The last change ends a hunk, so that every change is in one. *)
LEMMA LastChangeEnds ==
    ASSUME NEW s \in Seq(Edits), NEW j \in Changes(s)
    PROVE  \E g \in 1..Len(s) : Ends(s, g) /\ j <= g
<1> DEFINE P == {Len(s) - i : i \in Changes(s)}
<1>0. Len(s) \in Nat /\ Changes(s) \subseteq 1..Len(s)
  BY DEF Changes
<1>1. P \in SUBSET Nat /\ P # {}
  BY <1>0
<1>2. Least(P) \in P /\ \A y \in P : Least(P) <= y
  <2> HIDE DEF P
  <2>1. QED  BY <1>1, LeastIs
<1>3. PICK g \in Changes(s) : Least(P) = Len(s) - g
  BY <1>2
<1>4. \A i \in Changes(s) : i <= g
  <2>1. SUFFICES ASSUME NEW i \in Changes(s) PROVE i <= g
    OBVIOUS
  <2>2. Len(s) - i \in P
    OBVIOUS
  <2> HIDE DEF P
  <2>3. Len(s) - g <= Len(s) - i
    BY <1>2, <1>3, <2>2
  <2>4. i \in 1..Len(s) /\ g \in 1..Len(s)
    BY <1>0
  <2>5. QED  BY <1>0, <2>3, <2>4
<1>5. HunkEnds(s, g)
  <2>1. SUFFICES ASSUME NEW i \in Changes(s), g < i PROVE FALSE
    BY DEF HunkEnds
  <2>2. i \in Nat /\ g \in Nat /\ i <= g
    BY <1>0, <1>4
  <2>3. QED  BY <2>1, <2>2
<1>6. QED  BY <1>0, <1>4, <1>5 DEF Ends

LEMMA HunksCover ==
    ASSUME DiffConstants, NEW s \in Seq(Edits)
    PROVE  \E w : /\ Windows(s, Hunks(s), w)
                  /\ \A j \in Changes(s) : \E i \in 1..Len(w) : w[i][1] < j /\ j <= w[i][2]
                  /\ Changes(s) = {} => w = <<>>
<1>0. Len(s) \in Nat /\ Changes(s) \subseteq 1..Len(s)
  BY DEF Changes
<1>1. PICK f : HunksBy(s, Len(s), f) /\ Hunks(s) = f[Len(s)]
  BY HunksAre
<1> DEFINE T == {n \in Nat : n <= Len(s) => \E w, e : CutBy(s, n, f[n], w, e)}
<1>2. 0 \in T
  <2>1. f[0] = <<>>
    BY <1>1 DEF HunksBy
  <2>2. <<>> \in Seq(Nat \X Nat) /\ Len(<<>>) = 0 /\ 1..0 = {} /\ 2..0 = {} /\ 0 \in 0..0
    OBVIOUS
  <2>3. Windows(s, <<>>, <<>>)
    BY <2>2 DEF Windows
  <2>4. Covered(s, <<>>, 0)
    <3>1. \A j \in Changes(s) : ~(j <= 0)
      BY <1>0
    <3>2. QED  BY <3>1 DEF Covered
  <2>5. CutBy(s, 0, <<>>, <<>>, 0)
    BY <2>2, <2>3, <2>4 DEF CutBy
  <2>6. QED  BY <2>1, <2>5
<1>3. ASSUME NEW m \in T PROVE m + 1 \in T
  <2> SUFFICES ASSUME m + 1 <= Len(s) PROVE \E w, e : CutBy(s, m + 1, f[m + 1], w, e)
    OBVIOUS
  <2>1. m \in Nat /\ m <= Len(s)
    BY <1>0
  <2>2. PICK w, e : CutBy(s, m, f[m], w, e)
    BY <2>1
  <2>3. PICK n \in Nat : n = m + 1 /\ n <= Len(s) /\ n \in 1..Len(s) /\ n - 1 = m
    BY <1>0, <2>1
  <2>4. f[n] = HunkStep(s, n, f[m])
    BY <1>1, <2>3 DEF HunksBy
  <2>5. \E x, d : CutBy(s, n, HunkStep(s, n, f[m]), x, d)
    BY <2>1, <2>2, <2>3, HunksGrow
  <2>6. QED  BY <2>3, <2>4, <2>5
<1>4. T \in SUBSET Nat
  OBVIOUS
<1>5. \E w, e : CutBy(s, Len(s), f[Len(s)], w, e)
  <2> HIDE DEF T
  <2>1. T = Nat
    BY <1>2, <1>3, <1>4, Counting
  <2>2. QED  BY <1>0, <2>1 DEF T
<1>6. PICK w, e : CutBy(s, Len(s), Hunks(s), w, e)
  BY <1>1, <1>5
<1>7. ASSUME NEW j \in Changes(s) PROVE j <= e /\ e # 0
  <2>1. PICK g \in 1..Len(s) : Ends(s, g) /\ j <= g
    BY LastChangeEnds
  <2>2. g <= e /\ e \in 0..Len(s)
    BY <1>6, <2>1 DEF CutBy
  <2>3. j \in 1..Len(s)
    BY <1>0
  <2>4. QED  BY <1>0, <2>1, <2>2, <2>3
<1>8. Windows(s, Hunks(s), w) /\ Covered(s, w, e) /\ (e # 0 => Ends(s, e)) /\ (e = 0 => w = <<>>)
  BY <1>6 DEF CutBy
<1>9. \A j \in Changes(s) : \E i \in 1..Len(w) : w[i][1] < j /\ j <= w[i][2]
  BY <1>7, <1>8 DEF Covered
<1>10. Changes(s) = {} => w = <<>>
  BY <1>8 DEF Ends
<1>11. QED  BY <1>8, <1>9, <1>10
-----------------------------------------------------------------------------
(* Where no edit is a change the two texts read alike. *)
NoChange(s, u, v) == \A j \in Changes(s) : ~ (u < j /\ j <= v)
ReadAlike(s, u, v) == Texted(Part(s, u, v), InOld) = Texted(Part(s, u, v), InNew)

LEMMA UnchangedReadsAlike ==
    ASSUME NEW s \in Seq(Edits), NEW u \in Nat, NEW v \in Nat, u <= v, v <= Len(s), NoChange(s, u, v)
    PROVE  ReadAlike(s, u, v)
<1> DEFINE T == {n \in Nat : u + n <= v => ReadAlike(s, u, u + n)}
<1>0. u <= Len(s) /\ u + 0 = u /\ Len(s) \in Nat
  OBVIOUS
<1>1. 0 \in T
  <2>1. Texted(Part(s, u, u), InOld) = <<>> /\ Texted(Part(s, u, u), InNew) = <<>>
    BY <1>0, PartOfNone
  <2>2. QED  BY <1>0, <2>1 DEF ReadAlike
<1>2. ASSUME NEW n \in T PROVE n + 1 \in T
  <2> SUFFICES ASSUME u + (n + 1) <= v PROVE ReadAlike(s, u, u + (n + 1))
    OBVIOUS
  <2>1. PICK m \in Nat, k \in Nat : /\ m = u + n /\ k = u + (n + 1) /\ k = m + 1
                                    /\ u <= m /\ m <= k /\ k <= Len(s) /\ k <= v /\ m + 1 <= Len(s)
    OBVIOUS
  <2>2. ReadAlike(s, u, m)
    BY <2>1
  <2>3. s[k].op = "kept"
    <3>1. k \in DOMAIN s /\ u < k
      BY <2>1
    <3>2. k \notin Changes(s)
      BY <2>1, <3>1 DEF NoChange
    <3>3. QED  BY <3>1, <3>2 DEF Changes
  <2>4. EditRead(s[k], InOld) = EditRead(s[k], InNew)
    BY <2>3 DEF EditRead, InOld, InNew
  <2>5. \A ops : Texted(Part(s, m, k), ops) = EditRead(s[k], ops)
    BY <2>1, PartOfOne
  <2>6. \A ops : Joined(Texted(Part(s, u, k), ops), Texted(Part(s, u, m), ops), Texted(Part(s, m, k), ops))
    BY <2>1, PartsRead
  <2>7. \A ops : Texted(Part(s, u, k), ops) = Texted(Part(s, u, m), ops) \o EditRead(s[k], ops)
    BY <2>5, <2>6 DEF Joined
  <2>8. ReadAlike(s, u, k)
    <3>1. /\ Texted(Part(s, u, k), InOld) = Texted(Part(s, u, m), InOld) \o EditRead(s[k], InOld)
          /\ Texted(Part(s, u, k), InNew) = Texted(Part(s, u, m), InNew) \o EditRead(s[k], InNew)
      BY <2>7
    <3>2. QED  BY <2>2, <2>4, <3>1 DEF ReadAlike
  <2>9. QED  BY <2>1, <2>8
<1>3. T \in SUBSET Nat
  OBVIOUS
<1>4. PICK n \in Nat : v = u + n
  <2>1. v - u \in Nat /\ v = u + (v - u)
    OBVIOUS
  <2>2. QED  BY <2>1
<1>5. n \in T
  <2> HIDE DEF T
  <2>1. QED  BY <1>1, <1>2, <1>3, Counting
<1>6. QED  BY <1>4, <1>5

(* The whole of a script, and a part of what it reads. *)
LEMMA WholeIs ==
    ASSUME NEW s \in Seq(Edits)
    PROVE  Part(s, 0, Len(s)) = s /\ \A ops : Reached(s, ops, Len(s)) = Len(Texted(s, ops))
<1>1. PICK p : p = Part(s, 0, Len(s))
  OBVIOUS
<1>2. p \in Seq(Edits) /\ Len(p) = Len(s) /\ \A i \in 1..Len(s) : p[i] = s[i]
  <2>0. 0 \in Nat /\ Len(s) \in Nat /\ 0 <= Len(s) /\ Len(s) - 0 = Len(s) /\ Len(s) <= Len(s)
    OBVIOUS
  <2>1. PICK u \in Nat, n \in Nat : u = 0 /\ n = Len(s) /\ u <= n /\ n <= Len(s) /\ n - u = n
    BY <2>0
  <2>2. /\ Part(s, u, n) \in Seq(Edits) /\ Len(Part(s, u, n)) = n - u
        /\ \A i \in 1..(n - u) : Part(s, u, n)[i] = s[u + i]
    <3>1. u <= n /\ n <= Len(s)
      BY <2>1
    <3>2. QED  BY ONLY <3>1, s \in Seq(Edits), u \in Nat, n \in Nat, PartIs
  <2>3. QED  BY <1>1, <2>1, <2>2
<1>3. p = s
  BY <1>2, SeqEqual
<1>4. QED  BY <1>1, <1>3 DEF Reached

LEMMA SliceOfBoth ==
    ASSUME NEW w, NEW x, NEW p \in Seq(Line), NEW q \in Seq(Line), NEW z \in Seq(Line),
           Joined(x, p, q), Joined(w, x, z)
    PROVE  SubSeq(w, Len(p) + 1, Len(x)) = q /\ Len(x) = Len(p) + Len(q) /\ Len(x) <= Len(w)
<1>1. /\ x = p \o q /\ w = x \o z
      /\ x \in Seq(Line) /\ w \in Seq(Line)
  BY DEF Joined
<1>2. PICK i \in Nat, j \in Nat, l \in Nat : i = Len(p) /\ j = Len(q) /\ l = Len(z)
  OBVIOUS
<1>3. Len(x) = i + j /\ Len(w) = (i + j) + l
  BY <1>1, <1>2
<1>4. \A n \in 1..j : w[i + n] = q[n]
  <2>1. SUFFICES ASSUME NEW n \in 1..j PROVE w[i + n] = q[n]
    OBVIOUS
  <2>2. i + n \in 1..Len(x) /\ i + n > i /\ (i + n) - i = n
    BY <1>3
  <2>3. w[i + n] = x[i + n]
    BY <1>1, <1>3, <2>2
  <2>4. x[i + n] = q[n]
    BY <1>1, <1>2, <2>2
  <2>5. QED  BY <2>3, <2>4
<1>5. PICK v \in Nat : v = i + j /\ i <= v /\ v <= Len(w) /\ v - i = j
  BY <1>3
<1>6. /\ Part(w, i, v) \in Seq(Line) /\ Len(Part(w, i, v)) = v - i
      /\ \A n \in 1..(v - i) : Part(w, i, v)[n] = w[i + n]
  <2>1. w \in Seq(Line) /\ i <= v /\ v <= Len(w)
    BY <1>1, <1>5
  <2>2. QED  BY ONLY <2>1, i \in Nat, v \in Nat, PartIs
<1>7. PICK t : t = Part(w, i, v)
  OBVIOUS
<1>8. t \in Seq(Line) /\ Len(t) = j /\ \A n \in 1..j : t[n] = q[n]
  BY <1>4, <1>5, <1>6, <1>7
<1>9. t = q
  BY <1>2, <1>8, SeqEqual
<1>10. QED  BY <1>2, <1>3, <1>5, <1>7, <1>9 DEF Part

LEMMA SliceIs ==
    ASSUME NEW s \in Seq(Edits), NEW ops, NEW u \in Nat, NEW v \in Nat, u <= v, v <= Len(s)
    PROVE  /\ SubSeq(Texted(s, ops), Reached(s, ops, u) + 1, Reached(s, ops, v)) = Texted(Part(s, u, v), ops)
           /\ Reached(s, ops, u) <= Reached(s, ops, v)
           /\ Reached(s, ops, v) <= Len(Texted(s, ops))
<1>1. PICK o \in Nat, n \in Nat : /\ o = 0 /\ n = Len(s) /\ o <= u /\ o <= v /\ v <= n /\ n <= Len(s)
                                  /\ n <= n /\ v <= v
  OBVIOUS
<1>2. PICK p, q, x, z, w : /\ p = Texted(Part(s, o, u), ops) /\ q = Texted(Part(s, u, v), ops)
                           /\ x = Texted(Part(s, o, v), ops) /\ z = Texted(Part(s, v, n), ops)
                           /\ w = Texted(Part(s, o, n), ops)
  OBVIOUS
<1>3. p \in Seq(Line) /\ Joined(x, p, q)
  BY <1>1, <1>2, PartsRead
<1>4. q \in Seq(Line)
  BY <1>1, <1>2, PartsRead
<1>5. x \in Seq(Line) /\ Joined(w, x, z)
  BY <1>1, <1>2, PartsRead
<1>6. z \in Seq(Line)
  BY <1>1, <1>2, PartsRead
<1>7. SubSeq(w, Len(p) + 1, Len(x)) = q /\ Len(x) = Len(p) + Len(q) /\ Len(x) <= Len(w)
  BY <1>3, <1>4, <1>5, <1>6, SliceOfBoth
<1>8. w = Texted(s, ops)
  BY <1>1, <1>2, WholeIs
<1>9. Reached(s, ops, u) = Len(p) /\ Reached(s, ops, v) = Len(x)
  BY <1>1, <1>2 DEF Reached
<1>10. Len(p) \in Nat /\ Len(q) \in Nat
  BY <1>3, <1>4
<1>11. QED  BY <1>2, <1>7, <1>8, <1>9, <1>10

(* A change is counted. *)
LEMMA ChangeIsCounted ==
    ASSUME NEW s \in Seq(Edits), NEW j \in Changes(s)
    PROVE  Len(Texted(s, Changed)) # 0
<1>1. j \in 1..Len(s) /\ s[j].op \in Changed
  <2>1. j \in DOMAIN s /\ s[j].op # "kept"
    BY DEF Changes
  <2>2. s[j] \in Edits
    BY <2>1
  <2>3. s[j].op \in {"removed", "added", "kept"}
    BY <2>2 DEF Edits
  <2>4. QED  BY <2>1, <2>3 DEF Changed
<1>2. PICK n \in Nat, k \in Nat : n = j - 1 /\ k = j /\ k = n + 1 /\ k <= Len(s) /\ n <= Len(s) /\ k <= k
  BY <1>1
<1>3. Reached(s, Changed, k) = Reached(s, Changed, n) + Len(EditRead(s[k], Changed))
  BY <1>2, ReachedMore
<1>4. Len(EditRead(s[k], Changed)) = 1
  BY <1>1, <1>2, OneRead
<1>5. Reached(s, Changed, n) \in Nat
  BY <1>2, ReachedIsNat
<1>6. Reached(s, Changed, k) <= Len(Texted(s, Changed))
  BY <1>2, SliceIs
<1>7. Texted(s, Changed) \in Seq(Line)
  BY TextedOfLines
<1>8. Len(Texted(s, Changed)) \in Nat
  BY <1>7
<1>9. QED  BY <1>3, <1>4, <1>5, <1>6, <1>8
-----------------------------------------------------------------------------
(* Where the n-th window ends, and the first begins. *)
Below(w, n) == IF n = 0 THEN 0 ELSE w[n][2]
InWindow(w, j) == \E i \in 1..Len(w) : w[i][1] < j /\ j <= w[i][2]

LEMMA WindowsAre ==
    ASSUME NEW s \in Seq(Edits), NEW h, NEW w, Windows(s, h, w)
    PROVE  /\ Len(w) \in Nat /\ Len(h) = Len(w)
           /\ \A i \in 1..Len(w) :
                 /\ w[i][1] \in Nat /\ w[i][2] \in Nat
                 /\ w[i][1] < w[i][2] /\ w[i][2] <= Len(s)
                 /\ h[i] = HunkOver(s, w[i][1], w[i][2])
                 /\ Below(w, i) = w[i][2]
           /\ \A i \in 0..Len(w) : Below(w, i) \in Nat /\ Below(w, i) <= Len(s)
           /\ \A i \in 1..Len(w) : Below(w, i - 1) <= w[i][1]
<1>0. w \in Seq(Nat \X Nat) /\ Len(w) \in Nat /\ Len(s) \in Nat /\ Len(h) = Len(w)
  BY DEF Windows
<1>1. \A i \in 1..Len(w) :
         /\ w[i][1] \in Nat /\ w[i][2] \in Nat
         /\ w[i][1] < w[i][2] /\ w[i][2] <= Len(s)
         /\ h[i] = HunkOver(s, w[i][1], w[i][2])
         /\ Below(w, i) = w[i][2]
  <2>1. SUFFICES ASSUME NEW i \in 1..Len(w)
                 PROVE  /\ w[i][1] \in Nat /\ w[i][2] \in Nat
                        /\ w[i][1] < w[i][2] /\ w[i][2] <= Len(s)
                        /\ h[i] = HunkOver(s, w[i][1], w[i][2])
                        /\ Below(w, i) = w[i][2]
    OBVIOUS
  <2>2. w[i] \in Nat \X Nat
    BY <1>0, <2>1
  <2>3. i # 0
    BY <1>0
  <2>4. QED  BY <2>2, <2>3 DEF Windows, Below
<1>2. \A i \in 0..Len(w) : Below(w, i) \in Nat /\ Below(w, i) <= Len(s)
  <2>1. SUFFICES ASSUME NEW i \in 0..Len(w) PROVE Below(w, i) \in Nat /\ Below(w, i) <= Len(s)
    OBVIOUS
  <2>2. CASE i = 0  BY <1>0, <2>2 DEF Below
  <2>3. CASE i # 0
    <3>1. i \in 1..Len(w)
      BY <1>0, <2>3
    <3>2. QED  BY <1>1, <3>1
  <2>4. QED  BY <2>2, <2>3
<1>3. \A i \in 1..Len(w) : Below(w, i - 1) <= w[i][1]
  <2>1. SUFFICES ASSUME NEW i \in 1..Len(w) PROVE Below(w, i - 1) <= w[i][1]
    OBVIOUS
  <2>2. CASE i = 1
    <3>1. i - 1 = 0 /\ w[i][1] \in Nat
      BY <1>1, <2>2
    <3>2. QED  BY <3>1 DEF Below
  <2>3. CASE i # 1
    <3>1. i \in 2..Len(w) /\ i - 1 # 0
      BY <1>0, <2>3
    <3>2. w[i - 1][2] <= w[i][1]
      BY <3>1 DEF Windows
    <3>3. QED  BY <3>1, <3>2 DEF Below
  <2>4. QED  BY <2>2, <2>3
<1>4. QED  BY <1>0, <1>1, <1>2, <1>3

(* A change in a window before one ends before it. *)
LEMMA WindowsAreInOrder ==
    ASSUME NEW s \in Seq(Edits), NEW h, NEW w, Windows(s, h, w), NEW i \in 1..Len(w)
    PROVE  \A k \in Nat : i <= k /\ k <= Len(w) => w[i][2] <= w[k][2] /\ w[i][1] <= w[k][1]
<1> DEFINE T == {n \in Nat : i <= n /\ n <= Len(w) => w[i][2] <= w[n][2] /\ w[i][1] <= w[n][1]}
<1>0. /\ Len(w) \in Nat /\ i \in Nat /\ i # 0
      /\ \A n \in 1..Len(w) : w[n][1] \in Nat /\ w[n][2] \in Nat /\ w[n][1] < w[n][2]
      /\ \A n \in 1..Len(w) : Below(w, n - 1) <= w[n][1]
  BY WindowsAre
<1>1. 0 \in T
  BY <1>0
<1>2. ASSUME NEW n \in T PROVE n + 1 \in T
  <2> SUFFICES ASSUME i <= n + 1, n + 1 <= Len(w)
               PROVE  w[i][2] <= w[n + 1][2] /\ w[i][1] <= w[n + 1][1]
    OBVIOUS
  <2>0. n \in Nat
    OBVIOUS
  <2>1. CASE i = n + 1
    <3>1. w[i][1] \in Nat /\ w[i][2] \in Nat
      BY <1>0
    <3>2. QED  BY <2>1, <3>1
  <2>2. CASE i # n + 1
    <3>1. PICK k \in 1..Len(w) : k = n + 1 /\ k - 1 = n
      BY <1>0, <2>0
    <3>2. i <= n /\ n <= Len(w) /\ n # 0 /\ n \in 1..Len(w)
      BY <1>0, <2>0, <2>2
    <3>3. w[i][2] <= w[n][2] /\ w[i][1] <= w[n][1]
      BY <3>2
    <3>4. w[n][2] <= w[k][1]
      <4>1. Below(w, n) <= w[k][1]
        BY <1>0, <3>1
      <4>2. QED  BY <3>2, <4>1 DEF Below
    <3>5. /\ w[n][1] \in Nat /\ w[n][2] \in Nat /\ w[n][1] < w[n][2]
          /\ w[k][1] \in Nat /\ w[k][2] \in Nat /\ w[k][1] < w[k][2]
          /\ w[i][1] \in Nat /\ w[i][2] \in Nat
      BY <1>0, <3>1, <3>2
    <3>6. w[i][2] <= w[k][2] /\ w[i][1] <= w[k][1]
      <4>1. PICK i1, i2, n1, n2, k1, k2 \in Nat : /\ i1 = w[i][1] /\ i2 = w[i][2] /\ n1 = w[n][1]
                                                  /\ n2 = w[n][2] /\ k1 = w[k][1] /\ k2 = w[k][2]
        BY <3>5
      <4>2. i2 <= n2 /\ i1 <= n1 /\ n2 <= k1 /\ n1 < n2 /\ k1 < k2
        BY <3>3, <3>4, <3>5, <4>1
      <4>3. i2 <= k2 /\ i1 <= k1
        BY <4>2
      <4>4. QED  BY <4>1, <4>3
    <3>7. QED  BY <3>1, <3>6
  <2>3. QED  BY <2>1, <2>2
<1>3. T \in SUBSET Nat
  OBVIOUS
<1>4. T = Nat
  <2> HIDE DEF T
  <2>1. QED  BY <1>1, <1>2, <1>3, Counting
<1>5. QED  BY <1>4

(* So nothing changes between two of them, or after the last. *)
LEMMA ApartFromChanges ==
    ASSUME NEW s \in Seq(Edits), NEW h, NEW w, Windows(s, h, w),
           \A j \in Changes(s) : InWindow(w, j)
    PROVE  /\ \A n \in 1..Len(w) : NoChange(s, Below(w, n - 1), w[n][1])
           /\ NoChange(s, Below(w, Len(w)), Len(s))
<1>0. /\ Len(w) \in Nat /\ Changes(s) \subseteq Nat
      /\ \A n \in 1..Len(w) : /\ w[n][1] \in Nat /\ w[n][2] \in Nat /\ w[n][1] < w[n][2]
                              /\ Below(w, n) = w[n][2]
  <2>1. Changes(s) \subseteq Nat
    BY DEF Changes
  <2>2. QED  BY <2>1, WindowsAre
<1>1. ASSUME NEW n \in 1..Len(w) PROVE NoChange(s, Below(w, n - 1), w[n][1])
  <2>1. SUFFICES ASSUME NEW j \in Changes(s), Below(w, n - 1) < j, j <= w[n][1] PROVE FALSE
    BY DEF NoChange
  <2>2. PICK i \in 1..Len(w) : w[i][1] < j /\ j <= w[i][2]
    BY DEF InWindow
  <2>3. n \in Nat /\ i \in Nat /\ j \in Nat /\ n # 0 /\ n <= Len(w) /\ i <= Len(w)
    BY <1>0
  <2>4. CASE n <= i
    <3>1. w[n][1] <= w[i][1]
      BY <2>3, <2>4, WindowsAreInOrder
    <3>2. w[i][1] \in Nat /\ w[n][1] \in Nat
      BY <1>0
    <3>3. QED  BY <2>1, <2>2, <2>3, <3>1, <3>2
  <2>5. CASE ~(n <= i)
    <3>1. PICK m \in 1..Len(w) : m = n - 1 /\ i <= m
      BY <1>0, <2>3, <2>5
    <3>2. m \in Nat /\ m <= Len(w)
      BY <1>0
    <3>3. w[i][2] <= w[m][2]
      BY <3>1, <3>2, WindowsAreInOrder
    <3>4. w[m][2] < j
      BY <1>0, <2>1, <3>1
    <3>5. w[m][2] \in Nat /\ w[i][2] \in Nat
      BY <1>0
    <3>6. QED  BY <2>2, <2>3, <3>3, <3>4, <3>5
  <2>6. QED  BY <2>4, <2>5
<1>2. NoChange(s, Below(w, Len(w)), Len(s))
  <2>1. SUFFICES ASSUME NEW j \in Changes(s), Below(w, Len(w)) < j PROVE FALSE
    BY DEF NoChange
  <2>2. PICK i \in 1..Len(w) : w[i][1] < j /\ j <= w[i][2]
    BY DEF InWindow
  <2>3. PICK m \in 1..Len(w) : m = Len(w) /\ i <= m /\ m <= Len(w) /\ m \in Nat
    BY <1>0
  <2>4. w[i][2] <= w[m][2]
    BY <2>3, WindowsAreInOrder
  <2>5. w[m][2] < j
    BY <1>0, <2>1, <2>3
  <2>6. w[m][2] \in Nat /\ w[i][2] \in Nat /\ j \in Nat
    BY <1>0
  <2>7. QED  BY <2>2, <2>4, <2>5, <2>6
<1>3. QED  BY <1>1, <1>2
-----------------------------------------------------------------------------
(* A line range names its first line, and where it is empty the one before. *)
LEMMA AfterIs ==
    ASSUME NEW start \in Nat, NEW count \in Nat
    PROVE  AfterOf(LineRange(start, count), count) = start + 1
BY DEF AfterOf, LineRange

(* A script of the two texts, cut into hunks over these windows, which     *)
(* hold every change.                                                      *)
CutUp(s, w) ==
    /\ s \in Seq(Edits) /\ s = diff.script
    /\ Texted(s, InOld) = sides.a /\ Texted(s, InNew) = sides.b
    /\ Windows(s, diff.hunks, w)
    /\ \A j \in Changes(s) : InWindow(w, j)

LEMMA HunkStartsAt ==
    ASSUME NEW s, NEW w, CutUp(s, w), NEW n \in 1..Len(w)
    PROVE  /\ diff.hunks[n] = HunkOver(s, w[n][1], w[n][2])
           /\ StartsAt(n) = Reached(s, InOld, w[n][1]) + 1
           /\ BelowHunk(n) = Reached(s, InOld, w[n][2]) + 1
           /\ AfterOf(LineRange(diff.hunks[n].b, diff.hunks[n].bn), diff.hunks[n].bn)
                 = Reached(s, InNew, w[n][1]) + 1
<1>1. s \in Seq(Edits) /\ Windows(s, diff.hunks, w)
  BY DEF CutUp
<1>2. PICK u, v : u = w[n][1] /\ v = w[n][2]
  OBVIOUS
<1>3. PICK h : h = diff.hunks[n]
  OBVIOUS
<1>4. u \in Nat /\ v \in Nat /\ u <= v /\ v <= Len(s) /\ u <= Len(s) /\ h = HunkOver(s, u, v) /\ n # 0
  BY <1>1, <1>2, <1>3, WindowsAre
<1>5. \A ops : /\ Reached(s, ops, u) \in Nat /\ Reached(s, ops, v) \in Nat
               /\ Reached(s, ops, u) <= Reached(s, ops, v)
  BY <1>1, <1>4, ReachedIsNat, SliceIs
<1>6. PICK a \in Nat, l \in Nat, b \in Nat, m \in Nat :
         /\ a = Reached(s, InOld, u) /\ l = Reached(s, InOld, v) /\ a <= l
         /\ b = Reached(s, InNew, u) /\ m = Reached(s, InNew, v) /\ b <= m
  BY <1>5
<1>7. h.a = a /\ h.an = l - a /\ h.b = b /\ h.bn = m - b
  BY <1>4, <1>6 DEF HunkOver
<1>8. l - a \in Nat /\ m - b \in Nat
  BY <1>6
<1>9. AfterOf(LineRange(h.a, h.an), h.an) = a + 1 /\ AfterOf(LineRange(h.b, h.bn), h.bn) = b + 1
  BY <1>7, <1>8, AfterIs
<1>10. StartsAt(n) = a + 1
  BY <1>3, <1>9 DEF StartsAt
<1>11. BelowHunk(n) = l + 1
  BY <1>3, <1>4, <1>6, <1>7, <1>10 DEF BelowHunk
<1>12. QED  BY <1>2, <1>3, <1>4, <1>6, <1>9, <1>10, <1>11

LEMMA BelowHunkIs ==
    ASSUME NEW s, NEW w, CutUp(s, w), NEW n \in 0..Len(w)
    PROVE  BelowHunk(n) = Reached(s, InOld, Below(w, n)) + 1
<1>1. s \in Seq(Edits) /\ Windows(s, diff.hunks, w)
  BY DEF CutUp
<1>2. CASE n = 0
  <2>1. Reached(s, InOld, 0) = 0
    BY <1>1, ReachedNone
  <2>2. QED  BY <1>2, <2>1 DEF Below, BelowHunk
<1>3. CASE n # 0
  <2>1. n \in 1..Len(w)
    BY <1>1, <1>3, WindowsAre
  <2>2. BelowHunk(n) = Reached(s, InOld, w[n][2]) + 1
    BY <2>1, HunkStartsAt
  <2>3. QED  BY <1>3, <2>2 DEF Below
<1>4. QED  BY <1>2, <1>3

(* The lines of a text from one edit through another. *)
LEMMA LinesBetween ==
    ASSUME NEW s \in Seq(Edits), NEW ops, NEW u \in Nat, NEW v \in Nat, u <= v, v <= Len(s),
           NEW x, x = Reached(s, ops, u) + 1, NEW y, y = Reached(s, ops, v)
    PROVE  SubSeq(Texted(s, ops), x, y) = Texted(Part(s, u, v), ops) /\ x <= y + 1
<1>1. /\ SubSeq(Texted(s, ops), Reached(s, ops, u) + 1, Reached(s, ops, v)) = Texted(Part(s, u, v), ops)
      /\ Reached(s, ops, u) <= Reached(s, ops, v)
  BY SliceIs
<1>2. u <= Len(s)
  OBVIOUS
<1>3. Reached(s, ops, u) \in Nat /\ Reached(s, ops, v) \in Nat
  BY <1>2, ReachedIsNat
<1>4. QED  BY <1>1, <1>3

(* What each hunk says of the two texts is there, and no line is in two.   *)
HunkHolds(n) ==
    LET hunk == diff.hunks[n]
        at == AfterOf(LineRange(hunk.b, hunk.bn), hunk.bn)
    IN  /\ BelowHunk(n - 1) <= StartsAt(n)
        /\ SubSeq(sides.a, StartsAt(n), StartsAt(n) + hunk.an - 1) = Texted(hunk.edits, InOld)
        /\ SubSeq(sides.b, at, at + hunk.bn - 1) = Texted(hunk.edits, InNew)

LEMMA EachHunkHolds ==
    ASSUME NEW s, NEW w, CutUp(s, w), NEW n \in 1..Len(w)
    PROVE  HunkHolds(n)
<1>1. s \in Seq(Edits) /\ Windows(s, diff.hunks, w) /\ Texted(s, InOld) = sides.a /\ Texted(s, InNew) = sides.b
  BY DEF CutUp
<1>2. PICK u, v, c : u = w[n][1] /\ v = w[n][2] /\ c = Below(w, n - 1)
  OBVIOUS
<1>3. PICK h : h = diff.hunks[n]
  OBVIOUS
<1>4. n - 1 \in 0..Len(w)
  BY <1>1, WindowsAre
<1>5. /\ u \in Nat /\ v \in Nat /\ u <= v /\ v <= Len(s) /\ u <= Len(s)
      /\ c \in Nat /\ c <= u
  BY <1>1, <1>2, <1>4, WindowsAre
<1>6. h = HunkOver(s, u, v)
  BY <1>2, <1>3, HunkStartsAt
<1>7. PICK a \in Nat, l \in Nat, b \in Nat, m \in Nat :
         /\ a = Reached(s, InOld, u) /\ l = Reached(s, InOld, v)
         /\ b = Reached(s, InNew, u) /\ m = Reached(s, InNew, v)
  BY <1>1, <1>5, ReachedIsNat
<1>8. h.an = l - a /\ h.bn = m - b /\ h.edits = Part(s, u, v)
  BY <1>6, <1>7 DEF HunkOver
<1>9. PICK x \in Nat, y \in Nat : /\ x = StartsAt(n) /\ x = a + 1
                                  /\ y = AfterOf(LineRange(h.b, h.bn), h.bn) /\ y = b + 1
  <2>1. StartsAt(n) = a + 1 /\ AfterOf(LineRange(h.b, h.bn), h.bn) = b + 1
    BY <1>2, <1>3, <1>7, HunkStartsAt
  <2>2. a + 1 \in Nat /\ b + 1 \in Nat
    BY <1>7
  <2>3. QED  BY <2>1, <2>2
<1>10. x + h.an - 1 = l /\ y + h.bn - 1 = m
  <2>1. x + (l - a) - 1 = l /\ y + (m - b) - 1 = m
    BY <1>9
  <2>2. QED  BY <1>8, <2>1
<1>11. SubSeq(sides.a, x, l) = Texted(h.edits, InOld)
  <2>1. x = Reached(s, InOld, u) + 1 /\ l = Reached(s, InOld, v)
    BY <1>7, <1>9
  <2>2. SubSeq(Texted(s, InOld), x, l) = Texted(Part(s, u, v), InOld)
    BY <1>1, <1>5, <2>1, LinesBetween
  <2>3. QED  BY <1>1, <1>8, <2>2
<1>12. SubSeq(sides.b, y, m) = Texted(h.edits, InNew)
  <2>1. y = Reached(s, InNew, u) + 1 /\ m = Reached(s, InNew, v)
    BY <1>7, <1>9
  <2>2. SubSeq(Texted(s, InNew), y, m) = Texted(Part(s, u, v), InNew)
    BY <1>1, <1>5, <2>1, LinesBetween
  <2>3. QED  BY <1>1, <1>8, <2>2
<1>13. BelowHunk(n - 1) <= x
  <2>1. BelowHunk(n - 1) = Reached(s, InOld, c) + 1
    BY <1>2, <1>4, BelowHunkIs
  <2>2. Reached(s, InOld, c) <= Reached(s, InOld, u)
    BY <1>1, <1>5, SliceIs
  <2>3. c <= Len(s)
    BY <1>1, <1>5
  <2>4. Reached(s, InOld, c) \in Nat
    BY <1>1, <1>5, <2>3, ReachedIsNat
  <2>5. QED  BY <1>7, <1>9, <2>1, <2>2, <2>4
<1>14. QED  BY <1>3, <1>9, <1>10, <1>11, <1>12, <1>13 DEF HunkHolds

(* What the lines above a hunk and the hunk are patched to. *)
LEMMA PatchedByIs ==
    ASSUME NEW s, NEW w, CutUp(s, w), NEW n \in 1..Len(w)
    PROVE  PatchedBy(n) = Texted(Part(s, Below(w, n - 1), Below(w, n)), InNew)
<1>1. s \in Seq(Edits) /\ Windows(s, diff.hunks, w) /\ Texted(s, InOld) = sides.a
  BY DEF CutUp
<1>2. PICK u, v, c : u = w[n][1] /\ v = w[n][2] /\ c = Below(w, n - 1)
  OBVIOUS
<1>3. n - 1 \in 0..Len(w)
  BY <1>1, WindowsAre
<1>4. /\ u \in Nat /\ v \in Nat /\ u <= v /\ v <= Len(s) /\ u <= Len(s)
      /\ c \in Nat /\ c <= u /\ c <= Len(s) /\ Below(w, n) = v
  <2>1. u \in Nat /\ v \in Nat /\ u < v /\ v <= Len(s) /\ Below(w, n) = v /\ Len(s) \in Nat
    BY <1>1, <1>2, WindowsAre
  <2>2. c \in Nat /\ c <= u
    BY <1>1, <1>2, <1>3, WindowsAre
  <2>3. QED  BY <2>1, <2>2
<1>5. diff.hunks[n].edits = Part(s, u, v)
  <2>1. diff.hunks[n] = HunkOver(s, u, v)
    BY <1>2, HunkStartsAt
  <2>2. QED  BY <2>1 DEF HunkOver
<1>6. PICK a \in Nat, l \in Nat : a = Reached(s, InOld, c) /\ l = Reached(s, InOld, u)
  BY <1>1, <1>4, ReachedIsNat
<1>7. BelowHunk(n - 1) = a + 1 /\ StartsAt(n) - 1 = l
  <2>1. BelowHunk(n - 1) = a + 1
    BY <1>2, <1>3, <1>6, BelowHunkIs
  <2>2. StartsAt(n) = l + 1
    BY <1>2, <1>6, HunkStartsAt
  <2>3. QED  BY <1>6, <2>1, <2>2
<1>8. SubSeq(sides.a, a + 1, l) = Texted(Part(s, c, u), InOld)
  <2>1. PICK x : x = a + 1
    OBVIOUS
  <2>2. x = Reached(s, InOld, c) + 1 /\ l = Reached(s, InOld, u)
    BY <1>6, <2>1
  <2>3. SubSeq(Texted(s, InOld), x, l) = Texted(Part(s, c, u), InOld)
    BY <1>1, <1>4, <2>2, LinesBetween
  <2>4. QED  BY <1>1, <2>1, <2>3
<1>9. ReadAlike(s, c, u)
  <2>1. NoChange(s, c, u)
    BY <1>1, <1>2, ApartFromChanges DEF CutUp
  <2>2. QED  BY <1>1, <1>4, <2>1, UnchangedReadsAlike
<1>10. Joined(Texted(Part(s, c, v), InNew), Texted(Part(s, c, u), InNew), Texted(Part(s, u, v), InNew))
  BY <1>1, <1>4, PartsRead
<1>11. PatchedBy(n) = SubSeq(sides.a, a + 1, l) \o Texted(Part(s, u, v), InNew)
  BY <1>5, <1>7 DEF PatchedBy
<1>12. PatchedBy(n) = Texted(Part(s, c, v), InNew)
  BY <1>8, <1>9, <1>10, <1>11 DEF ReadAlike, Joined
<1>13. QED  BY <1>2, <1>4, <1>12
-----------------------------------------------------------------------------
(* A text is no edits away from itself. *)
LEMMA NoDistance ==
    ASSUME NEW a \in Seq(Line)
    PROVE  Distance(a, a) = 0
<1>0. PICK m : m = Matches(a, a)
  OBVIOUS
<1>1. PICK n \in Nat, o \in Nat : n = Len(a) /\ o = 0 /\ o + n = n
  OBVIOUS
<1>2. SameFrom(m, o, o, n)
  BY <1>0, <1>1 DEF SameFrom, Matches
<1>3. Fewest(m, o + n, o + n) = Fewest(m, o, o)
  BY <1>2, AlongEqualLines
<1>4. Fewest(m, o, o) = 0
  BY <1>1, FewestFromNone
<1>5. Distance(a, a) = Fewest(m, n, n)
  BY <1>0, <1>1, DistanceIs
<1>6. QED  BY <1>1, <1>3, <1>4, <1>5

(* There are hunks where the texts differ and nowhere else. *)
LEMMA HunksTellApart ==
    ASSUME DiffConstants, sides.a \in Seq(Line), sides.b \in Seq(Line), Shortest(sides, diff.script),
           NEW w, CutUp(diff.script, w), Changes(diff.script) = {} => w = <<>>
    PROVE  diff.hunks = <<>> <=> sides.a = sides.b
<1>1. PICK s, a, b : s = diff.script /\ a = sides.a /\ b = sides.b
  OBVIOUS
<1>2. /\ s \in Seq(Edits) /\ Windows(s, diff.hunks, w)
      /\ Texted(s, InOld) = a /\ Texted(s, InNew) = b
      /\ a \in Seq(Line) /\ b \in Seq(Line)
      /\ \A j \in Changes(s) : InWindow(w, j)
      /\ Distance(a, b) <= MaxDiffDepth => Len(Texted(s, Changed)) = Distance(a, b)
  BY <1>1 DEF CutUp, Shortest
<1>3. Len(diff.hunks) = Len(w) /\ Len(w) \in Nat /\ (diff.hunks = <<>> <=> Len(diff.hunks) = 0)
  <2>1. Len(diff.hunks) = Len(w) /\ Len(w) \in Nat
    BY <1>2, WindowsAre
  <2>2. diff.hunks \in Seq({HunkOver(s, u, v) : u, v \in Nat})
    BY <1>2 DEF Windows
  <2>3. diff.hunks = <<>> <=> Len(diff.hunks) = 0
    <3>1. PICK S : diff.hunks \in Seq(S)
      BY <2>2
    <3>2. QED  BY <3>1
  <2>4. QED  BY <2>1, <2>3
<1>4. ASSUME a = b PROVE Len(w) = 0
  <2>1. Distance(a, b) = 0
    BY <1>2, <1>4, NoDistance
  <2>2. Len(Texted(s, Changed)) = 0
    BY <1>2, <2>1 DEF DiffConstants
  <2>3. Changes(s) = {}
    BY <1>2, <2>2, ChangeIsCounted
  <2>4. w = <<>>
    BY <1>1, <2>3
  <2>5. QED  BY <2>4
<1>5. ASSUME Len(w) = 0 PROVE a = b
  <2>1. NoChange(s, Below(w, Len(w)), Len(s))
    BY <1>2, ApartFromChanges
  <2>2. PICK o \in Nat, n \in Nat : o = 0 /\ n = Len(s) /\ o <= n /\ n <= Len(s) /\ o = Below(w, Len(w))
    <3>1. Below(w, Len(w)) = 0
      BY <1>5 DEF Below
    <3>2. Len(s) \in Nat /\ 0 <= Len(s) /\ 0 \in Nat /\ Len(s) <= Len(s)
      BY <1>2
    <3>3. PICK o, n : o = 0 /\ n = Len(s)
      OBVIOUS
    <3>4. o \in Nat /\ n \in Nat /\ o <= n /\ n <= Len(s) /\ o = Below(w, Len(w))
      BY <3>1, <3>2, <3>3
    <3>5. QED  BY <3>3, <3>4
  <2>3. ReadAlike(s, o, n)
    BY <1>2, <2>1, <2>2, UnchangedReadsAlike
  <2>4. Part(s, o, n) = s
    BY <1>2, <2>2, WholeIs
  <2>5. QED  BY <1>2, <2>3, <2>4 DEF ReadAlike
<1>6. Len(w) = 0 <=> a = b
  BY <1>4, <1>5
<1>7. diff.hunks = <<>> <=> Len(w) = 0
  BY <1>3
<1>8. QED  BY <1>1, <1>6, <1>7

(* The patched lines down to each hunk are the other text's.               *)
LEMMA PatchedTogether ==
    ASSUME NEW s, NEW w, CutUp(s, w), NEW patched,
           patched = FlattenSeq([n \in DOMAIN diff.hunks |-> PatchedBy(n)])
    PROVE  patched = Texted(Part(s, 0, Below(w, Len(w))), InNew)
<1>1. s \in Seq(Edits) /\ Windows(s, diff.hunks, w)
  BY DEF CutUp
<1>2. PICK z \in Nat : z = Len(w) /\ z = Len(diff.hunks) /\ DOMAIN diff.hunks = 1..z
  <2>1. Len(w) \in Nat /\ Len(diff.hunks) = Len(w)
    BY <1>1, WindowsAre
  <2>2. diff.hunks \in Seq({HunkOver(s, u, v) : u, v \in Nat})
    BY <1>1 DEF Windows
  <2>3. DOMAIN diff.hunks = 1..Len(diff.hunks)
    <3>1. PICK S : diff.hunks \in Seq(S)
      BY <2>2
    <3>2. QED  BY <3>1
  <2>4. QED  BY <2>1, <2>3
<1>3. \A n \in 0..z : Below(w, n) \in Nat /\ Below(w, n) <= Len(s)
  BY <1>1, <1>2, WindowsAre
<1>4. \A n \in 1..z : Below(w, n - 1) <= Below(w, n)
  <2>1. SUFFICES ASSUME NEW n \in 1..z PROVE Below(w, n - 1) <= Below(w, n)
    OBVIOUS
  <2>2. /\ Below(w, n - 1) <= w[n][1] /\ w[n][1] < w[n][2] /\ Below(w, n) = w[n][2]
        /\ w[n][1] \in Nat /\ w[n][2] \in Nat
    BY <1>1, <1>2, WindowsAre
  <2>3. n - 1 \in 0..z
    BY <1>2
  <2>4. Below(w, n - 1) \in Nat
    BY <1>3, <2>3
  <2>5. QED  BY <2>2, <2>4
<1>5. ASSUME NEW n \in 1..z
      PROVE  PatchedBy(n) = Texted(Part(s, Below(w, n - 1), Below(w, n)), InNew)
             /\ PatchedBy(n) \in Seq(Line)
  <2>1. PatchedBy(n) = Texted(Part(s, Below(w, n - 1), Below(w, n)), InNew)
    BY <1>2, PatchedByIs
  <2>2. n - 1 \in 0..z /\ n \in 0..z
    OBVIOUS
  <2>3. PICK u \in Nat, v \in Nat : u = Below(w, n - 1) /\ v = Below(w, n) /\ u <= v /\ v <= Len(s) /\ v <= v
    <3>1. PICK u, v : u = Below(w, n - 1) /\ v = Below(w, n)
      OBVIOUS
    <3>2. u \in Nat /\ v \in Nat /\ u <= v /\ v <= Len(s)
      BY <1>3, <1>4, <2>2, <3>1
    <3>3. QED  BY <3>1, <3>2
  <2>4. Texted(Part(s, u, v), InNew) \in Seq(Line)
    BY <1>1, <2>3, PartsRead
  <2>5. QED  BY <2>1, <2>3, <2>4
<1>6. PICK seqs : seqs = [n \in 1..z |-> PatchedBy(n)]
  OBVIOUS
<1>7. seqs \in Seq(Seq(Line)) /\ Len(seqs) = z /\ \A n \in 1..z : seqs[n] = PatchedBy(n)
  <2>1. \A n \in 1..z : PatchedBy(n) \in Seq(Line)
    BY <1>5
  <2>2. QED  BY <1>6, <2>1
<1>8. patched = FlattenSeq(seqs)
  BY <1>2, <1>6
<1>9. CASE z = 0
  <2>1. seqs = <<>>
    BY <1>7, <1>9
  <2>2. patched = <<>>
    BY <1>8, <2>1 DEF FlattenSeq
  <2>3. Below(w, Len(w)) = 0
    BY <1>2, <1>9 DEF Below
  <2>4. 0 <= Len(s) /\ 0 \in Nat
    BY <1>1
  <2>5. Texted(Part(s, 0, 0), InNew) = <<>>
    BY <1>1, <2>4, PartOfNone
  <2>6. QED  BY <2>2, <2>3, <2>5
<1>10. CASE z # 0
  <2>1. PICK f : FlattenedBy(seqs, z, f) /\ patched = f[z]
    <3>1. Len(seqs) # 0
      BY <1>7, <1>10
    <3>2. \E f : FlattenedBy(seqs, Len(seqs), f) /\ FlattenSeq(seqs) = f[Len(seqs)]
      BY <1>7, <3>1, FlattenIs
    <3>3. QED  BY <1>7, <1>8, <3>2
  <2> DEFINE T == {n \in Nat : n + 1 <= z => f[n + 1] = Texted(Part(s, 0, Below(w, n + 1)), InNew)}
  <2>2. 0 \in T
    <3>1. 1 \in 1..z /\ 1 - 1 = 0 /\ 0 + 1 = 1
      BY <1>10
    <3>2. f[1] = PatchedBy(1)
      BY <1>7, <2>1, <3>1 DEF FlattenedBy
    <3>3. PatchedBy(1) = Texted(Part(s, Below(w, 0), Below(w, 1)), InNew)
      BY <1>5, <3>1
    <3>4. Below(w, 0) = 0
      BY DEF Below
    <3>5. QED  BY <3>1, <3>2, <3>3, <3>4
  <2>3. ASSUME NEW n \in T PROVE n + 1 \in T
    <3> SUFFICES ASSUME (n + 1) + 1 <= z
                 PROVE  f[(n + 1) + 1] = Texted(Part(s, 0, Below(w, (n + 1) + 1)), InNew)
      OBVIOUS
    <3>1. PICK k \in Nat, l \in Nat : /\ k = n + 1 /\ l = (n + 1) + 1 /\ l - 1 = k /\ k <= z
                                      /\ k \in 0..z /\ l \in 1..z /\ l \in 0..z /\ l \in 2..z
      OBVIOUS
    <3>2. f[k] = Texted(Part(s, 0, Below(w, k)), InNew)
      BY <3>1
    <3>3. f[l] = f[k] \o PatchedBy(l)
      BY <1>7, <2>1, <3>1 DEF FlattenedBy
    <3>4. PICK u \in Nat, v \in Nat, o \in Nat : /\ u = Below(w, k) /\ v = Below(w, l) /\ o = 0 /\ o <= u
                                                 /\ u <= v /\ v <= Len(s)
      BY <1>3, <1>4, <3>1
    <3>5. PatchedBy(l) = Texted(Part(s, u, v), InNew)
      BY <1>5, <3>1, <3>4
    <3>6. Joined(Texted(Part(s, o, v), InNew), Texted(Part(s, o, u), InNew), Texted(Part(s, u, v), InNew))
      BY <1>1, <3>4, PartsRead
    <3>7. f[l] = Texted(Part(s, o, v), InNew)
      BY <3>2, <3>3, <3>4, <3>5, <3>6 DEF Joined
    <3>8. QED  BY <3>1, <3>4, <3>7
  <2>4. T \in SUBSET Nat
    OBVIOUS
  <2>5. PICK n \in Nat : n + 1 = z
    <3>1. z - 1 \in Nat /\ (z - 1) + 1 = z
      BY <1>10
    <3>2. QED  BY <3>1
  <2>6. n \in T
    <3> HIDE DEF T
    <3>1. QED  BY <2>2, <2>3, <2>4, Counting
  <2>7. f[z] = Texted(Part(s, 0, Below(w, z)), InNew)
    BY <2>5, <2>6
  <2>8. QED  BY <1>2, <2>1, <2>7
<1>11. QED  BY <1>9, <1>10

(* And with the lines below the last, all of it. *)
LEMMA PatchedToOther ==
    ASSUME NEW s, NEW w, CutUp(s, w)
    PROVE  FlattenSeq([n \in DOMAIN diff.hunks |-> PatchedBy(n)])
              \o SubSeq(sides.a, BelowHunk(Len(diff.hunks)), Len(sides.a)) = sides.b
<1>1. /\ s \in Seq(Edits) /\ Windows(s, diff.hunks, w) /\ \A j \in Changes(s) : InWindow(w, j)
      /\ Texted(s, InOld) = sides.a /\ Texted(s, InNew) = sides.b
  BY DEF CutUp
<1>2. PICK patched : patched = FlattenSeq([n \in DOMAIN diff.hunks |-> PatchedBy(n)])
  OBVIOUS
<1>3. patched = Texted(Part(s, 0, Below(w, Len(w))), InNew)
  BY <1>2, PatchedTogether
<1>4. PICK z \in Nat : z = Len(w) /\ z = Len(diff.hunks) /\ z \in 0..Len(w)
  BY <1>1, WindowsAre
<1>5. PICK u \in Nat, n \in Nat, o \in Nat : /\ u = Below(w, z) /\ n = Len(s) /\ o = 0 /\ o <= u
                                             /\ u <= n /\ n <= Len(s)
  BY <1>1, <1>4, WindowsAre
<1>6. BelowHunk(z) = Reached(s, InOld, u) + 1
  BY <1>4, <1>5, BelowHunkIs
<1>7. Len(sides.a) = Reached(s, InOld, n)
  BY <1>1, <1>5, WholeIs
<1>8. SubSeq(sides.a, BelowHunk(z), Len(sides.a)) = Texted(Part(s, u, n), InOld)
  <2>1. PICK x, y : x = BelowHunk(z) /\ y = Len(sides.a)
    OBVIOUS
  <2>2. x = Reached(s, InOld, u) + 1 /\ y = Reached(s, InOld, n)
    BY <1>6, <1>7, <2>1
  <2>3. SubSeq(Texted(s, InOld), x, y) = Texted(Part(s, u, n), InOld)
    BY <1>1, <1>5, <2>2, LinesBetween
  <2>4. QED  BY <1>1, <2>1, <2>3
<1>9. ReadAlike(s, u, n)
  <2>1. NoChange(s, u, n)
    BY <1>1, <1>4, <1>5, ApartFromChanges
  <2>2. QED  BY <1>1, <1>5, <2>1, UnchangedReadsAlike
<1>10. Joined(Texted(Part(s, o, n), InNew), Texted(Part(s, o, u), InNew), Texted(Part(s, u, n), InNew))
  BY <1>1, <1>5, PartsRead
<1>11. Part(s, o, n) = s
  BY <1>1, <1>5, WholeIs
<1>12. patched \o SubSeq(sides.a, BelowHunk(z), Len(sides.a)) = sides.b
  BY <1>1, <1>3, <1>4, <1>5, <1>8, <1>9, <1>10, <1>11 DEF Joined, ReadAlike
<1>13. QED  BY <1>2, <1>4, <1>12
-----------------------------------------------------------------------------
LEMMA HunksApply ==
    ASSUME DiffConstants, sides.a \in Seq(Line), sides.b \in Seq(Line), Shortest(sides, diff.script),
           diff.hunks = Hunks(diff.script)
    PROVE  PatchesApply
<1>1. PICK s : s = diff.script
  OBVIOUS
<1>2. /\ s \in Seq(Edits) /\ Texted(s, InOld) = sides.a /\ Texted(s, InNew) = sides.b
      /\ diff.hunks = Hunks(s)
  BY <1>1 DEF Shortest
<1>3. PICK w : /\ Windows(s, Hunks(s), w)
               /\ \A j \in Changes(s) : \E i \in 1..Len(w) : w[i][1] < j /\ j <= w[i][2]
               /\ Changes(s) = {} => w = <<>>
  BY <1>2, HunksCover
<1>4. CutUp(s, w)
  BY <1>1, <1>2, <1>3 DEF CutUp, InWindow
<1>5. diff.hunks = <<>> <=> sides.a = sides.b
  BY <1>1, <1>3, <1>4, HunksTellApart
<1>6. \A n \in DOMAIN diff.hunks : HunkHolds(n)
  <2>1. DOMAIN diff.hunks = 1..Len(w)
    <3>1. Len(diff.hunks) = Len(w)
      BY <1>2, <1>3, WindowsAre
    <3>2. PICK S : diff.hunks \in Seq(S)
      BY <1>2, <1>3 DEF Windows
    <3>3. QED  BY <3>1, <3>2
  <2>2. QED  BY <1>4, <2>1, EachHunkHolds
<1>7. FlattenSeq([n \in DOMAIN diff.hunks |-> PatchedBy(n)])
         \o SubSeq(sides.a, BelowHunk(Len(diff.hunks)), Len(sides.a)) = sides.b
  BY <1>4, PatchedToOther
<1>8. QED  BY <1>5, <1>6, <1>7, Zenon DEF PatchesApply, HunkHolds

(* The texts stay, and what is printed of them is there once it is come to. *)
CutAsSaid ==
    /\ sides.a \in Texts /\ sides.b \in Texts
    /\ search.stage \notin {"hunks", "compared"} => diff.script = <<>>
    /\ diff.hunks = IF search.stage = "compared" THEN Hunks(diff.script) ELSE <<>>

LEMMA CutAlways ==
    ASSUME DiffConstants
    PROVE  DiffSpec => []CutAsSaid
<1>1. DiffInit => CutAsSaid
  BY DEF DiffInit, CutAsSaid
<1>2. Comparing /\ CutAsSaid /\ [DiffNext]_comparing => CutAsSaid'
  <2>1. SUFFICES ASSUME Comparing, CutAsSaid, [DiffNext]_comparing PROVE CutAsSaid'
    OBVIOUS
  <2>2. CASE Trim
    <3>1. search'.stage \in {"script", "search"} /\ sides' = sides /\ diff' = diff /\ search.stage = "trim"
      BY <2>2 DEF Trim
    <3>2. QED  BY <2>1, <3>1 DEF CutAsSaid
  <2>3. search.stage # "trim" => Shape(search)
    BY <2>1 DEF Comparing, Progress
  <2>4. CASE Deepen
    <3>1. search.stage = "search" /\ Shape(search) /\ sides' = sides /\ diff' = diff
      BY <2>3, <2>4 DEF Deepen
    <3>2. search'.stage \in {"back", "script", "search"}
      BY <2>4, <3>1 DEF Deepen, Shape
    <3>3. QED  BY <2>1, <3>1, <3>2 DEF CutAsSaid
  <2>5. CASE WalkBack
    <3> DEFINE d == Len(search.trace) - 1
               v == search.trace[d + 1]
               came == Back(v, d, search.at[1], search.at[2])
               same == Shorter(search.at[1] - came[1], search.at[2] - came[2])
               pairs == [i \in 1..same |-> <<search.at[1] - same + i, search.at[2] - same + i>>]
                           \o search.pairs
               trace == SubSeq(search.trace, 1, d)
    <3>1. search.stage = "back" /\ UNCHANGED <<sides, diff>>
      BY <2>5 DEF WalkBack
    <3>2. search' = [search EXCEPT !.pairs = pairs, !.at = came, !.trace = trace,
                                   !.stage = IF d = 0 THEN "script" ELSE search.stage]
      BY <2>5, Zenon DEF WalkBack, Back
    <3>3. Shape(search)
      BY <2>3, <3>1
    <3> HIDE DEF pairs, came, trace, d
    <3>4. search'.stage \in {"back", "script"}
      BY <3>1, <3>2, <3>3 DEF Shape
    <3>5. QED  BY <2>1, <3>1, <3>4 DEF CutAsSaid
  <2>6. CASE Script
    <3>1. PICK script : script = EditScript(Common)
      OBVIOUS
    <3>2. /\ search.stage = "script" /\ Shape(search) /\ search' = [search EXCEPT !.stage = "hunks"]
          /\ sides' = sides /\ diff' = [diff EXCEPT !.script = script]
          /\ diff = [script |-> diff.script, hunks |-> diff.hunks]
      BY <2>1, <2>3, <2>6, <3>1 DEF Script, Comparing
    <3>3. search'.stage = "hunks" /\ diff'.hunks = diff.hunks
      BY <3>2 DEF Shape
    <3>4. QED  BY <2>1, <3>2, <3>3 DEF CutAsSaid
  <2>7. CASE Cut
    <3>1. PICK hunks : hunks = Hunks(diff.script)
      OBVIOUS
    <3>2. /\ search.stage = "hunks" /\ Shape(search) /\ search' = [search EXCEPT !.stage = "compared"]
          /\ sides' = sides /\ diff' = [diff EXCEPT !.hunks = hunks]
          /\ diff = [script |-> diff.script, hunks |-> diff.hunks]
      BY <2>1, <2>3, <2>7, <3>1 DEF Cut, Comparing
    <3>3. search'.stage = "compared" /\ diff'.script = diff.script /\ diff'.hunks = hunks
      BY <3>2 DEF Shape
    <3>4. QED  BY <2>1, <3>1, <3>2, <3>3 DEF CutAsSaid
  <2>8. CASE UNCHANGED comparing  BY <2>1, <2>8 DEF comparing, CutAsSaid
  <2>9. QED  BY <2>1, <2>2, <2>4, <2>5, <2>6, <2>7, <2>8 DEF DiffNext
<1>3. DiffSpec => []Comparing
  BY ComparingAlways
<1>4. QED  BY <1>1, <1>2, <1>3, PTL DEF DiffSpec

(* The texts, the script and the lines of every hunk are well typed, at    *)
(* each step of a comparison.                                              *)
THEOREM DiffTypes ==
    ASSUME DiffConstants
    PROVE  DiffSpec => []DiffTypeOK
<1>1. Comparing /\ CutAsSaid => DiffTypeOK
  <2>1. SUFFICES ASSUME Comparing, CutAsSaid PROVE DiffTypeOK
    OBVIOUS
  <2>2. diff.script \in Seq(Edits)
    <3>1. CASE search.stage \in {"hunks", "compared"}
      BY <2>1, <3>1 DEF Comparing, Progress, Shortest
    <3>2. CASE search.stage \notin {"hunks", "compared"}
      BY <2>1, <3>2, TextedOfNone DEF CutAsSaid
    <3>3. QED  BY <3>1, <3>2
  <2>3. \A i \in DOMAIN diff.hunks : diff.hunks[i].edits \in Seq(Edits)
    <3>1. CASE search.stage # "compared"
      <4>1. diff.hunks = <<>>
        BY <2>1, <3>1 DEF CutAsSaid
      <4>2. QED  BY <4>1
    <3>2. CASE search.stage = "compared"
      <4>1. SUFFICES ASSUME NEW i \in DOMAIN diff.hunks PROVE diff.hunks[i].edits \in Seq(Edits)
        OBVIOUS
      <4>2. diff.hunks = Hunks(diff.script)
        BY <2>1, <3>2 DEF CutAsSaid
      <4>3. PICK w : Windows(diff.script, diff.hunks, w)
        BY <2>2, <4>2, HunksCover
      <4>4. i \in 1..Len(w)
        <5>1. PICK S : diff.hunks \in Seq(S)
          BY <4>3 DEF Windows
        <5>2. DOMAIN diff.hunks = 1..Len(diff.hunks)
          BY <5>1
        <5>3. QED  BY <4>3, <5>2 DEF Windows
      <4>5. PICK u, v : u = w[i][1] /\ v = w[i][2]
        OBVIOUS
      <4>6. u \in Nat /\ v \in Nat /\ u <= v /\ v <= Len(diff.script) /\ diff.hunks[i] = HunkOver(diff.script, u, v)
        BY <2>2, <4>3, <4>4, <4>5, WindowsAre
      <4>7. Part(diff.script, u, v) \in Seq(Edits)
        BY <2>2, <4>6, PartIs
      <4>8. QED  BY <4>6, <4>7 DEF HunkOver
    <3>3. QED  BY <3>1, <3>2
  <2>4. QED  BY <2>1, <2>2, <2>3 DEF DiffTypeOK, CutAsSaid
<1>2. DiffSpec => []Comparing /\ []CutAsSaid
  BY ComparingAlways, CutAlways
<1>3. QED  BY <1>1, <1>2, PTL

(* A reader of the patch, going by the ranges of its headers, finds in     *)
(* each text what each hunk shows of it, no hunk above or over the one     *)
(* before it, and makes the one text of the other; and two texts have no   *)
(* hunks where they are the same and nowhere else.  So whatever the texts, *)
(* the depth the search gives up at and the lines of context: how the      *)
(* script is cut at changes far enough apart, how far context is shown at  *)
(* both ends of a text, and the ranges of insertions into nothing.         *)
THEOREM HunksPatch ==
    ASSUME DiffConstants
    PROVE  DiffSpec => []PatchesApply
<1>1. Comparing /\ CutAsSaid => PatchesApply
  <2>1. SUFFICES ASSUME Comparing, CutAsSaid, search.stage = "compared" PROVE PatchesApply
    BY DEF PatchesApply, Compared
  <2>2. sides.a \in Seq(Line) /\ sides.b \in Seq(Line) /\ Shortest(sides, diff.script)
    BY <2>1 DEF Comparing, Progress
  <2>3. diff.hunks = Hunks(diff.script)
    BY <2>1 DEF CutAsSaid
  <2>4. QED  BY <2>2, <2>3, HunksApply
<1>2. DiffSpec => []Comparing /\ []CutAsSaid
  BY ComparingAlways, CutAlways
<1>3. QED  BY <1>1, <1>2, PTL
=============================================================================
