---------------------------- MODULE FramesProofs ----------------------------
(***************************************************************************)
(* Proofs about Frames for every registry of every number of frames.  The  *)
(* walk to a root is a recursive function, so its value is first shown to  *)
(* be that of some function which climbs; what a walk has at each step is  *)
(* then shown of every step, and that no walk outlasts the frames there    *)
(* are.  A route is what two finished walks do not share.                  *)
(*                                                                         *)
(* A budget is folded out of lists in the order they were read, and what it*)
(* is worth is a sum.  So sums over finite sets come first, which come to  *)
(* the same in any order; then what the terms of a budget have of the terms*)
(* of the claims (Tallies, Accounts), which every claim added keeps; then  *)
(* what is told of a budget, which only its claims decide (Worth).         *)
(***************************************************************************)
EXTENDS Frames, FiniteSetTheorems, SequenceTheorems, WellFoundedInduction, TLAPS

(* What is asked is asked of a registry. *)
JourneyInv == journey \in [parent : Registries, fit : Fits, from : Frame \cup {Undeclared}, to : Frame]

(* A parent is a frame, or an id nobody declared, or missing. *)
LEMMA ParentIs ==
    ASSUME FrameConstants, JourneyInv
    PROVE  /\ journey.parent \in [Frame -> Frame \cup {NoFrame, Undeclared}]
           /\ NoFrame \notin Frame /\ Undeclared \notin Frame /\ NoFrame # Undeclared
BY DEF FrameConstants, JourneyInv

(* A set of naturals which holds the first and the next of each is all.    *)
LEMMA AllNaturals ==
    ASSUME NEW T \in SUBSET Nat, 0 \in T, \A n \in T : n + 1 \in T
    PROVE  T = Nat
<1> SUFFICES ASSUME Nat \ T # {} PROVE FALSE
  OBVIOUS
<1> DEFINE rest == Nat \ T
<1>1. PICK n \in rest : \A m \in rest : ~(<<m, n>> \in OpToRel(<, Nat))
  <2>1. rest \subseteq Nat /\ rest # {}
    OBVIOUS
  <2> HIDE DEF rest
  <2>2. QED  BY <2>1, NatLessThanWellFounded, WFMin
<1>2. \A m \in rest : ~(m < n)
  <2>1. \A m \in rest : m \in Nat /\ n \in Nat
    OBVIOUS
  <2> HIDE DEF rest
  <2>2. QED  BY <1>1, <2>1 DEF OpToRel
<1>3. n \in Nat \ T /\ n # 0 /\ n - 1 \in Nat /\ n - 1 < n /\ (n - 1) + 1 = n
  OBVIOUS
<1>4. n - 1 \in T
  BY <1>2, <1>3
<1>5. QED  BY <1>3, <1>4
-----------------------------------------------------------------------------
(* The walk. *)
Walking == [at : Frame \cup {NoFrame, Undeclared}, chain : Seq(Frame),
            error : {"none", "cycle", "undeclared"}]
Start(frame) == [at |-> frame, chain |-> <<>>, error |-> "none"]
(* The walks of some number of steps from a frame. *)
Climbs(frame, n) ==
    {walk \in [0..n -> Walking] :
        walk[0] = Start(frame) /\ \A k \in 1..n : walk[k] = Climbed(walk[k - 1])}

LEMMA ClimbedIs ==
    ASSUME FrameConstants, JourneyInv, NEW walk \in Walking
    PROVE  Climbed(walk) \in Walking
<1>1. CASE walk.at = NoFrame \/ walk.error # "none"
  BY <1>1 DEF Climbed
<1>2. CASE /\ ~(walk.at = NoFrame \/ walk.error # "none")
           /\ walk.at \in ToSet(walk.chain) \/ walk.at \notin Frame
  <2>1. \E error \in {"cycle", "undeclared"} : Climbed(walk) = [walk EXCEPT !.error = error]
    BY <1>2 DEF Climbed
  <2>2. QED  BY <2>1 DEF Walking
<1>3. CASE /\ ~(walk.at = NoFrame \/ walk.error # "none")
           /\ walk.at \notin ToSet(walk.chain) /\ walk.at \in Frame
  <2>1. Climbed(walk) = [at |-> journey.parent[walk.at], chain |-> Append(walk.chain, walk.at),
                         error |-> "none"]
    BY <1>3 DEF Climbed
  <2>2. journey.parent[walk.at] \in Frame \cup {NoFrame, Undeclared}
    BY <1>3, ParentIs
  <2>3. Append(walk.chain, walk.at) \in Seq(Frame)
    BY <1>3 DEF Walking
  <2>4. QED  BY <2>1, <2>2, <2>3 DEF Walking
<1>4. QED  BY <1>1, <1>2, <1>3

(* There is a walk of every number of steps, and no two of them differ.    *)
LEMMA WalksGoOn ==
    ASSUME FrameConstants, JourneyInv, NEW frame \in Frame, NEW n \in Nat
    PROVE  Climbs(frame, n) # {}
<1> DEFINE T == {m \in Nat : Climbs(frame, m) # {}}
<1>1. 0 \in T
  <2>1. Start(frame) \in Walking
    BY DEF Start, Walking
  <2>2. [k \in 0..0 |-> Start(frame)] \in Climbs(frame, 0)
    BY <2>1 DEF Climbs
  <2>3. QED  BY <2>2
<1>2. ASSUME NEW m \in T PROVE m + 1 \in T
  <2>1. PICK walk : walk \in Climbs(frame, m)
    OBVIOUS
  <2>2. walk \in [0..m -> Walking] /\ walk[0] = Start(frame)
        /\ \A k \in 1..m : walk[k] = Climbed(walk[k - 1])
    BY <2>1 DEF Climbs
  <2> DEFINE next == [k \in 0..(m + 1) |-> IF k = m + 1 THEN Climbed(walk[m]) ELSE walk[k]]
  <2>3. walk[m] \in Walking
    BY <2>2
  <2>4. Climbed(walk[m]) \in Walking
    BY <2>3, ClimbedIs
  <2>5. next \in [0..(m + 1) -> Walking]
    BY <2>2, <2>4
  <2>6. next[0] = Start(frame)
    BY <2>2
  <2>7. ASSUME NEW k \in 1..(m + 1) PROVE next[k] = Climbed(next[k - 1])
    <3>1. CASE k = m + 1
      BY <3>1
    <3>2. CASE k # m + 1
      <4>1. k \in 1..m /\ k - 1 \in 0..m
        BY <3>2
      <4>2. next[k] = walk[k] /\ next[k - 1] = walk[k - 1]
        BY <4>1
      <4>3. QED  BY <4>1, <4>2, <2>2
    <3>3. QED  BY <3>1, <3>2
  <2> HIDE DEF next
  <2>8. next \in Climbs(frame, m + 1)
    BY <2>5, <2>6, <2>7 DEF Climbs
  <2>9. QED  BY <2>8
<1> HIDE DEF T
<1>3. T = Nat
  BY <1>1, <1>2, AllNaturals DEF T
<1>4. QED  BY <1>3 DEF T

LEMMA WalksAgree ==
    ASSUME FrameConstants, JourneyInv, NEW frame \in Frame, NEW m \in Nat, NEW n \in Nat,
           NEW walk \in Climbs(frame, m), NEW other \in Climbs(frame, n),
           NEW k \in Nat, k <= m, k <= n
    PROVE  walk[k] = other[k]
<1> DEFINE T == {i \in Nat : i <= m /\ i <= n => walk[i] = other[i]}
<1>1. 0 \in T
  BY DEF Climbs
<1>2. ASSUME NEW i \in T PROVE i + 1 \in T
  <2> SUFFICES ASSUME i + 1 <= m, i + 1 <= n PROVE walk[i + 1] = other[i + 1]
    OBVIOUS
  <2>1. walk[i] = other[i]
    OBVIOUS
  <2>2. i + 1 \in 1..m /\ i + 1 \in 1..n /\ (i + 1) - 1 = i
    OBVIOUS
  <2>3. walk[i + 1] = Climbed(walk[i]) /\ other[i + 1] = Climbed(other[i])
    BY <2>2 DEF Climbs
  <2>4. QED  BY <2>1, <2>3
<1> HIDE DEF T
<1>3. T = Nat
  BY <1>1, <1>2, AllNaturals DEF T
<1>4. QED  BY <1>3 DEF T

(* The function Ancestry defines is one which climbs. *)
LEMMA AncestryClimbs ==
    ASSUME FrameConstants, JourneyInv, NEW frame \in Frame
    PROVE  \E walk \in [Nat -> Walking] :
              /\ walk[0] = Start(frame)
              /\ \A k \in Nat : walk[k + 1] = Climbed(walk[k])
              /\ Ancestry(frame) = walk[Cardinality(Frame) + 1]
<1> DEFINE some[k \in Nat] == (CHOOSE w \in Climbs(frame, k) : TRUE)[k]
           walk[k \in Nat] == IF k = 0 THEN [at |-> frame, chain |-> <<>>, error |-> "none"]
                              ELSE Climbed(walk[k - 1])
<1>1. ASSUME NEW k \in Nat, NEW w \in Climbs(frame, k) PROVE some[k] = w[k]
  <2>1. (CHOOSE v \in Climbs(frame, k) : TRUE) \in Climbs(frame, k)
    OBVIOUS
  <2> DEFINE u == CHOOSE v \in Climbs(frame, k) : TRUE
  <2>2. u \in Climbs(frame, k) /\ some[k] = u[k]
    BY <2>1
  <2> HIDE DEF u
  <2>3. u[k] = w[k]
    BY <2>2, WalksAgree
  <2>4. QED  BY <2>2, <2>3
<1>2. some[0] = Start(frame)
  <2>1. PICK w : w \in Climbs(frame, 0)
    BY WalksGoOn
  <2>2. QED  BY <2>1, <1>1 DEF Climbs
<1>3. ASSUME NEW k \in Nat PROVE some[k + 1] = Climbed(some[k])
  <2>1. PICK w : w \in Climbs(frame, k + 1)
    BY WalksGoOn
  <2>2. PICK v : v \in Climbs(frame, k)
    BY WalksGoOn
  <2>3. v[k] = w[k]
    BY <2>1, <2>2, WalksAgree
  <2>4. k + 1 \in 1..(k + 1) /\ (k + 1) - 1 = k
    OBVIOUS
  <2>5. w[k + 1] = Climbed(w[k])
    BY <2>1, <2>4 DEF Climbs
  <2>6. some[k] = v[k] /\ some[k + 1] = w[k + 1]
    BY <2>1, <2>2, <1>1
  <2>7. QED  BY <2>3, <2>5, <2>6
<1>4. \A k \in Nat : some[k] \in Walking
  <2> SUFFICES ASSUME NEW k \in Nat PROVE some[k] \in Walking
    OBVIOUS
  <2>1. PICK w : w \in Climbs(frame, k)
    BY WalksGoOn
  <2>2. w[k] \in Walking
    BY <2>1 DEF Climbs
  <2>3. QED  BY <2>1, <2>2, <1>1
<1>5. some = [k \in Nat |-> some[k]]
  OBVIOUS
<1> HIDE DEF some
<1>6. some = [k \in Nat |-> IF k = 0 THEN [at |-> frame, chain |-> <<>>, error |-> "none"]
                            ELSE Climbed(some[k - 1])]
  <2>1. \A k \in Nat : some[k] = IF k = 0 THEN [at |-> frame, chain |-> <<>>, error |-> "none"]
                                 ELSE Climbed(some[k - 1])
    <3> SUFFICES ASSUME NEW k \in Nat
                 PROVE  some[k] = IF k = 0 THEN [at |-> frame, chain |-> <<>>, error |-> "none"]
                                  ELSE Climbed(some[k - 1])
      OBVIOUS
    <3>1. CASE k = 0
      BY <3>1, <1>2 DEF Start
    <3>2. CASE k # 0
      <4>1. k - 1 \in Nat /\ (k - 1) + 1 = k
        BY <3>2
      <4>2. some[(k - 1) + 1] = Climbed(some[k - 1])
        BY <4>1, <1>3
      <4>3. QED  BY <3>2, <4>1, <4>2
    <3>3. QED  BY <3>1, <3>2
  <2>2. QED  BY <2>1, <1>5
<1>7. walk = [k \in Nat |-> IF k = 0 THEN [at |-> frame, chain |-> <<>>, error |-> "none"]
                            ELSE Climbed(walk[k - 1])]
  <2>1. \E w : w = [k \in Nat |-> IF k = 0 THEN [at |-> frame, chain |-> <<>>, error |-> "none"]
                                  ELSE Climbed(w[k - 1])]
    BY <1>6
  <2>2. QED  BY <2>1, Zenon
<1>8. Ancestry(frame) = walk[Cardinality(Frame) + 1]
  BY DEF Ancestry
<1> HIDE DEF walk
<1>9. walk[0] = Start(frame)
  BY <1>7 DEF Start
<1>10. ASSUME NEW k \in Nat PROVE walk[k + 1] = Climbed(walk[k])
  <2>1. k + 1 \in Nat /\ k + 1 # 0 /\ (k + 1) - 1 = k
    OBVIOUS
  <2>2. walk[k + 1] = Climbed(walk[(k + 1) - 1])
    BY <1>7, <2>1
  <2>3. QED  BY <2>1, <2>2
<1>11. walk \in [Nat -> Walking]
  <2> DEFINE T == {k \in Nat : walk[k] \in Walking}
  <2>1. 0 \in T
    <3>1. Start(frame) \in Walking
      BY DEF Start, Walking
    <3>2. QED  BY <3>1, <1>9
  <2>2. ASSUME NEW k \in T PROVE k + 1 \in T
    BY <1>10, ClimbedIs
  <2> HIDE DEF T
  <2>3. T = Nat
    BY <2>1, <2>2, AllNaturals DEF T
  <2>4. \A k \in Nat : walk[k] \in Walking
    BY <2>3 DEF T
  <2>5. QED  BY <2>4, <1>7
<1>12. QED  BY <1>8, <1>9, <1>10, <1>11
-----------------------------------------------------------------------------
(* A set of frames which holds the parent of each of its frames. *)
Closed(s) == \A g \in s : journey.parent[g] \in Frame => journey.parent[g] \in s

(* What is above a frame is the least such set which holds it. *)
LEMMA AboveIs ==
    ASSUME NEW frame \in Frame
    PROVE  /\ Above(frame) \in SUBSET Frame /\ frame \in Above(frame) /\ Closed(Above(frame))
           /\ \A s \in SUBSET Frame : frame \in s /\ Closed(s) => Above(frame) \subseteq s
BY DEF Above, Closed

(* Frames one after another, each the parent of the one before it, none of *)
(* them twice.                                                             *)
Linked(chain) ==
    /\ chain \in Seq(Frame)
    /\ \A i, j \in DOMAIN chain : chain[i] = chain[j] => i = j
    /\ \A i \in DOMAIN chain : i < Len(chain) => chain[i + 1] = journey.parent[chain[i]]

LEMMA LinkedGrows ==
    ASSUME NEW chain, Linked(chain), NEW f \in Frame, f \notin ToSet(chain),
           chain # <<>> => f = journey.parent[chain[Len(chain)]]
    PROVE  Linked(Append(chain, f))
<1> DEFINE more == Append(chain, f)
<1>1. /\ more \in Seq(Frame) /\ Len(more) = Len(chain) + 1 /\ Len(chain) \in Nat
      /\ DOMAIN chain = 1..Len(chain) /\ DOMAIN more = 1..Len(more)
      /\ \A i \in DOMAIN chain : more[i] = chain[i]
      /\ more[Len(chain) + 1] = f
  BY DEF Linked
<1>2. \A i \in DOMAIN chain : chain[i] # f
  BY DEF ToSet
<1> HIDE DEF more
<1>3. ASSUME NEW i \in DOMAIN more, NEW j \in DOMAIN more, more[i] = more[j] PROVE i = j
  <2>1. CASE i \in DOMAIN chain /\ j \in DOMAIN chain
    BY <2>1, <1>1, <1>3 DEF Linked
  <2>2. CASE i \notin DOMAIN chain \/ j \notin DOMAIN chain
    BY <2>2, <1>1, <1>2, <1>3
  <2>3. QED  BY <2>1, <2>2
<1>4. ASSUME NEW i \in DOMAIN more, i < Len(more) PROVE more[i + 1] = journey.parent[more[i]]
  <2>1. i \in DOMAIN chain /\ more[i] = chain[i]
    BY <1>1, <1>4
  <2>2. CASE i = Len(chain)
    <3>1. chain # <<>>
      BY <2>1, <1>1
    <3>2. QED  BY <3>1, <2>1, <2>2, <1>1
  <2>3. CASE i # Len(chain)
    <3>1. i < Len(chain) /\ i + 1 \in DOMAIN chain
      BY <2>1, <2>3, <1>1
    <3>2. chain[i + 1] = journey.parent[chain[i]]
      BY <2>1, <3>1 DEF Linked
    <3>3. QED  BY <2>1, <3>1, <3>2, <1>1
  <2>4. QED  BY <2>2, <2>3
<1>5. QED  BY <1>1, <1>3, <1>4 DEF Linked, more

(* There are no more frames in a chain than there are. *)
LEMMA LinkedIsShort ==
    ASSUME FrameConstants, NEW chain, Linked(chain)
    PROVE  Len(chain) \in Nat /\ Len(chain) <= Cardinality(Frame)
<1>1. chain \in [1..Len(chain) -> Frame] /\ Len(chain) \in Nat /\ DOMAIN chain = 1..Len(chain)
  BY DEF Linked
<1>2. chain \in Injection(1..Len(chain), Frame)
  BY <1>1 DEF Linked, Injection, IsInjective
<1>3. IsFiniteSet(Frame)
  BY DEF FrameConstants
<1>4. Cardinality(1..Len(chain)) <= Cardinality(Frame)
  BY <1>2, <1>3, FS_Injection
<1>5. Cardinality(1..Len(chain)) = Len(chain)
  <2>1. 1 \in Int /\ Len(chain) \in Int
    BY <1>1
  <2>2. Cardinality(1..Len(chain)) = IF 1 > Len(chain) THEN 0 ELSE Len(chain) - 1 + 1
    BY <2>1, FS_Interval
  <2>3. QED  BY <2>2, <1>1
<1>6. QED  BY <1>1, <1>4, <1>5

(* What a walk has after k steps: it has passed frames above the one it    *)
(* left, and is at the parent of the last of them.                         *)
WalkInv(frame, k, walk) ==
    /\ walk \in Walking /\ Linked(walk.chain)
    /\ ToSet(walk.chain) \subseteq Above(frame)
    /\ walk.chain = <<>> => walk.at = frame
    /\ walk.chain # <<>> => /\ walk.chain[1] = frame
                            /\ walk.at = journey.parent[walk.chain[Len(walk.chain)]]
    /\ walk.error = "none" => walk.at = NoFrame \/ Len(walk.chain) = k
    /\ walk.error = "cycle" => walk.at \in ToSet(walk.chain)
    /\ walk.error = "undeclared" => walk.at = Undeclared

LEMMA WalkStarts ==
    ASSUME NEW frame \in Frame
    PROVE  WalkInv(frame, 0, Start(frame))
<1>1. Start(frame) \in Walking
  BY DEF Start, Walking
<1>2. Linked(<<>>)
  BY DEF Linked
<1>3. ToSet(<<>>) = {}
  BY DEF ToSet
<1>4. Start(frame).chain = <<>> /\ Start(frame).at = frame /\ Start(frame).error = "none" /\ Len(<<>>) = 0
  BY DEF Start
<1>5. QED  BY <1>1, <1>2, <1>3, <1>4 DEF WalkInv

LEMMA WalkClimbs ==
    ASSUME FrameConstants, JourneyInv, NEW frame \in Frame, NEW k \in Nat, NEW walk,
           WalkInv(frame, k, walk)
    PROVE  WalkInv(frame, k + 1, Climbed(walk))
<1> DEFINE chain == walk.chain
           more == Append(chain, walk.at)
<1>0. walk \in Walking /\ chain \in Seq(Frame) /\ Climbed(walk) \in Walking
  BY ClimbedIs DEF WalkInv, Walking
<1>1. CASE walk.at = NoFrame \/ walk.error # "none"
  BY <1>1 DEF Climbed, WalkInv
<1>2. CASE ~(walk.at = NoFrame \/ walk.error # "none") /\ walk.at \in ToSet(chain)
  <2>1. Climbed(walk) = [walk EXCEPT !.error = "cycle"]
    BY <1>2 DEF Climbed
  <2>2. /\ Climbed(walk).chain = chain /\ Climbed(walk).at = walk.at /\ Climbed(walk).error = "cycle"
    BY <2>1, <1>0 DEF Walking
  <2>3. QED  BY <2>2, <1>0, <1>2 DEF WalkInv
<1>3. CASE ~(walk.at = NoFrame \/ walk.error # "none") /\ walk.at \notin ToSet(chain) /\ walk.at \notin Frame
  <2>1. Climbed(walk) = [walk EXCEPT !.error = "undeclared"]
    BY <1>3 DEF Climbed
  <2>2. /\ Climbed(walk).chain = chain /\ Climbed(walk).at = walk.at /\ Climbed(walk).error = "undeclared"
    BY <2>1, <1>0 DEF Walking
  <2>3. walk.at = Undeclared
    BY <1>3, <1>0 DEF Walking
  <2>4. QED  BY <2>2, <2>3, <1>0 DEF WalkInv
<1>4. CASE ~(walk.at = NoFrame \/ walk.error # "none") /\ walk.at \notin ToSet(chain) /\ walk.at \in Frame
  <2>1. Climbed(walk) = [at |-> journey.parent[walk.at], chain |-> more, error |-> "none"]
    BY <1>4 DEF Climbed
  <2>2. Linked(more)
    <3>1. Linked(chain) /\ (chain # <<>> => walk.at = journey.parent[chain[Len(chain)]])
      BY DEF WalkInv
    <3> HIDE DEF chain
    <3>2. QED  BY <3>1, <1>4, LinkedGrows
  <2>3. /\ Len(more) = Len(chain) + 1 /\ Len(chain) \in Nat
        /\ DOMAIN chain = 1..Len(chain) /\ DOMAIN more = 1..Len(more)
        /\ \A i \in DOMAIN chain : more[i] = chain[i]
        /\ more[Len(more)] = walk.at
    BY <1>0, <1>4
  <2>4. walk.at \in Above(frame)
    <3>1. CASE chain = <<>>
      BY <3>1, AboveIs DEF WalkInv
    <3>2. CASE chain # <<>>
      <4>1. Len(chain) \in DOMAIN chain
        BY <3>2, <2>3, <1>0
      <4>2. chain[Len(chain)] \in Above(frame)
        BY <4>1 DEF WalkInv, ToSet
      <4>3. walk.at = journey.parent[chain[Len(chain)]]
        BY <3>2 DEF WalkInv
      <4>4. Closed(Above(frame))
        BY AboveIs
      <4>5. QED  BY <4>2, <4>3, <4>4, <1>4 DEF Closed
    <3>3. QED  BY <3>1, <3>2
  <2>5. ToSet(more) \subseteq Above(frame)
    <3>1. ASSUME NEW i \in DOMAIN more PROVE more[i] \in Above(frame)
      <4>1. CASE i \in DOMAIN chain
        BY <4>1, <2>3 DEF WalkInv, ToSet
      <4>2. CASE i \notin DOMAIN chain
        BY <4>2, <2>3, <2>4
      <4>3. QED  BY <4>1, <4>2
    <3>2. QED  BY <3>1 DEF ToSet
  <2>6. more[1] = frame
    <3>1. CASE chain = <<>>
      <4>1. Len(more) = 1 /\ walk.at = frame
        BY <3>1, <2>3 DEF WalkInv
      <4>2. QED  BY <4>1, <2>3
    <3>2. CASE chain # <<>>
      <4>1. 1 \in DOMAIN chain /\ chain[1] = frame
        BY <3>2, <2>3, <1>0 DEF WalkInv
      <4>2. QED  BY <4>1, <2>3
    <3>3. QED  BY <3>1, <3>2
  <2>7. Len(more) = k + 1 /\ more # <<>>
    <3>1. Len(chain) = k
      BY <1>4 DEF WalkInv
    <3>2. QED  BY <3>1, <2>3
  <2> HIDE DEF more
  <2>8. /\ Climbed(walk).chain = more /\ Climbed(walk).error = "none"
        /\ Climbed(walk).at = journey.parent[walk.at]
    BY <2>1
  <2>9. QED  BY <2>2, <2>3, <2>5, <2>6, <2>7, <2>8, <1>0 DEF WalkInv
<1>5. QED  BY <1>1, <1>2, <1>3, <1>4

(* Where a walk ends: it has passed all there is above where it started,   *)
(* and came to a root, to a frame it had passed or to an undeclared id.    *)
LEMMA WalkEnds ==
    ASSUME FrameConstants, JourneyInv, NEW frame \in Frame
    PROVE  LET walk == Ancestry(frame)
           IN  /\ WalkInv(frame, Cardinality(Frame) + 1, walk)
               /\ walk.error = "none" => walk.at = NoFrame
               /\ walk.chain # <<>>
<1> DEFINE last == Ancestry(frame)
<1>1. PICK walk \in [Nat -> Walking] :
          /\ walk[0] = Start(frame)
          /\ \A k \in Nat : walk[k + 1] = Climbed(walk[k])
          /\ Ancestry(frame) = walk[Cardinality(Frame) + 1]
  BY AncestryClimbs
<1>2. Cardinality(Frame) \in Nat
  BY FS_CardinalityType DEF FrameConstants
<1> DEFINE T == {k \in Nat : WalkInv(frame, k, walk[k])}
<1>3. 0 \in T
  BY <1>1, WalkStarts
<1>4. ASSUME NEW k \in T PROVE k + 1 \in T
  <2>1. WalkInv(frame, k + 1, Climbed(walk[k]))
    BY WalkClimbs
  <2>2. QED  BY <2>1, <1>1
<1> HIDE DEF T
<1>5. T = Nat
  BY <1>3, <1>4, AllNaturals DEF T
<1>6. WalkInv(frame, Cardinality(Frame) + 1, last)
  BY <1>1, <1>2, <1>5 DEF T
<1> HIDE DEF last
<1>7. last.error = "none" => last.at = NoFrame
  <2> SUFFICES ASSUME last.error = "none", last.at # NoFrame PROVE FALSE
    OBVIOUS
  <2>1. Len(last.chain) = Cardinality(Frame) + 1 /\ Linked(last.chain)
    BY <1>6 DEF WalkInv
  <2>2. Len(last.chain) <= Cardinality(Frame)
    BY <2>1, LinkedIsShort
  <2>3. QED  BY <2>1, <2>2, <1>2
<1>8. last.chain # <<>>
  <2> SUFFICES ASSUME last.chain = <<>> PROVE FALSE
    OBVIOUS
  <2>1. last.at = frame /\ last.at # NoFrame /\ last.at # Undeclared
    BY <1>6, ParentIs DEF WalkInv
  <2>2. last.error \in {"cycle", "undeclared"}
    BY <2>1, <1>6, <1>7 DEF WalkInv, Walking
  <2>3. ToSet(last.chain) = {}
    BY DEF ToSet
  <2>4. QED  BY <2>1, <2>2, <2>3, <1>6 DEF WalkInv
<1>9. QED  BY <1>6, <1>7, <1>8 DEF last

(* A walk fails exactly where its frame is not rooted, and has otherwise   *)
(* passed what is above it.                                                *)
LEMMA AncestryIs ==
    ASSUME FrameConstants, JourneyInv, NEW frame \in Frame
    PROVE  LET walk == Ancestry(frame)
           IN  /\ walk \in Walking /\ Linked(walk.chain) /\ walk.chain # <<>>
               /\ walk.error = "none" <=> Rooted(frame)
               /\ walk.error = "none" =>
                     /\ ToSet(walk.chain) = Above(frame)
                     /\ journey.parent[walk.chain[Len(walk.chain)]] = NoFrame
<1> DEFINE walk == Ancestry(frame)
           chain == walk.chain
           passed == ToSet(chain)
           n == Len(chain)
<1>1. /\ walk \in Walking /\ Linked(chain) /\ chain # <<>>
      /\ passed \subseteq Above(frame) /\ chain[1] = frame
      /\ walk.at = journey.parent[chain[n]]
      /\ walk.error = "none" => walk.at = NoFrame
      /\ walk.error = "cycle" => walk.at \in passed
      /\ walk.error = "undeclared" => walk.at = Undeclared
  BY WalkEnds DEF WalkInv
<1> HIDE DEF walk
<1>2. walk.error \in {"none", "cycle", "undeclared"}
  BY <1>1 DEF Walking
<1>3. NoFrame \notin Frame /\ Undeclared \notin Frame /\ NoFrame # Undeclared
  BY ParentIs
<1> HIDE DEF chain
<1>4. /\ n \in Nat /\ n > 0 /\ DOMAIN chain = 1..n /\ 1 \in DOMAIN chain /\ n \in DOMAIN chain
      /\ passed \subseteq Frame /\ frame \in passed /\ chain[n] \in passed
  <2>1. n \in Nat /\ n > 0 /\ DOMAIN chain = 1..n /\ chain \in Seq(Frame)
    BY <1>1 DEF Linked
  <2>2. QED  BY <2>1, <1>1 DEF ToSet
<1>5. \A f \in passed : f = chain[n] \/ journey.parent[f] \in passed
  <2> SUFFICES ASSUME NEW i \in DOMAIN chain, i # n PROVE journey.parent[chain[i]] \in passed
    BY DEF ToSet
  <2>1. i < n /\ i + 1 \in DOMAIN chain
    BY <1>4
  <2>2. chain[i + 1] = journey.parent[chain[i]]
    BY <1>1, <2>1 DEF Linked
  <2>3. QED  BY <2>1, <2>2 DEF ToSet
<1> HIDE DEF passed, n
<1>6. walk.at \notin Frame \/ walk.at \in passed => Closed(passed)
  BY <1>1, <1>5 DEF Closed
<1>7. Closed(passed) => passed = Above(frame)
  BY <1>1, <1>4, AboveIs
<1>8. chain[n] \in Above(frame)
  BY <1>1, <1>4
<1>9. CASE walk.error = "none"
  <2>1. passed = Above(frame) /\ journey.parent[chain[n]] = NoFrame
    BY <1>1, <1>3, <1>6, <1>7, <1>9
  <2>2. Rooted(frame)
    <3>1. \A f \in Above(frame) : journey.parent[f] # Undeclared
      BY <2>1, <1>3, <1>4, <1>5
    <3>2. QED  BY <3>1, <2>1, <1>8 DEF Rooted
  <2>3. QED  BY <2>1, <2>2, <1>1, <1>9 DEF walk, chain, passed, n
<1>10. CASE walk.error = "cycle"
  <2>1. passed = Above(frame) /\ journey.parent[chain[n]] \in passed
    BY <1>1, <1>6, <1>7, <1>10
  <2>2. \A f \in Above(frame) : journey.parent[f] # NoFrame
    BY <2>1, <1>3, <1>4, <1>5
  <2>3. ~Rooted(frame)
    BY <2>2 DEF Rooted
  <2>4. QED  BY <2>3, <1>1, <1>10 DEF walk, chain, passed, n
<1>11. CASE walk.error = "undeclared"
  <2>1. ~Rooted(frame)
    BY <1>1, <1>8, <1>11 DEF Rooted
  <2>2. QED  BY <2>1, <1>1, <1>11 DEF walk, chain, passed, n
<1>12. QED  BY <1>2, <1>9, <1>10, <1>11
-----------------------------------------------------------------------------
(* What holds a frame of a chain, and the parents of what it holds, holds  *)
(* the rest of the chain.                                                  *)
LEMMA ChainGoesOn ==
    ASSUME NEW chain, Linked(chain), NEW s \in SUBSET Frame, Closed(s),
           NEW i \in DOMAIN chain, chain[i] \in s, NEW j \in DOMAIN chain, i <= j
    PROVE  chain[j] \in s
<1> DEFINE T == {k \in Nat : i + k \in DOMAIN chain => chain[i + k] \in s}
<1>1. DOMAIN chain = 1..Len(chain) /\ Len(chain) \in Nat /\ chain \in Seq(Frame)
  BY DEF Linked
<1>2. 0 \in T
  BY <1>1
<1>3. ASSUME NEW k \in T PROVE k + 1 \in T
  <2> SUFFICES ASSUME i + (k + 1) \in DOMAIN chain PROVE chain[i + (k + 1)] \in s
    OBVIOUS
  <2>1. i + k \in DOMAIN chain /\ i + k < Len(chain) /\ (i + k) + 1 = i + (k + 1)
    BY <1>1
  <2>2. chain[i + k] \in s
    BY <2>1
  <2>3. chain[(i + k) + 1] = journey.parent[chain[i + k]]
    BY <2>1 DEF Linked
  <2>4. chain[(i + k) + 1] \in Frame
    BY <2>1, <1>1
  <2>5. QED  BY <2>1, <2>2, <2>3, <2>4 DEF Closed
<1> HIDE DEF T
<1>4. T = Nat
  BY <1>2, <1>3, AllNaturals DEF T
<1>5. j - i \in Nat /\ i + (j - i) = j
  BY <1>1
<1>6. j - i \in T
  BY <1>4, <1>5
<1>7. QED  BY <1>5, <1>6 DEF T

(* Two chains to a root part below the first frame of the one the other    *)
(* passes: before it neither has a frame of the other, and after it both   *)
(* are the same.                                                           *)
LEMMA ChainsPart ==
    ASSUME NEW up, NEW down, Linked(up), Linked(down),
           Closed(ToSet(up)), Closed(ToSet(down)),
           journey.parent[down[Len(down)]] \notin Frame,
           NEW m \in DOMAIN up, NEW a \in DOMAIN down, down[a] = up[m],
           \A i \in DOMAIN up : up[i] \in ToSet(down) => m <= i
    PROVE  /\ \A i \in DOMAIN up : i < m <=> up[i] \notin ToSet(down)
           /\ \A j \in DOMAIN down : j < a <=> down[j] \notin ToSet(up)
<1>1. /\ DOMAIN up = 1..Len(up) /\ Len(up) \in Nat /\ up \in Seq(Frame)
      /\ DOMAIN down = 1..Len(down) /\ Len(down) \in Nat /\ down \in Seq(Frame)
  BY DEF Linked
<1>2. ToSet(up) \in SUBSET Frame /\ ToSet(down) \in SUBSET Frame
  BY <1>1 DEF ToSet
<1>3. up[m] \in ToSet(up) /\ up[m] \in ToSet(down)
  BY DEF ToSet
<1>4. ASSUME NEW i \in DOMAIN up PROVE i < m <=> up[i] \notin ToSet(down)
  <2>1. m <= i => up[i] \in ToSet(down)
    BY <1>2, <1>3, ChainGoesOn
  <2>2. QED  BY <2>1, <1>1
<1>5. ASSUME NEW j \in DOMAIN down PROVE j < a <=> down[j] \notin ToSet(up)
  <2>1. a <= j => down[j] \in ToSet(up)
    BY <1>2, <1>3, ChainGoesOn
  <2>2. ASSUME j < a, down[j] \in ToSet(up) PROVE FALSE
    <3>1. PICK i \in DOMAIN up : up[i] = down[j]
      BY <2>2 DEF ToSet
    <3>2. m <= i
      BY <3>1 DEF ToSet
    <3> DEFINE s == {down[b] : b \in (j + 1)..Len(down)}
    <3>3. s \in SUBSET Frame /\ up[m] \in s
      BY <2>2, <1>1
    <3>4. Closed(s)
      <4> SUFFICES ASSUME NEW b \in (j + 1)..Len(down), journey.parent[down[b]] \in Frame
                   PROVE  journey.parent[down[b]] \in s
        BY DEF Closed
      <4>1. b # Len(down)
        OBVIOUS
      <4>2. b \in DOMAIN down /\ b < Len(down) /\ b + 1 \in (j + 1)..Len(down)
        <5>1. j \in Int /\ j >= 1 /\ b \in Int /\ b >= j + 1 /\ b <= Len(down) /\ Len(down) \in Int
          BY <1>1
        <5>2. b < Len(down) /\ b >= 1 /\ b + 1 >= j + 1 /\ b + 1 <= Len(down) /\ b + 1 \in Int
          BY <4>1, <5>1
        <5>3. QED  BY <5>1, <5>2, <1>1
      <4>3. down[b + 1] = journey.parent[down[b]]
        BY <4>2 DEF Linked
      <4>4. QED  BY <4>2, <4>3
    <3> HIDE DEF s
    <3>5. up[i] \in s
      BY <3>2, <3>3, <3>4, ChainGoesOn
    <3>6. PICK b \in (j + 1)..Len(down) : down[b] = down[j]
      BY <3>1, <3>5 DEF s
    <3>7. b \in DOMAIN down /\ b # j
      BY <1>1
    <3>8. QED  BY <3>6, <3>7 DEF Linked
  <2>3. QED  BY <2>1, <2>2, <1>1
<1>6. QED  BY <1>4, <1>5

(* The steps up one chain and down the other. *)
LEMMA StepsAre ==
    ASSUME NEW up \in Seq(Frame), NEW down \in Seq(Frame),
           NEW p \in Nat, p <= Len(up), NEW q \in Nat, q <= Len(down)
    PROVE  LET steps == SubSeq(up, 1, p) \o Reverse(SubSeq(down, 1, q))
           IN  /\ steps \in Seq(Frame) /\ Len(steps) = p + q /\ DOMAIN steps = 1..(p + q)
               /\ \A i \in 1..p : steps[i] = up[i]
               /\ \A j \in 1..q : steps[p + j] = down[(q - j) + 1]
<1> DEFINE climb == SubSeq(up, 1, p)
           part == SubSeq(down, 1, q)
           descend == Reverse(part)
<1>1. climb \in Seq(Frame) /\ Len(climb) = p /\ \A i \in 1..p : climb[i] = up[i]
  OBVIOUS
<1>2. part \in Seq(Frame) /\ Len(part) = q /\ \A j \in 1..q : part[j] = down[j]
  OBVIOUS
<1> HIDE DEF climb, part
<1>3. \A j \in 1..q : (q - j) + 1 \in 1..q
  OBVIOUS
<1>4. /\ descend \in Seq(Frame) /\ Len(descend) = q
      /\ \A j \in 1..q : descend[j] = down[(q - j) + 1]
  <2>1. descend = [j \in 1..q |-> part[(q - j) + 1]]
    BY <1>2 DEF Reverse
  <2>2. \A j \in 1..q : part[j] \in Frame
    BY <1>2
  <2>3. descend \in [1..q -> Frame]
    <3>1. \A j \in 1..q : part[(q - j) + 1] \in Frame
      BY <2>2, <1>3
    <3>2. QED  BY <2>1, <3>1
  <2>4. descend \in Seq(Frame) /\ Len(descend) = q
    BY <2>3
  <2>5. QED  BY <2>1, <2>4, <1>2, <1>3
<1> HIDE DEF descend
<1> DEFINE steps == climb \o descend
<1>5. steps \in Seq(Frame) /\ Len(steps) = p + q /\ DOMAIN steps = 1..(p + q)
  <2>1. climb \in Seq(Frame) /\ Len(climb) = p /\ descend \in Seq(Frame) /\ Len(descend) = q
    BY <1>1, <1>4
  <2>2. steps \in Seq(Frame) /\ Len(steps) = p + q
    BY <2>1, ConcatProperties, Zenon
  <2> HIDE DEF steps
  <2>3. QED  BY <2>2
<1>6. \A i \in 1..p : steps[i] = up[i]
  BY <1>1, <1>4
<1>7. \A j \in 1..q : steps[p + j] = down[(q - j) + 1]
  <2> SUFFICES ASSUME NEW j \in 1..q PROVE steps[p + j] = down[(q - j) + 1]
    OBVIOUS
  <2>1. p + j \in 1..(p + q) /\ p + j > p /\ (p + j) - p = j
    OBVIOUS
  <2>2. climb \in Seq(Frame) /\ Len(climb) = p /\ descend \in Seq(Frame) /\ Len(descend) = q
    BY <1>1, <1>4
  <2>3. steps[p + j] = IF p + j <= p THEN climb[p + j] ELSE descend[(p + j) - p]
    BY <2>1, <2>2, ConcatProperties, Zenon
  <2>4. QED  BY <2>1, <2>3, <1>4
<1>8. QED  BY <1>5, <1>6, <1>7 DEF steps, climb, descend, part

(* Some frame of a chain which is in a set is the first. *)
LEMMA SomeFirst ==
    ASSUME NEW met \in SUBSET Nat, met # {}
    PROVE  \E i \in met : \A j \in met : i <= j
<1>1. PICK i \in met : \A j \in met : ~(<<j, i>> \in OpToRel(<, Nat))
  BY NatLessThanWellFounded, WFMin
<1>2. \A j \in met : j \in Nat /\ i \in Nat /\ ~(j < i)
  BY <1>1 DEF OpToRel
<1>3. QED  BY <1>2

(* What a route passes is what is above one of its ends and not the other, *)
(* each once, and there is one where both ends are rooted and share a      *)
(* frame.                                                                  *)
Differs(from, to) == (Above(from) \ Above(to)) \cup (Above(to) \ Above(from))

LEMMA RouteIs ==
    ASSUME FrameConstants, JourneyInv, NEW from \in Frame, NEW to \in Frame, from # to
    PROVE  LET route == Route(from, to)
               steps == route.climb \o route.descend
           IN  /\ route.error = "none" <=>
                     Rooted(from) /\ Rooted(to) /\ Above(from) \cap Above(to) # {}
               /\ route.error = "none" =>
                     /\ steps \in Seq(Frame) /\ ToSet(steps) = Differs(from, to)
                     /\ \A i, j \in DOMAIN steps : steps[i] = steps[j] => i = j
<1> DEFINE up == Ancestry(from).chain
           down == Ancestry(to).chain
           met == {i \in DOMAIN up : up[i] \in ToSet(down)}
           m == CHOOSE i \in met : \A j \in met : i <= j
           a == CHOOSE j \in DOMAIN down : down[j] = up[m]
           route == Route(from, to)
           steps == route.climb \o route.descend
<1>1. /\ Ancestry(from) \in Walking /\ Linked(up) /\ up # <<>>
      /\ Ancestry(from).error = "none" <=> Rooted(from)
      /\ Ancestry(from).error = "none" =>
            ToSet(up) = Above(from) /\ journey.parent[up[Len(up)]] = NoFrame
  BY AncestryIs
<1>2. /\ Ancestry(to) \in Walking /\ Linked(down) /\ down # <<>>
      /\ Ancestry(to).error = "none" <=> Rooted(to)
      /\ Ancestry(to).error = "none" =>
            ToSet(down) = Above(to) /\ journey.parent[down[Len(down)]] = NoFrame
  BY AncestryIs
<1>3. CASE Ancestry(from).error # "none" \/ Ancestry(to).error # "none"
  <2>1. route.error # "none"
    BY <1>3 DEF Route
  <2>2. QED  BY <2>1, <1>1, <1>2, <1>3
<1>4. CASE Ancestry(from).error = "none" /\ Ancestry(to).error = "none" /\ met = {}
  <2>1. route.error # "none"
    BY <1>4 DEF Route
  <2>2. ToSet(up) \cap ToSet(down) = {}
    BY <1>4 DEF ToSet
  <2>3. QED  BY <2>1, <2>2, <1>1, <1>2, <1>4
<1>5. CASE Ancestry(from).error = "none" /\ Ancestry(to).error = "none" /\ met # {}
  <2>1. route = [error |-> "none", climb |-> SubSeq(up, 1, m - 1),
                 descend |-> Reverse(SubSeq(down, 1, a - 1))]
    BY <1>5 DEF Route
  <2>2. steps = SubSeq(up, 1, m - 1) \o Reverse(SubSeq(down, 1, a - 1))
    <3> HIDE DEF route, up, down, m, a
    <3>1. QED  BY <2>1
  <2>3. /\ up \in Seq(Frame) /\ Len(up) \in Nat /\ DOMAIN up = 1..Len(up)
        /\ down \in Seq(Frame) /\ Len(down) \in Nat /\ DOMAIN down = 1..Len(down)
    BY <1>1, <1>2 DEF Linked
  <2>4. ToSet(up) = Above(from) /\ ToSet(down) = Above(to) /\ Rooted(from) /\ Rooted(to)
    BY <1>1, <1>2, <1>5
  <2> HIDE DEF up, down
  <2>5. m \in met /\ \A i \in met : m <= i
    <3>1. met \in SUBSET Nat
      BY <2>3
    <3> HIDE DEF met
    <3>2. \E i \in met : \A j \in met : i <= j
      BY <3>1, <1>5, SomeFirst
    <3>3. QED  BY <3>2
  <2>6. m \in DOMAIN up /\ up[m] \in ToSet(down) /\ up[m] \in ToSet(up)
        /\ \A i \in DOMAIN up : up[i] \in ToSet(down) => m <= i
    BY <2>5 DEF ToSet
  <2> HIDE DEF m, met
  <2>7. a \in DOMAIN down /\ down[a] = up[m]
    BY <2>6 DEF ToSet
  <2> HIDE DEF a
  <2>8. Closed(ToSet(up)) /\ Closed(ToSet(down))
    BY <2>4, AboveIs
  <2>9. journey.parent[down[Len(down)]] \notin Frame
    BY <1>2, <1>5, ParentIs DEF down
  <2>10. /\ \A i \in DOMAIN up : i < m <=> up[i] \notin ToSet(down)
         /\ \A j \in DOMAIN down : j < a <=> down[j] \notin ToSet(up)
    <3>1. Linked(up) /\ Linked(down)
      BY <1>1, <1>2 DEF up, down
    <3>2. QED  BY <3>1, <2>6, <2>7, <2>8, <2>9, ChainsPart
  <2> DEFINE p == m - 1
             q == a - 1
  <2>11. /\ p \in Nat /\ p <= Len(up) /\ q \in Nat /\ q <= Len(down)
         /\ \A i \in DOMAIN up : i < m <=> i \in 1..p
         /\ \A j \in DOMAIN down : j < a <=> j \in 1..q
         /\ 1..p \subseteq DOMAIN up /\ 1..q \subseteq DOMAIN down
    BY <2>3, <2>6, <2>7
  <2> HIDE DEF p, q
  <2>12. steps = SubSeq(up, 1, p) \o Reverse(SubSeq(down, 1, q))
    BY <2>2 DEF p, q
  <2> HIDE DEF steps, route
  <2>13. /\ steps \in Seq(Frame) /\ DOMAIN steps = 1..(p + q)
         /\ \A i \in 1..p : steps[i] = up[i]
         /\ \A j \in 1..q : steps[p + j] = down[(q - j) + 1]
    <3>1. /\ up \in Seq(Frame) /\ down \in Seq(Frame)
          /\ p \in Nat /\ p <= Len(up) /\ q \in Nat /\ q <= Len(down)
      BY <2>3, <2>11
    <3> DEFINE on == SubSeq(up, 1, p) \o Reverse(SubSeq(down, 1, q))
    <3>2. /\ on \in Seq(Frame) /\ Len(on) = p + q /\ DOMAIN on = 1..(p + q)
          /\ \A i \in 1..p : on[i] = up[i]
          /\ \A j \in 1..q : on[p + j] = down[(q - j) + 1]
      BY <3>1, StepsAre, ZenonT(30)
    <3> HIDE DEF on
    <3>3. steps = on
      BY <2>12 DEF on
    <3>4. QED  BY <3>2, <3>3
  <2>14. \A j \in 1..q : (q - j) + 1 \in 1..q /\ p + ((q - j) + 1) \in 1..(p + q)
                         /\ (q - ((q - j) + 1)) + 1 = j
    BY <2>11
  <2>15. \A i \in 1..(p + q) : i \in 1..p \/ \E j \in 1..q : i = p + j
    <3> SUFFICES ASSUME NEW i \in 1..(p + q), i \notin 1..p PROVE \E j \in 1..q : i = p + j
      OBVIOUS
    <3>1. i - p \in 1..q /\ i = p + (i - p)
      BY <2>11
    <3>2. QED  BY <3>1
  <2>16. ToSet(steps) = Differs(from, to)
    <3>1. ASSUME NEW i \in DOMAIN steps PROVE steps[i] \in Differs(from, to)
      <4>1. CASE i \in 1..p
        <5>1. steps[i] = up[i] /\ up[i] \in ToSet(up) /\ up[i] \notin ToSet(down)
          BY <4>1, <2>10, <2>11, <2>13 DEF ToSet
        <5>2. QED  BY <5>1, <2>4 DEF Differs
      <4>2. ASSUME NEW j \in 1..q, i = p + j PROVE steps[i] \in Differs(from, to)
        <5> DEFINE k == (q - j) + 1
        <5>1. k \in 1..q /\ steps[i] = down[k]
          BY <4>2, <2>13, <2>14
        <5> HIDE DEF k
        <5>2. down[k] \in ToSet(down) /\ down[k] \notin ToSet(up)
          BY <5>1, <2>10, <2>11 DEF ToSet
        <5>3. QED  BY <5>1, <5>2, <2>4 DEF Differs
      <4>3. QED  BY <4>1, <4>2, <2>13, <2>15
    <3>2. ASSUME NEW f \in Differs(from, to) PROVE \E i \in DOMAIN steps : steps[i] = f
      <4>1. CASE f \in ToSet(up) /\ f \notin ToSet(down)
        <5>1. PICK i \in DOMAIN up : up[i] = f
          BY <4>1 DEF ToSet
        <5>2. i \in 1..p
          BY <5>1, <4>1, <2>10, <2>11
        <5>3. i \in 1..(p + q)
          BY <5>2, <2>11
        <5>4. QED  BY <5>1, <5>2, <5>3, <2>13
      <4>2. CASE f \in ToSet(down) /\ f \notin ToSet(up)
        <5>1. PICK j \in DOMAIN down : down[j] = f
          BY <4>2 DEF ToSet
        <5>2. j \in 1..q
          BY <5>1, <4>2, <2>10, <2>11
        <5> DEFINE k == (q - j) + 1
        <5>3. k \in 1..q /\ p + k \in 1..(p + q) /\ (q - k) + 1 = j
          BY <5>2, <2>14
        <5> HIDE DEF k
        <5>4. steps[p + k] = down[j]
          BY <5>3, <2>13
        <5>5. QED  BY <5>1, <5>3, <5>4, <2>13
      <4>3. QED  BY <4>1, <4>2, <2>4 DEF Differs
    <3>3. QED  BY <3>1, <3>2 DEF ToSet
  <2>17. \A i, j \in DOMAIN steps : steps[i] = steps[j] => i = j
    <3>0. /\ \A i, j \in DOMAIN up : up[i] = up[j] => i = j
          /\ \A i, j \in DOMAIN down : down[i] = down[j] => i = j
      BY <1>1, <1>2 DEF Linked, up, down
    <3>1. ASSUME NEW i \in 1..p, NEW j \in 1..p, steps[i] = steps[j] PROVE i = j
      BY <3>0, <3>1, <2>11, <2>13
    <3>2. ASSUME NEW i \in 1..p, NEW j \in 1..q PROVE steps[i] # steps[p + j]
      <4>1. steps[i] = up[i] /\ up[i] \in ToSet(up)
        BY <2>11, <2>13 DEF ToSet
      <4> DEFINE k == (q - j) + 1
      <4>2. k \in 1..q /\ steps[p + j] = down[k]
        BY <2>13, <2>14
      <4> HIDE DEF k
      <4>3. down[k] \notin ToSet(up)
        BY <4>2, <2>10, <2>11
      <4>4. QED  BY <4>1, <4>2, <4>3
    <3>3. ASSUME NEW i \in 1..q, NEW j \in 1..q, steps[p + i] = steps[p + j] PROVE i = j
      <4>1. /\ (q - i) + 1 \in 1..q /\ (q - j) + 1 \in 1..q
            /\ down[(q - i) + 1] = down[(q - j) + 1]
        BY <3>3, <2>13, <2>14
      <4>2. (q - i) + 1 = (q - j) + 1
        BY <4>1, <3>0, <2>11
      <4>3. QED  BY <4>2, <2>11
    <3>4. QED
      <4> SUFFICES ASSUME NEW i \in 1..(p + q), NEW j \in 1..(p + q), steps[i] = steps[j]
                   PROVE  i = j
        BY <2>13
      <4>1. CASE i \in 1..p
        BY <4>1, <3>1, <3>2, <2>15
      <4>2. CASE i \notin 1..p
        <5>1. PICK k \in 1..q : i = p + k
          BY <4>2, <2>15
        <5>2. CASE j \in 1..p
          BY <5>1, <5>2, <3>2
        <5>3. ASSUME NEW l \in 1..q, j = p + l PROVE i = j
          BY <5>1, <5>3, <3>3
        <5>4. QED  BY <5>2, <5>3, <2>15
      <4>3. QED  BY <4>1, <4>2
  <2>18. Above(from) \cap Above(to) # {} /\ route.error = "none"
    BY <2>1, <2>4, <2>6 DEF route
  <2>19. QED  BY <2>4, <2>13, <2>16, <2>17, <2>18 DEF steps, route
<1>6. QED  BY <1>3, <1>4, <1>5

(* What is listed once each is as long as it has members. *)
LEMMA OnceEach ==
    ASSUME NEW s \in Seq(Frame), \A i, j \in DOMAIN s : s[i] = s[j] => i = j
    PROVE  Len(s) = Cardinality(ToSet(s))
<1>1. Len(s) \in Nat /\ DOMAIN s = 1..Len(s)
  OBVIOUS
<1>2. s \in [1..Len(s) -> ToSet(s)] /\ \A f \in ToSet(s) : \E i \in 1..Len(s) : s[i] = f
  BY <1>1 DEF ToSet
<1>3. s \in Bijection(1..Len(s), ToSet(s))
  BY <1>1, <1>2 DEF Bijection, Injection, Surjection, IsInjective
<1>4. QED  BY <1>1, <1>3, FS_CountingElements DEF ExistsBijection
-----------------------------------------------------------------------------
(* Folds.  What is folded is taken from a finite set one at a time, in     *)
(* whatever order pick says.                                               *)
Few(S, most) == {s \in SUBSET S : Cardinality(s) <= most}
Fold(iter, g, pick, base, s) == IF s = {} THEN base ELSE g[<<pick[s], iter[s \ {pick[s]}]>>]

LEMMA OneFewer ==
    ASSUME NEW s, IsFiniteSet(s), NEW x \in s
    PROVE  /\ IsFiniteSet(s \ {x}) /\ Cardinality(s) \in Nat /\ Cardinality(s \ {x}) \in Nat
           /\ Cardinality(s \ {x}) = Cardinality(s) - 1
BY FS_RemoveElement, FS_CardinalityType

(* What holds of a set wherever it holds of those of one member fewer      *)
(* holds of every finite set: good are the sets it holds of.               *)
LEMMA OneMore ==
    ASSUME NEW S, IsFiniteSet(S), NEW good \in SUBSET SUBSET S,
           \A s \in SUBSET S : (\A x \in s : s \ {x} \in good) => s \in good
    PROVE  good = SUBSET S
<1> DEFINE T == {m \in Nat : \A s \in SUBSET S : Cardinality(s) = m => s \in good}
<1>1. 0 \in T
  BY FS_Subset, FS_EmptySet
<1>2. ASSUME NEW m \in T PROVE m + 1 \in T
  <2> SUFFICES ASSUME NEW s \in SUBSET S, Cardinality(s) = m + 1 PROVE s \in good
    OBVIOUS
  <2>1. IsFiniteSet(s) /\ s # {}
    BY FS_Subset, FS_EmptySet
  <2>2. (m + 1) - 1 = m
    OBVIOUS
  <2>3. \A x \in s : Cardinality(s \ {x}) = m
    BY <2>1, <2>2, OneFewer
  <2>4. QED  BY <2>3
<1> HIDE DEF T
<1>3. T = Nat
  BY <1>1, <1>2, AllNaturals DEF T
<1>4. \A s \in SUBSET S : Cardinality(s) \in Nat
  BY FS_Subset, FS_CardinalityType
<1>5. QED  BY <1>3, <1>4 DEF T

(* A fold there is. *)
Picks(pick, S) == \A s \in SUBSET S : s # {} => pick[s] \in s
Foldable(g, pick, base, S, V) ==
    /\ IsFiniteSet(S) /\ base \in V /\ Picks(pick, S)
    /\ \A x \in S, v \in V : g[<<x, v>>] \in V
Folded(iter, g, pick, base, S) ==
    \A s \in SUBSET S : iter[s] = Fold(iter, g, pick, base, s)
LEMMA FoldsAre ==
    ASSUME NEW V, NEW base, NEW S, NEW pick, NEW g, Foldable(g, pick, base, S, V)
    PROVE  \E iter \in [SUBSET S -> V] : Folded(iter, g, pick, base, S)
<1> USE DEF Picks, Foldable
<1> DEFINE Upto(m) == \E iter \in [Few(S, m) -> V] :
                          iter = [s \in Few(S, m) |-> Fold(iter, g, pick, base, s)]
           T == {m \in Nat : Upto(m)}
<1>1. 0 \in T
  <2> DEFINE first == [s \in Few(S, 0) |-> base]
  <2>1. ASSUME NEW s \in Few(S, 0) PROVE s = {}
    <3>1. IsFiniteSet(s) /\ Cardinality(s) <= 0 /\ Cardinality(s) \in Nat
      BY FS_Subset, FS_CardinalityType DEF Few
    <3>2. Cardinality(s) = 0
      BY <3>1
    <3>3. QED  BY <3>1, <3>2, FS_EmptySet
  <2>2. \A s \in Few(S, 0) : Fold(first, g, pick, base, s) = base
    BY <2>1 DEF Fold
  <2>3. first = [s \in Few(S, 0) |-> Fold(first, g, pick, base, s)]
    BY <2>2
  <2>4. first \in [Few(S, 0) -> V]
    OBVIOUS
  <2> HIDE DEF first
  <2>5. QED  BY <2>3, <2>4
<1>2. ASSUME NEW m \in T PROVE m + 1 \in T
  <2>1. PICK iter \in [Few(S, m) -> V] :
            iter = [s \in Few(S, m) |-> Fold(iter, g, pick, base, s)]
    OBVIOUS
  <2> DEFINE next == [s \in Few(S, m + 1) |-> Fold(iter, g, pick, base, s)]
  <2>2. ASSUME NEW s \in Few(S, m) PROVE s \in Few(S, m + 1) /\ next[s] = iter[s]
    <3>1. IsFiniteSet(s) /\ Cardinality(s) \in Nat
      BY FS_Subset, FS_CardinalityType DEF Few
    <3>2. s \in Few(S, m + 1)
      BY <3>1 DEF Few
    <3>3. QED  BY <2>1, <3>2
  <2>3. ASSUME NEW s \in Few(S, m + 1), s # {}
        PROVE  pick[s] \in S /\ s \ {pick[s]} \in Few(S, m)
    <3>1. IsFiniteSet(s) /\ s \in SUBSET S /\ pick[s] \in s
      BY <2>3, FS_Subset DEF Few
    <3>2. Cardinality(s \ {pick[s]}) = Cardinality(s) - 1 /\ Cardinality(s) \in Nat
      BY <3>1, OneFewer
    <3>3. Cardinality(s) <= m + 1
      BY DEF Few
    <3>4. Cardinality(s \ {pick[s]}) <= m
      BY <3>2, <3>3
    <3>5. QED  BY <3>1, <3>4 DEF Few
  <2>4. \A s \in Few(S, m + 1) : Fold(iter, g, pick, base, s) = Fold(next, g, pick, base, s)
    BY <2>2, <2>3 DEF Fold
  <2>5. next = [s \in Few(S, m + 1) |-> Fold(next, g, pick, base, s)]
    BY <2>4
  <2>6. ASSUME NEW s \in Few(S, m + 1) PROVE next[s] \in V
    <3>1. next[s] = Fold(iter, g, pick, base, s)
      OBVIOUS
    <3> HIDE DEF next
    <3>2. QED  BY <2>3, <2>1, <3>1 DEF Fold
  <2>7. next \in [Few(S, m + 1) -> V]
    BY <2>6
  <2> HIDE DEF next
  <2>8. Upto(m + 1)
    BY <2>5, <2>7
  <2>9. QED  BY <2>8
<1>3. T = Nat
  <2>1. T \in SUBSET Nat
    OBVIOUS
  <2> HIDE DEF T
  <2>2. QED  BY <1>1, <1>2, <2>1, AllNaturals
<1>4. Cardinality(S) \in Nat /\ SUBSET S = Few(S, Cardinality(S))
  BY FS_Subset, FS_CardinalityType DEF Few
<1>5. Upto(Cardinality(S))
  BY <1>3, <1>4 DEF T
<1>6. PICK iter \in [Few(S, Cardinality(S)) -> V] :
          iter = [s \in Few(S, Cardinality(S)) |-> Fold(iter, g, pick, base, s)]
  BY <1>5
<1>7. \A s \in Few(S, Cardinality(S)) : iter[s] = Fold(iter, g, pick, base, s)
  BY <1>6
<1>8. iter \in [SUBSET S -> V] /\ Folded(iter, g, pick, base, S)
  BY <1>4, <1>6, <1>7 DEF Folded
<1>9. QED  BY <1>8

-----------------------------------------------------------------------------
(* Sums.  Whatever order naturals are added in, they come to the same.     *)
Chosen(s) == CHOOSE x \in s : TRUE
Sum(f, S) == MapThenSumSet(LAMBDA x : f[x], S)
Naturals(f, S) == IsFiniteSet(S) /\ \A x \in S : f[x] \in Nat
(* What adds up f, taking each set apart as pick says. *)
AddsUp(iter, f, pick, S) ==
    /\ Picks(pick, S) /\ iter[{}] = 0
    /\ \A s \in SUBSET S : s # {} => iter[s] = f[pick[s]] + iter[s \ {pick[s]}]

LEMMA AnyOrder ==
    ASSUME NEW S, NEW f, Naturals(f, S), NEW iter, NEW pick, AddsUp(iter, f, pick, S),
           NEW s \in SUBSET S
    PROVE  iter[s] \in Nat /\ \A x \in s : iter[s] = f[x] + iter[s \ {x}]
<1> DEFINE typed == {t \in SUBSET S : iter[t] \in Nat}
<1>1. typed = SUBSET S
  <2>1. ASSUME NEW t \in SUBSET S, \A x \in t : t \ {x} \in typed PROVE t \in typed
    <3>1. CASE t = {}
      BY <3>1 DEF AddsUp
    <3>2. CASE t # {}
      <4>1. pick[t] \in t /\ iter[t] = f[pick[t]] + iter[t \ {pick[t]}]
        BY <3>2 DEF AddsUp, Picks
      <4>2. f[pick[t]] \in Nat /\ iter[t \ {pick[t]}] \in Nat
        BY <4>1, <2>1 DEF Naturals
      <4>3. QED  BY <4>1, <4>2
    <3>3. QED  BY <3>1, <3>2
  <2>2. typed \in SUBSET SUBSET S
    OBVIOUS
  <2> HIDE DEF typed
  <2>3. QED  BY <2>1, <2>2, OneMore DEF Naturals
<1> DEFINE Splits(t) == \A x \in t : iter[t] = f[x] + iter[t \ {x}]
           good == {t \in SUBSET S : Splits(t)}
<1>2. good = SUBSET S
  <2>1. ASSUME NEW t \in SUBSET S, \A x \in t : t \ {x} \in good, NEW x \in t
        PROVE  iter[t] = f[x] + iter[t \ {x}]
    <3> DEFINE c == pick[t]
               rest == (t \ {x}) \ {c}
    <3>1. c \in t /\ iter[t] = f[c] + iter[t \ {c}]
      BY DEF AddsUp, Picks
    <3>2. CASE x = c
      BY <3>1, <3>2
    <3>3. CASE x # c
      <4>1. iter[t \ {x}] = f[c] + iter[rest]
        BY <2>1, <3>1, <3>3
      <4>2. iter[t \ {c}] = f[x] + iter[(t \ {c}) \ {x}] /\ (t \ {c}) \ {x} = rest
        BY <2>1, <3>1, <3>3
      <4>3. f[c] \in Nat /\ f[x] \in Nat /\ iter[rest] \in Nat
        BY <1>1, <3>1 DEF Naturals
      <4>4. iter[t \ {c}] = f[x] + iter[rest]
        BY <4>2
      <4> HIDE DEF rest, c
      <4>5. iter[t] = f[c] + (f[x] + iter[rest])
        BY <3>1, <4>4
      <4>6. f[c] + (f[x] + iter[rest]) = f[x] + (f[c] + iter[rest])
        BY <4>3
      <4>7. QED  BY <4>1, <4>5, <4>6
    <3>4. QED  BY <3>2, <3>3
  <2>2. \A t \in SUBSET S : (\A x \in t : t \ {x} \in good) => t \in good
    BY <2>1
  <2>3. good \in SUBSET SUBSET S
    OBVIOUS
  <2> HIDE DEF good
  <2>4. QED  BY <2>2, <2>3, OneMore DEF Naturals
<1>3. QED  BY <1>1, <1>2

(* Two which add up what is the same come to the same. *)
LEMMA SameSums ==
    ASSUME NEW S, NEW f, Naturals(f, S), NEW iter, NEW pick, AddsUp(iter, f, pick, S),
           NEW T, NEW g, Naturals(g, T), NEW other, NEW picked, AddsUp(other, g, picked, T),
           NEW U, U \subseteq S, U \subseteq T, \A x \in U : f[x] = g[x]
    PROVE  iter[U] = other[U]
<1> DEFINE good == {t \in SUBSET U : iter[t] = other[t]}
<1>1. IsFiniteSet(U)
  BY FS_Subset DEF Naturals
<1>2. ASSUME NEW t \in SUBSET U, \A x \in t : t \ {x} \in good PROVE t \in good
  <2>1. CASE t = {}
    BY <2>1 DEF AddsUp
  <2>2. CASE t # {}
    <3>1. PICK x \in t : TRUE
      BY <2>2
    <3>2. iter[t] = f[x] + iter[t \ {x}] /\ other[t] = g[x] + other[t \ {x}]
      BY AnyOrder
    <3>3. iter[t \ {x}] = other[t \ {x}] /\ f[x] = g[x]
      BY <1>2
    <3>4. QED  BY <3>2, <3>3
  <2>3. QED  BY <2>1, <2>2
<1>3. good = SUBSET U
  <2>1. good \in SUBSET SUBSET U
    OBVIOUS
  <2> HIDE DEF good
  <2>2. QED  BY <1>1, <1>2, <2>1, OneMore
<1>4. QED  BY <1>3

(* There is one, and the sum of the library adds up.                       *)
LEMMA SumsAre ==
    ASSUME NEW S, NEW f, Naturals(f, S), NEW pick, Picks(pick, S)
    PROVE  \E iter \in [SUBSET S -> Nat] : AddsUp(iter, f, pick, S)
<1> DEFINE g == [p \in S \X Nat |-> f[p[1]] + p[2]]
<1>1. \A x \in S, v \in Nat : g[<<x, v>>] = f[x] + v /\ f[x] + v \in Nat
  BY DEF Naturals
<1> HIDE DEF g
<1>2. PICK iter \in [SUBSET S -> Nat] : Folded(iter, g, pick, 0, S)
  <2>1. Foldable(g, pick, 0, S, Nat)
    BY <1>1 DEF Foldable, Naturals
  <2>2. QED  BY <2>1, FoldsAre
<1>3. ASSUME NEW s \in SUBSET S
      PROVE  Fold(iter, g, pick, 0, s) = IF s = {} THEN 0 ELSE f[pick[s]] + iter[s \ {pick[s]}]
  BY <1>1, <1>2 DEF Fold, Picks
<1>4. AddsUp(iter, f, pick, S)
  BY <1>2, <1>3 DEF Folded, AddsUp
<1>5. QED  BY <1>4

LEMMA SumIs ==
    ASSUME NEW S, NEW f, Naturals(f, S)
    PROVE  \E iter, pick : AddsUp(iter, f, pick, S) /\ Sum(f, S) = iter[S]
<1> DEFINE pick == [s \in SUBSET S |-> Chosen(s)]
           iter == CHOOSE h : h = [s \in SUBSET S |-> IF s = {} THEN 0
                                                     ELSE f[Chosen(s)] + h[s \ {Chosen(s)}]]
<1>1. \A s \in SUBSET S : pick[s] = Chosen(s) /\ (s # {} => pick[s] \in s)
  BY DEF Chosen
<1> HIDE DEF pick
<1>2. \E h : h = [s \in SUBSET S |-> IF s = {} THEN 0 ELSE f[Chosen(s)] + h[s \ {Chosen(s)}]]
  <2>1. PICK h \in [SUBSET S -> Nat] : AddsUp(h, f, pick, S)
    <3>1. Picks(pick, S)
      BY <1>1 DEF Picks
    <3>2. QED  BY <3>1, SumsAre
  <2>2. h = [s \in SUBSET S |-> IF s = {} THEN 0 ELSE f[Chosen(s)] + h[s \ {Chosen(s)}]]
    BY <1>1, <2>1 DEF AddsUp
  <2>3. QED  BY <2>2
<1>3. Sum(f, S) = iter[S]
  BY DEF Sum, MapThenSumSet, MapThenFoldSet, Chosen
<1>4. iter = [s \in SUBSET S |-> IF s = {} THEN 0 ELSE f[Chosen(s)] + iter[s \ {Chosen(s)}]]
  BY <1>2
<1> HIDE DEF iter
<1>5. AddsUp(iter, f, pick, S)
  BY <1>1, <1>4 DEF AddsUp, Picks
<1>6. QED  BY <1>3, <1>5

LEMMA AnySum ==
    ASSUME NEW S, NEW f, Naturals(f, S), NEW iter, NEW pick, AddsUp(iter, f, pick, S)
    PROVE  iter[S] = Sum(f, S)
<1>1. PICK other, picked : AddsUp(other, f, picked, S) /\ Sum(f, S) = other[S]
  BY SumIs
<1>2. QED  BY <1>1, SameSums

LEMMA SumSplits ==
    ASSUME NEW S, NEW f, Naturals(f, S)
    PROVE  /\ Sum(f, S) \in Nat
           /\ S = {} => Sum(f, S) = 0
           /\ \A x \in S : Sum(f, S) = f[x] + Sum(f, S \ {x})
<1>1. PICK iter, pick : AddsUp(iter, f, pick, S) /\ Sum(f, S) = iter[S]
  BY SumIs
<1>2. iter[S] \in Nat /\ \A x \in S : iter[S] = f[x] + iter[S \ {x}]
  BY <1>1, AnyOrder
<1>3. ASSUME NEW x \in S PROVE iter[S \ {x}] = Sum(f, S \ {x})
  <2>1. Naturals(f, S \ {x})
    BY FS_Subset DEF Naturals
  <2>2. PICK other, picked : AddsUp(other, f, picked, S \ {x}) /\ Sum(f, S \ {x}) = other[S \ {x}]
    BY <2>1, SumIs
  <2>3. S \ {x} \subseteq S
    OBVIOUS
  <2>4. QED  BY <1>1, <2>1, <2>2, <2>3, SameSums
<1>4. QED  BY <1>1, <1>2, <1>3 DEF AddsUp

LEMMA SumWith ==
    ASSUME NEW S, NEW f, NEW x, Naturals(f, S \cup {x}), x \notin S
    PROVE  Sum(f, S \cup {x}) = f[x] + Sum(f, S)
<1>1. (S \cup {x}) \ {x} = S
  OBVIOUS
<1>2. QED  BY <1>1, SumSplits

LEMMA SumSame ==
    ASSUME NEW S, NEW f, Naturals(f, S), NEW g, \A x \in S : f[x] = g[x]
    PROVE  Sum(f, S) = Sum(g, S)
<1>1. Naturals(g, S)
  BY DEF Naturals
<1>2. PICK iter, pick : AddsUp(iter, f, pick, S) /\ Sum(f, S) = iter[S]
  BY SumIs
<1>3. PICK other, picked : AddsUp(other, g, picked, S) /\ Sum(g, S) = other[S]
  BY <1>1, SumIs
<1>4. QED  BY <1>1, <1>2, <1>3, SameSums

(* More, and greater, come to no less. *)
LEMMA SumMore ==
    ASSUME NEW T, NEW g, Naturals(g, T), NEW f, NEW S, S \subseteq T, \A x \in S : f[x] \in Nat /\ f[x] <= g[x]
    PROVE  Sum(f, S) <= Sum(g, T)
<1> DEFINE Less(t) == Sum(f, S \cap t) <= Sum(g, t)
           good == {t \in SUBSET T : Less(t)}
<1>1. ASSUME NEW t \in SUBSET T, \A x \in t : t \ {x} \in good PROVE t \in good
  <2>1. Naturals(g, t) /\ Naturals(f, S \cap t)
    <3>1. IsFiniteSet(t) /\ IsFiniteSet(S \cap t)
      BY FS_Subset DEF Naturals
    <3>2. QED  BY <3>1 DEF Naturals
  <2>2. CASE t = {}
    <3>1. S \cap t = {}
      BY <2>2
    <3>2. Sum(f, S \cap t) = 0 /\ Sum(g, t) = 0
      BY <2>1, <2>2, <3>1, SumSplits
    <3>3. QED  BY <3>2
  <2>3. CASE t # {}
    <3>1. PICK x \in t : TRUE
      BY <2>3
    <3> DEFINE rest == t \ {x}
    <3>2. Naturals(g, rest) /\ Naturals(f, S \cap rest)
      <4>1. IsFiniteSet(rest) /\ IsFiniteSet(S \cap rest)
        BY FS_Subset DEF Naturals
      <4>2. QED  BY <4>1 DEF Naturals
    <3>3. Sum(g, t) = g[x] + Sum(g, rest) /\ Sum(g, rest) \in Nat /\ g[x] \in Nat
      BY <2>1, <3>2, SumSplits DEF Naturals
    <3>4. Sum(f, S \cap rest) <= Sum(g, rest) /\ Sum(f, S \cap rest) \in Nat
      BY <1>1, <3>2, SumSplits
    <3>5. CASE x \in S
      <4>1. (S \cap t) \ {x} = S \cap rest /\ x \in S \cap t
        BY <3>5
      <4>2. Sum(f, S \cap t) = f[x] + Sum(f, S \cap rest)
        BY <4>1, <2>1, SumSplits
      <4>3. f[x] \in Nat /\ f[x] <= g[x]
        BY <3>5
      <4> HIDE DEF rest
      <4>4. Less(t)
        BY <3>3, <3>4, <4>2, <4>3
      <4>5. QED  BY <4>4
    <3>6. CASE x \notin S
      <4>1. S \cap t = S \cap rest
        BY <3>6
      <4>2. Sum(f, S \cap t) = Sum(f, S \cap rest)
        BY <4>1, Zenon
      <4> HIDE DEF rest
      <4>3. Less(t)
        BY <3>3, <3>4, <4>2
      <4>4. QED  BY <4>3
    <3>7. QED  BY <3>5, <3>6
  <2>4. QED  BY <2>2, <2>3
<1>2. good = SUBSET T
  <2>1. good \in SUBSET SUBSET T
    OBVIOUS
  <2> HIDE DEF good
  <2>2. QED  BY <1>1, <2>1, OneMore DEF Naturals
<1>3. S \cap T = S /\ Less(T)
  BY <1>2
<1>4. QED  BY <1>3

(* A list is folded from its last element back.                            *)
Top(n) == [s \in SUBSET (1..n) |-> Max(s)]
LEMMA MaxIs ==
    ASSUME NEW n \in Nat, NEW s \in SUBSET (1..n), s # {}
    PROVE  Max(s) \in s /\ \A x \in s : x <= Max(s)
<1> DEFINE T == {m \in Nat : \A t \in SUBSET (1..m) : t # {} => \E x \in t : \A y \in t : x >= y}
<1>1. 0 \in T
  <2>1. 1..0 = {}
    OBVIOUS
  <2>2. \A t \in SUBSET (1..0) : t = {}
    BY <2>1
  <2>3. QED  BY <2>2
<1>2. ASSUME NEW m \in T PROVE m + 1 \in T
  <2> SUFFICES ASSUME NEW t \in SUBSET (1..(m + 1)), t # {}
               PROVE  \E x \in t : \A y \in t : x >= y
    OBVIOUS
  <2>1. CASE m + 1 \in t
    BY <2>1
  <2>2. CASE m + 1 \notin t
    <3>1. t \in SUBSET (1..m)
      BY <2>2
    <3>2. QED  BY <3>1
  <2>3. QED  BY <2>1, <2>2
<1>3. T = Nat
  <2>1. T \in SUBSET Nat
    OBVIOUS
  <2> HIDE DEF T
  <2>2. QED  BY <1>1, <1>2, <2>1, AllNaturals
<1>4. \E x \in s : \A y \in s : x >= y
  BY <1>3
<1>5. Max(s) \in s /\ \A y \in s : Max(s) >= y
  BY <1>4 DEF Max
<1>6. QED  BY <1>5

LEMMA TopPicks ==
    ASSUME NEW n \in Nat
    PROVE  Picks(Top(n), 1..n) /\ \A s \in SUBSET (1..n) : Top(n)[s] = Max(s)
BY MaxIs DEF Picks, Top

LEMMA LenIs ==
    ASSUME NEW V, NEW s \in Seq(V)
    PROVE  Len(s) \in Nat /\ DOMAIN s = 1..Len(s) /\ \A i \in DOMAIN s : s[i] \in V
OBVIOUS

(* What the terms of a budget come to is a sum over their places, and so   *)
(* is what the claims say.                                                 *)
Bias(t) == IF t.kind = "systematic" THEN t.magnitude ELSE 0
Noise(t) == IF t.kind = "independent" THEN t.magnitude * t.magnitude ELSE 0
Squared(t) == t.magnitude * t.magnitude
Biases(terms) == [i \in DOMAIN terms |-> Bias(terms[i])]
Noises(terms) == [i \in DOMAIN terms |-> Noise(terms[i])]

LEMMA SharedIs ==
    ASSUME NEW terms \in Seq(BudgetTerm), Naturals(Biases(terms), DOMAIN terms)
    PROVE  Shared(terms)
           = Sum(Biases(terms), DOMAIN terms)
<1> DEFINE f == Biases(terms)
           pick == Top(Len(terms))
           IsFold(h) == h = [s \in SUBSET (DOMAIN terms) |->
                               IF s = {} THEN 0 ELSE Bias(terms[Max(s)]) + h[s \ {Max(s)}]]
           iter == CHOOSE h : IsFold(h)
<1>1. /\ Picks(pick, DOMAIN terms)
      /\ \A s \in SUBSET (DOMAIN terms) : s # {} => pick[s] = Max(s) /\ f[pick[s]] = Bias(terms[Max(s)])
  BY LenIs, TopPicks DEF Picks, Biases
<1>2. IsFold(iter)
  <2> HIDE DEF f, pick
  <2>1. PICK h \in [SUBSET (DOMAIN terms) -> Nat] : AddsUp(h, f, pick, DOMAIN terms)
    BY <1>1, SumsAre DEF f
  <2>2. IsFold(h)
    BY <1>1, <2>1 DEF AddsUp
  <2>3. QED  BY <2>2
<1>3. Shared(terms) = iter[DOMAIN terms]
  BY DEF Shared, FoldLeft, MapThenFoldSet, Bias
<1> HIDE DEF iter, pick, f
<1>4. AddsUp(iter, f, pick, DOMAIN terms)
  BY <1>1, <1>2 DEF AddsUp
<1>5. QED  BY <1>3, <1>4, AnySum DEF f

LEMMA SquaresIs ==
    ASSUME NEW terms \in Seq(BudgetTerm), Naturals(Noises(terms), DOMAIN terms)
    PROVE  Squares(terms)
           = Sum(Noises(terms), DOMAIN terms)
<1> DEFINE f == Noises(terms)
           pick == Top(Len(terms))
           IsFold(h) == h = [s \in SUBSET (DOMAIN terms) |->
                               IF s = {} THEN 0 ELSE Noise(terms[Max(s)]) + h[s \ {Max(s)}]]
           iter == CHOOSE h : IsFold(h)
<1>1. /\ Picks(pick, DOMAIN terms)
      /\ \A s \in SUBSET (DOMAIN terms) : s # {} => pick[s] = Max(s) /\ f[pick[s]] = Noise(terms[Max(s)])
  BY LenIs, TopPicks DEF Picks, Noises
<1>2. IsFold(iter)
  <2> HIDE DEF f, pick
  <2>1. PICK h \in [SUBSET (DOMAIN terms) -> Nat] : AddsUp(h, f, pick, DOMAIN terms)
    BY <1>1, SumsAre DEF f
  <2>2. IsFold(h)
    BY <1>1, <2>1 DEF AddsUp
  <2>3. QED  BY <2>2
<1>3. Squares(terms) = iter[DOMAIN terms]
  BY DEF Squares, FoldLeft, MapThenFoldSet, Noise
<1> HIDE DEF iter, pick, f
<1>4. AddsUp(iter, f, pick, DOMAIN terms)
  BY <1>1, <1>2 DEF AddsUp
<1>5. QED  BY <1>3, <1>4, AnySum DEF f

LEMMA GreatestSum ==
    ASSUME NEW S, NEW P, Naturals([x \in S |-> Greatest(P, x)], S)
    PROVE  MapThenSumSet(LAMBDA x : Greatest(P, x), S)
           = Sum([x \in S |-> Greatest(P, x)], S)
<1> DEFINE f == [x \in S |-> Greatest(P, x)]
           pick == [s \in SUBSET S |-> Chosen(s)]
           IsFold(h) == h = [s \in SUBSET S |->
                               IF s = {} THEN 0 ELSE Greatest(P, Chosen(s)) + h[s \ {Chosen(s)}]]
           iter == CHOOSE h : IsFold(h)
<1>1. /\ Picks(pick, S)
      /\ \A s \in SUBSET S : s # {} => pick[s] = Chosen(s) /\ f[pick[s]] = Greatest(P, Chosen(s))
  BY DEF Picks, Chosen
<1>2. IsFold(iter)
  <2> HIDE DEF f, pick
  <2>1. PICK h \in [SUBSET S -> Nat] : AddsUp(h, f, pick, S)
    BY <1>1, SumsAre DEF f
  <2>2. IsFold(h)
    BY <1>1, <2>1 DEF AddsUp
  <2>3. QED  BY <2>2
<1>3. MapThenSumSet(LAMBDA x : Greatest(P, x), S) = iter[S]
  BY DEF MapThenSumSet, MapThenFoldSet, Chosen
<1> HIDE DEF iter, pick, f
<1>4. AddsUp(iter, f, pick, S)
  BY <1>1, <1>2 DEF AddsUp
<1>5. QED  BY <1>3, <1>4, AnySum DEF f

LEMMA MagnitudeSum ==
    ASSUME NEW S, Naturals([x \in S |-> Said(x).magnitude], S)
    PROVE  MapThenSumSet(LAMBDA x : Said(x).magnitude, S)
           = Sum([x \in S |-> Said(x).magnitude], S)
<1> DEFINE f == [x \in S |-> Said(x).magnitude]
           pick == [s \in SUBSET S |-> Chosen(s)]
           IsFold(h) == h = [s \in SUBSET S |->
                               IF s = {} THEN 0 ELSE Said(Chosen(s)).magnitude + h[s \ {Chosen(s)}]]
           iter == CHOOSE h : IsFold(h)
<1>1. /\ Picks(pick, S)
      /\ \A s \in SUBSET S : s # {} => pick[s] = Chosen(s) /\ f[pick[s]] = Said(Chosen(s)).magnitude
  BY DEF Picks, Chosen
<1>2. IsFold(iter)
  <2> HIDE DEF f, pick
  <2>1. PICK h \in [SUBSET S -> Nat] : AddsUp(h, f, pick, S)
    BY <1>1, SumsAre DEF f
  <2>2. IsFold(h)
    BY <1>1, <2>1 DEF AddsUp
  <2>3. QED  BY <2>2
<1>3. MapThenSumSet(LAMBDA x : Said(x).magnitude, S) = iter[S]
  BY DEF MapThenSumSet, MapThenFoldSet, Chosen
<1> HIDE DEF iter, pick, f
<1>4. AddsUp(iter, f, pick, S)
  BY <1>1, <1>2 DEF AddsUp
<1>5. QED  BY <1>3, <1>4, AnySum DEF f

LEMMA SquareSum ==
    ASSUME NEW S, Naturals([x \in S |-> Squared(Said(x))], S)
    PROVE  MapThenSumSet(LAMBDA x : Said(x).magnitude * Said(x).magnitude, S)
           = Sum([x \in S |-> Squared(Said(x))], S)
<1> DEFINE f == [x \in S |-> Squared(Said(x))]
           pick == [s \in SUBSET S |-> Chosen(s)]
           IsFold(h) == h = [s \in SUBSET S |->
                               IF s = {} THEN 0 ELSE Squared(Said(Chosen(s))) + h[s \ {Chosen(s)}]]
           iter == CHOOSE h : IsFold(h)
<1>1. /\ Picks(pick, S)
      /\ \A s \in SUBSET S : s # {} => pick[s] = Chosen(s) /\ f[pick[s]] = Squared(Said(Chosen(s)))
  BY DEF Picks, Chosen
<1>2. IsFold(iter)
  <2> HIDE DEF f, pick
  <2>1. PICK h \in [SUBSET S -> Nat] : AddsUp(h, f, pick, S)
    BY <1>1, SumsAre DEF f
  <2>2. IsFold(h)
    BY <1>1, <2>1 DEF AddsUp
  <2>3. QED  BY <2>2
<1>3. MapThenSumSet(LAMBDA x : Said(x).magnitude * Said(x).magnitude, S) = iter[S]
  BY DEF MapThenSumSet, MapThenFoldSet, Chosen, Squared
<1> HIDE DEF iter, pick, f
<1>4. AddsUp(iter, f, pick, S)
  BY <1>1, <1>2 DEF AddsUp
<1>5. QED  BY <1>3, <1>4, AnySum DEF f
-----------------------------------------------------------------------------
(* What a budget has of the terms of the claims, some of which have been   *)
(* contributed: these are at places.                                       *)
Stated == Places(Claim)
LEMMA PlacesAre ==
    ASSUME NEW claims, NEW p
    PROVE  p \in Places(claims) <=> \E c \in claims : \E j \in DOMAIN Terms[c] : p = <<c, j>>
<1>1. ASSUME p \in Places(claims) PROVE \E c \in claims : \E j \in DOMAIN Terms[c] : p = <<c, j>>
  <2>1. PICK c \in claims : p \in {c} \X DOMAIN Terms[c]
    BY <1>1 DEF Places
  <2>2. QED  BY <2>1
<1>2. ASSUME NEW c \in claims, NEW j \in DOMAIN Terms[c], p = <<c, j>> PROVE p \in Places(claims)
  <2>1. p \in {c} \X DOMAIN Terms[c]
    BY <1>2
  <2>2. QED  BY <2>1 DEF Places
<1>3. QED  BY <1>1, <1>2

LEMMA SaidIs ==
    ASSUME BudgetConstants, NEW p \in Stated
    PROVE  /\ Said(p) \in Term /\ Said(p).magnitude \in Nat /\ Squared(Said(p)) \in Nat
           /\ Noise(Said(p)) \in Nat /\ Bias(Said(p)) \in Nat
<1>1. PICK c \in Claim : \E j \in DOMAIN Terms[c] : p = <<c, j>>
  BY PlacesAre DEF Stated
<1>2. Said(p) \in Term
  BY <1>1 DEF Said, BudgetConstants
<1>3. Said(p).magnitude \in Nat
  BY <1>2 DEF Term, BudgetConstants
<1>4. Squared(Said(p)) \in Nat
  BY <1>3 DEF Squared
<1>5. QED  BY <1>2, <1>3, <1>4 DEF Noise, Bias, Squared

(* What is stated of a source, and how much at most. *)
Met(places) == {s \in Sources : Systematic(places, s) # {}}
Tops(m, places, source) ==
    /\ \E p \in Systematic(places, source) : Said(p).magnitude = m
    /\ \A p \in Systematic(places, source) : Said(p).magnitude <= m
LEMMA GreatestIs ==
    ASSUME BudgetConstants, NEW places \in SUBSET Stated, IsFiniteSet(places),
           NEW source, Systematic(places, source) # {}
    PROVE  /\ Greatest(places, source) \in Nat /\ Tops(Greatest(places, source), places, source)
           /\ \A m \in Nat : Tops(m, places, source) => m = Greatest(places, source)
<1> DEFINE all == Systematic(places, source)
           Bounded(t) == t = {} \/ \E p \in t : \A q \in t : Said(q).magnitude <= Said(p).magnitude
           good == {t \in SUBSET all : Bounded(t)}
<1>1. IsFiniteSet(all) /\ all \in SUBSET Stated
  BY FS_Subset DEF Systematic
<1>2. \A p \in all : Said(p).magnitude \in Nat
  BY <1>1, SaidIs
<1> HIDE DEF all
<1>3. ASSUME NEW t \in SUBSET all, \A x \in t : t \ {x} \in good PROVE t \in good
  <2>1. CASE t # {}
    <3>1. PICK x \in t : TRUE
      BY <2>1
    <3>2. Bounded(t \ {x})
      BY <1>3
    <3>3. CASE t \ {x} = {}
      BY <3>1, <3>3, <1>2
    <3>4. CASE t \ {x} # {}
      <4>1. PICK p \in t \ {x} : \A q \in t \ {x} : Said(q).magnitude <= Said(p).magnitude
        BY <3>2, <3>4
      <4>2. Said(p).magnitude \in Nat /\ \A q \in t : Said(q).magnitude \in Nat
        BY <1>2
      <4>3. CASE Said(x).magnitude <= Said(p).magnitude
        BY <4>1, <4>3
      <4>4. CASE Said(p).magnitude <= Said(x).magnitude
        <5>1. \A q \in t : Said(q).magnitude <= Said(x).magnitude
          BY <4>1, <4>2, <4>4
        <5>2. QED  BY <5>1
      <4>5. QED  BY <4>2, <4>3, <4>4
    <3>5. QED  BY <3>3, <3>4
  <2>2. QED  BY <2>1
<1>4. Bounded(all)
  <2>1. good \in SUBSET SUBSET all
    OBVIOUS
  <2>2. good = SUBSET all
    <3> HIDE DEF good
    <3>1. QED  BY <1>1, <1>3, <2>1, OneMore
  <2>3. QED  BY <2>2
<1>5. PICK p \in all : \A q \in all : Said(q).magnitude <= Said(p).magnitude
  BY <1>4 DEF all
<1> DEFINE mags == {Said(q).magnitude : q \in all}
<1>6. /\ Greatest(places, source) \in mags
      /\ \A q \in all : Said(q).magnitude <= Greatest(places, source)
  <2>1. \E m \in mags : \A q \in all : Said(q).magnitude <= m
    BY <1>5
  <2>2. QED  BY <2>1 DEF Greatest, all
<1>7. PICK q \in all : Greatest(places, source) = Said(q).magnitude
  BY <1>6
<1>8. Greatest(places, source) \in Nat /\ Tops(Greatest(places, source), places, source)
  BY <1>2, <1>6, <1>7 DEF Tops, all
<1>9. ASSUME NEW m \in Nat, Tops(m, places, source) PROVE m = Greatest(places, source)
  <2>1. m <= Greatest(places, source) /\ Greatest(places, source) <= m
    BY <1>8, <1>9 DEF Tops
  <2>2. QED  BY <2>1, <1>8
<1>10. QED  BY <1>8, <1>9

(* Two terms are of one source, in one unit.                               *)
OneError(t, u) ==
    /\ t.kind = "systematic" /\ u.kind = "systematic"
    /\ t.source # NoSource /\ u.source = t.source /\ u.unit = t.unit
Uniform(places) == \A p, q \in places : Said(p).unit = Said(q).unit
NoiseOf == [p \in Stated |-> Noise(Said(p))]
Unshared(t) == IF t.kind = "systematic" /\ t.source = NoSource THEN t.magnitude ELSE 0
UnsharedOf == [p \in Stated |-> Unshared(Said(p))]
GreatestOf(places) == [s \in Met(places) |-> Greatest(places, s)]
Biased(places) == Sum(UnsharedOf, places) + Sum(GreatestOf(places), Met(places))
(* Which of the terms have which errors. *)
Covers(terms, places) ==
    /\ terms = <<>> <=> places = {}
    /\ \A i \in DOMAIN terms : \E p \in places : Said(p).unit = terms[i].unit
    /\ \A p \in places : \E i \in DOMAIN terms : Said(p).unit = terms[i].unit
Shares(terms, places) ==
    /\ \A i \in DOMAIN terms : OneError(terms[i], terms[i]) =>
          \E p \in places : OneError(terms[i], Said(p)) /\ Said(p).magnitude = terms[i].magnitude
    /\ \A p \in places : \A i \in DOMAIN terms :
          OneError(terms[i], Said(p)) => Said(p).magnitude <= terms[i].magnitude
    /\ \A p \in places : OneError(Said(p), Said(p)) => \E i \in DOMAIN terms : OneError(terms[i], Said(p))
    /\ \A i, j \in DOMAIN terms : OneError(terms[i], terms[j]) => i = j
Tallies(terms, places) ==
    /\ terms \in Seq(BudgetTerm) /\ places \in SUBSET Stated /\ IsFiniteSet(places)
    /\ Covers(terms, places) /\ Shares(terms, places)
    /\ Uniform(places) =>
          /\ Sum(Noises(terms), DOMAIN terms) = Sum(NoiseOf, places)
          /\ Sum(Biases(terms), DOMAIN terms) = Biased(places)

LEMMA TermIs ==
    ASSUME BudgetConstants, NEW t \in BudgetTerm
    PROVE  t.magnitude \in Nat /\ Noise(t) \in Nat /\ Bias(t) \in Nat /\ t.source \in Sources \cup {NoSource}
<1>1. t.magnitude \in Nat /\ t.source \in Sources \cup {NoSource}
  BY DEF BudgetTerm, BudgetConstants
<1>2. t.magnitude * t.magnitude \in Nat
  BY <1>1
<1>3. QED  BY <1>1, <1>2 DEF Noise, Bias

LEMMA AllAreNatural ==
    ASSUME BudgetConstants, NEW places \in SUBSET Stated, IsFiniteSet(places)
    PROVE  /\ Naturals(NoiseOf, places) /\ Naturals(UnsharedOf, places)
           /\ Naturals(GreatestOf(places), Met(places))
<1>1. Naturals(NoiseOf, places) /\ Naturals(UnsharedOf, places)
  BY SaidIs DEF Naturals, NoiseOf, UnsharedOf, Unshared
<1>2. IsFiniteSet(Met(places))
  <2> DEFINE names == {Said(p).source : p \in places}
  <2>1. IsFiniteSet(names)
    <3> DEFINE f == [p \in places |-> Said(p).source]
    <3>1. f \in Surjection(places, names)
      BY DEF Surjection
    <3>2. QED  BY <3>1, FS_Surjection
  <2>2. Met(places) \subseteq names
    BY DEF Met, Systematic
  <2>3. QED  BY <2>1, <2>2, FS_Subset
<1>3. ASSUME NEW s \in Met(places) PROVE GreatestOf(places)[s] \in Nat
  <2>1. Systematic(places, s) # {}
    BY DEF Met
  <2>2. Greatest(places, s) \in Nat
    BY <2>1, GreatestIs
  <2>3. QED  BY <2>2 DEF GreatestOf
<1>4. QED  BY <1>1, <1>2, <1>3 DEF Naturals

LEMMA TermsAreNatural ==
    ASSUME BudgetConstants, NEW terms \in Seq(BudgetTerm)
    PROVE  Naturals(Noises(terms), DOMAIN terms) /\ Naturals(Biases(terms), DOMAIN terms)
<1>1. DOMAIN terms = 1..Len(terms) /\ Len(terms) \in Nat /\ \A i \in DOMAIN terms : terms[i] \in BudgetTerm
  BY LenIs
<1>2. IsFiniteSet(DOMAIN terms)
  BY <1>1, FS_Interval
<1>3. \A i \in DOMAIN terms : Noise(terms[i]) \in Nat /\ Bias(terms[i]) \in Nat
  BY <1>1, TermIs
<1>4. QED  BY <1>2, <1>3 DEF Naturals, Noises, Biases

(* What is put at the end is added. *)
LEMMA TermAdds ==
    ASSUME BudgetConstants, NEW terms \in Seq(BudgetTerm), NEW t \in BudgetTerm
    PROVE  LET all == Append(terms, t)
           IN  /\ Sum(Noises(all), DOMAIN all) = Noise(t) + Sum(Noises(terms), DOMAIN terms)
               /\ Sum(Biases(all), DOMAIN all) = Bias(t) + Sum(Biases(terms), DOMAIN terms)
<1> DEFINE all == Append(terms, t)
           n == Len(terms)
<1>1. /\ n \in Nat /\ DOMAIN terms = 1..n /\ all \in Seq(BudgetTerm) /\ DOMAIN all = 1..(n + 1)
      /\ all[n + 1] = t /\ \A i \in 1..n : all[i] = terms[i]
  OBVIOUS
<1>2. n + 1 \notin DOMAIN terms /\ DOMAIN all = DOMAIN terms \cup {n + 1} /\ DOMAIN terms \subseteq DOMAIN all
  BY <1>1
<1> HIDE DEF all, n
<1>3. Naturals(Noises(all), DOMAIN all) /\ Naturals(Biases(all), DOMAIN all)
  BY <1>1, TermsAreNatural
<1>4. Naturals(Noises(all), DOMAIN terms) /\ Naturals(Biases(all), DOMAIN terms)
  BY <1>2, <1>3, TermsAreNatural DEF Naturals
<1>5. /\ \A i \in DOMAIN terms : Noises(all)[i] = Noises(terms)[i]
      /\ \A i \in DOMAIN terms : Biases(all)[i] = Biases(terms)[i]
  BY <1>1, <1>2 DEF Noises, Biases
<1>6. Noises(all)[n + 1] = Noise(t) /\ Biases(all)[n + 1] = Bias(t)
  BY <1>1 DEF Noises, Biases
<1>7. Sum(Noises(all), DOMAIN all) = Noises(all)[n + 1] + Sum(Noises(all), DOMAIN terms)
  BY <1>2, <1>3, SumWith
<1>8. Sum(Biases(all), DOMAIN all) = Biases(all)[n + 1] + Sum(Biases(all), DOMAIN terms)
  BY <1>2, <1>3, SumWith
<1>9. /\ Sum(Noises(all), DOMAIN terms) = Sum(Noises(terms), DOMAIN terms)
      /\ Sum(Biases(all), DOMAIN terms) = Sum(Biases(terms), DOMAIN terms)
  BY <1>4, <1>5, SumSame
<1>10. QED  BY <1>6, <1>7, <1>8, <1>9 DEF all

(* Where one is changed, so is the sum.                                    *)
LEMMA SumChanges ==
    ASSUME NEW S, NEW f, Naturals(f, S), NEW g, Naturals(g, S), NEW x \in S,
           \A y \in S \ {x} : f[y] = g[y]
    PROVE  Sum(f, S) + g[x] = Sum(g, S) + f[x]
<1>1. Naturals(f, S \ {x}) /\ Naturals(g, S \ {x})
  BY FS_Subset DEF Naturals
<1>2. Sum(f, S \ {x}) = Sum(g, S \ {x})
  BY <1>1, SumSame
<1>3. Sum(f, S) = f[x] + Sum(f, S \ {x}) /\ Sum(g, S) = g[x] + Sum(g, S \ {x})
  BY SumSplits
<1>4. f[x] \in Nat /\ g[x] \in Nat /\ Sum(f, S \ {x}) \in Nat
  BY <1>1, SumSplits DEF Naturals
<1>5. QED  BY <1>2, <1>3, <1>4

(* A place more of errors no other shares: what is met, and how great, is  *)
(* the same of every other source.                                         *)
LEMMA OthersAreMet ==
    ASSUME NEW places, NEW p, NEW s, s # Said(p).source \/ Said(p).kind # "systematic"
    PROVE  /\ Systematic(places \cup {p}, s) = Systematic(places, s)
           /\ Greatest(places \cup {p}, s) = Greatest(places, s)
<1>1. Systematic(places \cup {p}, s) = Systematic(places, s)
  BY DEF Systematic
<1>2. QED  BY <1>1 DEF Greatest

LEMMA PlaceAdds ==
    ASSUME BudgetConstants, NEW places \in SUBSET Stated, IsFiniteSet(places),
           NEW p \in Stated, p \notin places
    PROVE  /\ Sum(NoiseOf, places \cup {p}) = Noise(Said(p)) + Sum(NoiseOf, places)
           /\ Sum(UnsharedOf, places \cup {p}) = Unshared(Said(p)) + Sum(UnsharedOf, places)
<1>1. places \cup {p} \in SUBSET Stated /\ IsFiniteSet(places \cup {p})
  BY FS_AddElement
<1>2. Naturals(NoiseOf, places \cup {p}) /\ Naturals(UnsharedOf, places \cup {p})
  BY <1>1, AllAreNatural
<1>3. NoiseOf[p] = Noise(Said(p)) /\ UnsharedOf[p] = Unshared(Said(p))
  BY DEF NoiseOf, UnsharedOf
<1>4. QED  BY <1>2, <1>3, SumWith

LEMMA AloneAdds ==
    ASSUME BudgetConstants, NEW places \in SUBSET Stated, IsFiniteSet(places),
           NEW p \in Stated, p \notin places,
           OneError(Said(p), Said(p)) => Systematic(places, Said(p).source) = {}
    PROVE  Biased(places \cup {p}) = Bias(Said(p)) + Biased(places)
<1> DEFINE t == Said(p)
           more == places \cup {p}
<1>1. t \in Term /\ t.magnitude \in Nat /\ t.source \in Sources \cup {NoSource} /\ NoSource \notin Sources
  BY SaidIs DEF Term, BudgetConstants
<1>2. more \in SUBSET Stated /\ IsFiniteSet(more)
  BY FS_AddElement
<1>3. Sum(UnsharedOf, more) = Unshared(t) + Sum(UnsharedOf, places)
  BY PlaceAdds
<1>4. Naturals(GreatestOf(more), Met(more)) /\ Naturals(GreatestOf(places), Met(places))
  BY <1>2, AllAreNatural
<1>5. /\ Sum(UnsharedOf, places) \in Nat /\ Sum(GreatestOf(places), Met(places)) \in Nat
      /\ Naturals(UnsharedOf, places)
  BY <1>4, AllAreNatural, SumSplits
<1> HIDE DEF t, more
<1>6. CASE t.kind = "systematic" /\ t.source # NoSource
  <2> DEFINE s == t.source
  <2>1. s \in Sources /\ Systematic(places, s) = {}
    BY <1>1, <1>6 DEF OneError, t
  <2>2. Systematic(more, s) = {p}
    BY <2>1, <1>6 DEF Systematic, t, more
  <2>3. s \notin Met(places) /\ Met(more) = Met(places) \cup {s}
    <3>1. \A r \in Sources : r # s => Systematic(more, r) = Systematic(places, r)
      BY OthersAreMet DEF t, more
    <3> HIDE DEF s
    <3>2. s \notin Met(places) /\ s \in Met(more)
      BY <2>1, <2>2 DEF Met
    <3>3. \A r \in Sources : r # s => (r \in Met(more) <=> r \in Met(places))
      BY <3>1 DEF Met
    <3>4. Met(more) \subseteq Sources /\ Met(places) \subseteq Sources
      BY DEF Met
    <3>5. QED  BY <2>1, <3>2, <3>3, <3>4
  <2>4. GreatestOf(more)[s] = t.magnitude
    <3>1. Tops(t.magnitude, more, s)
      BY <2>2, <1>1 DEF Tops, t
    <3>2. t.magnitude = Greatest(more, s)
      BY <1>1, <1>2, <2>2, <3>1, GreatestIs
    <3>3. QED  BY <2>3, <3>2 DEF GreatestOf
  <2>5. \A r \in Met(places) : GreatestOf(places)[r] = GreatestOf(more)[r]
    <3>1. \A r \in Met(places) : r # s /\ r \in Met(more)
      BY <2>3
    <3>2. \A r \in Met(places) : Greatest(more, r) = Greatest(places, r)
      BY <3>1, OthersAreMet DEF t, more
    <3>3. QED  BY <3>1, <3>2 DEF GreatestOf
  <2> HIDE DEF s
  <2>6. Sum(GreatestOf(more), Met(more)) = t.magnitude + Sum(GreatestOf(more), Met(places))
    <3>1. Naturals(GreatestOf(more), Met(places) \cup {s})
      BY <1>4, <2>3
    <3>2. Sum(GreatestOf(more), Met(places) \cup {s}) = GreatestOf(more)[s] + Sum(GreatestOf(more), Met(places))
      BY <2>3, <3>1, SumWith
    <3>3. QED  BY <2>3, <2>4, <3>2
  <2>7. Sum(GreatestOf(more), Met(places)) = Sum(GreatestOf(places), Met(places))
    BY <1>4, <2>5, SumSame
  <2>8. Unshared(t) = 0 /\ Bias(t) = t.magnitude
    BY <1>6 DEF Unshared, Bias
  <2>9. QED  BY <1>1, <1>3, <1>5, <2>6, <2>7, <2>8 DEF Biased, more, t
<1>7. CASE ~(t.kind = "systematic" /\ t.source # NoSource)
  <2>1. \A r \in Sources : Systematic(more, r) = Systematic(places, r) /\ Greatest(more, r) = Greatest(places, r)
    BY <1>1, <1>7, OthersAreMet DEF t, more
  <2>2. Met(more) = Met(places)
    BY <2>1 DEF Met
  <2>3. \A r \in Met(places) : GreatestOf(places)[r] = GreatestOf(more)[r]
    BY <2>1, <2>2 DEF GreatestOf, Met
  <2>4. Sum(GreatestOf(more), Met(more)) = Sum(GreatestOf(places), Met(places))
    BY <1>4, <2>2, <2>3, SumSame
  <2>5. Unshared(t) = Bias(t) /\ Bias(t) \in Nat
    BY <1>1, <1>7 DEF Unshared, Bias
  <2>6. QED  BY <1>3, <1>5, <2>4, <2>5 DEF Biased, more, t
<1>8. QED  BY <1>6, <1>7

Greater(m, n) == IF m > n THEN m ELSE n
LEMMA SharedAdds ==
    ASSUME BudgetConstants, NEW places \in SUBSET Stated, IsFiniteSet(places),
           NEW p \in Stated, p \notin places, OneError(Said(p), Said(p)),
           Systematic(places, Said(p).source) # {}
    PROVE  LET g == Greatest(places, Said(p).source)
           IN  Biased(places \cup {p}) + g = Biased(places) + Greater(Said(p).magnitude, g)
<1> DEFINE t == Said(p)
           s == t.source
           more == places \cup {p}
           g == Greatest(places, s)
           top == Greater(t.magnitude, g)
<1>1. t \in Term /\ t.magnitude \in Nat /\ s \in Sources
  BY SaidIs DEF Term, OneError
<1>2. more \in SUBSET Stated /\ IsFiniteSet(more)
  BY FS_AddElement
<1>3. g \in Nat /\ Tops(g, places, s) /\ top \in Nat
  <2>1. g \in Nat /\ Tops(g, places, s)
    BY GreatestIs
  <2>2. QED  BY <1>1, <2>1 DEF Greater
<1>4. Naturals(GreatestOf(more), Met(more)) /\ Naturals(GreatestOf(places), Met(places))
  BY <1>2, AllAreNatural
<1>5. /\ Sum(UnsharedOf, more) = Unshared(t) + Sum(UnsharedOf, places)
      /\ Sum(UnsharedOf, places) \in Nat /\ Unshared(t) = 0
  BY PlaceAdds, AllAreNatural, SumSplits DEF Unshared, OneError
<1>6. Systematic(more, s) = Systematic(places, s) \cup {p}
  BY DEF Systematic, OneError
<1>7. Met(more) = Met(places) /\ s \in Met(places)
  <2>1. \A r \in Sources : r # s => Systematic(more, r) = Systematic(places, r)
    BY OthersAreMet
  <2> HIDE DEF more, s
  <2>2. s \in Met(places) /\ s \in Met(more)
    BY <1>1, <1>6 DEF Met, s
  <2>3. \A r \in Sources : r # s => (r \in Met(more) <=> r \in Met(places))
    BY <2>1 DEF Met
  <2>4. Met(more) \subseteq Sources /\ Met(places) \subseteq Sources
    BY DEF Met
  <2>5. QED  BY <2>2, <2>3, <2>4
<1>8. Greatest(more, s) = top
  <2>1. Tops(top, more, s)
    <3>1. \A q \in Systematic(places, s) : Said(q).magnitude \in Nat
      BY SaidIs DEF Systematic
    <3>2. \A q \in Systematic(places, s) : Said(q).magnitude <= top
      BY <1>1, <1>3, <3>1 DEF Tops, Greater
    <3>3. t.magnitude <= top /\ (top = t.magnitude \/ top = g)
      BY <1>1, <1>3 DEF Greater
    <3>4. PICK q \in Systematic(places, s) : Said(q).magnitude = g
      BY <1>3 DEF Tops
    <3> HIDE DEF top, g
    <3>5. \E x \in Systematic(more, s) : Said(x).magnitude = top
      BY <1>6, <3>3, <3>4
    <3>6. \A x \in Systematic(more, s) : Said(x).magnitude <= top
      BY <1>6, <3>2, <3>3
    <3>7. QED  BY <3>5, <3>6 DEF Tops
  <2>2. Systematic(more, s) # {}
    BY <1>6
  <2> HIDE DEF top, more, s
  <2>3. QED  BY <1>2, <1>3, <2>1, <2>2, GreatestIs
<1>9. GreatestOf(more)[s] = top /\ GreatestOf(places)[s] = g
  BY <1>7, <1>8 DEF GreatestOf
<1>10. \A r \in Met(places) \ {s} : GreatestOf(more)[r] = GreatestOf(places)[r]
  <2>1. \A r \in Met(places) \ {s} : Greatest(more, r) = Greatest(places, r)
    BY OthersAreMet
  <2>2. QED  BY <1>7, <2>1 DEF GreatestOf
<1> HIDE DEF more, top, g, s, t
<1>11. Sum(GreatestOf(more), Met(places)) + g = Sum(GreatestOf(places), Met(places)) + top
  BY <1>4, <1>7, <1>9, <1>10, SumChanges
<1>12. Sum(GreatestOf(more), Met(places)) \in Nat /\ Sum(GreatestOf(places), Met(places)) \in Nat
  BY <1>4, <1>7, SumSplits
<1>13. Biased(more) = Sum(UnsharedOf, places) + Sum(GreatestOf(more), Met(places))
  BY <1>5, <1>7 DEF Biased
<1>14. Biased(more) + g = Biased(places) + top
  BY <1>3, <1>5, <1>11, <1>12, <1>13 DEF Biased
<1>15. QED  BY <1>14 DEF more, top, g, s, t

(* What a term which is of no error there yet makes of a budget. *)
LEMMA NewErrorTallies ==
    ASSUME BudgetConstants, NEW terms, NEW places, Tallies(terms, places),
           NEW p \in Stated, p \notin places, NEW u \in BudgetTerm,
           u.kind = Said(p).kind, u.source = Said(p).source, u.unit = Said(p).unit,
           u.magnitude = Said(p).magnitude,
           \A i \in DOMAIN terms : ~OneError(terms[i], Said(p))
    PROVE  Tallies(Append(terms, u), places \cup {p})
<1> DEFINE t == Said(p)
           more == places \cup {p}
           all == Append(terms, u)
           n == Len(terms)
<1>1. /\ terms \in Seq(BudgetTerm) /\ places \in SUBSET Stated /\ IsFiniteSet(places)
      /\ Covers(terms, places) /\ Shares(terms, places)
  BY DEF Tallies
<1>2. /\ n \in Nat /\ DOMAIN terms = 1..n /\ all \in Seq(BudgetTerm) /\ DOMAIN all = 1..(n + 1)
      /\ all[n + 1] = u /\ \A i \in 1..n : all[i] = terms[i]
  BY <1>1
<1>3. n + 1 \in DOMAIN all /\ n + 1 \notin DOMAIN terms /\ all # <<>> /\ \A i \in DOMAIN all : i \in DOMAIN terms \/ i = n + 1
  BY <1>2
<1>4. \A i \in DOMAIN terms : i \in DOMAIN all /\ all[i] = terms[i]
  BY <1>2
<1>5. more \in SUBSET Stated /\ IsFiniteSet(more)
  BY <1>1, FS_AddElement
<1>6. \A v : /\ OneError(v, u) <=> OneError(v, t)
             /\ OneError(u, v) <=> OneError(t, v)
  BY DEF OneError
<1> HIDE DEF all, n, t
<1>7. Covers(all, more)
  <2>1. \A i \in DOMAIN all : \E q \in more : Said(q).unit = all[i].unit
    BY <1>1, <1>2, <1>3, <1>4 DEF Covers
  <2>2. \A q \in more : \E i \in DOMAIN all : Said(q).unit = all[i].unit
    BY <1>1, <1>2, <1>3, <1>4 DEF Covers
  <2>3. QED  BY <1>3, <2>1, <2>2 DEF Covers
<1>8. Shares(all, more)
  <2>1. ASSUME NEW i \in DOMAIN all, OneError(all[i], all[i])
        PROVE  \E q \in more : OneError(all[i], Said(q)) /\ Said(q).magnitude = all[i].magnitude
    <3>1. CASE i \in DOMAIN terms
      BY <1>1, <1>4, <2>1, <3>1 DEF Shares
    <3>2. CASE i = n + 1
      <4>1. OneError(all[i], t) /\ t.magnitude = all[i].magnitude
        BY <1>2, <1>6, <2>1, <3>2 DEF t
      <4>2. QED  BY <4>1 DEF t
    <3>3. QED  BY <1>3, <3>1, <3>2
  <2>2. ASSUME NEW q \in more, NEW i \in DOMAIN all, OneError(all[i], Said(q))
        PROVE  Said(q).magnitude <= all[i].magnitude
    <3>1. CASE i \in DOMAIN terms /\ q \in places
      BY <1>1, <1>4, <2>2, <3>1 DEF Shares
    <3>2. CASE i \in DOMAIN terms /\ q = p
      BY <1>4, <2>2, <3>2
    <3>3. CASE i = n + 1 /\ q = p
      <4>1. all[i].magnitude = t.magnitude /\ t.magnitude \in Nat
        BY <1>2, <3>3, SaidIs DEF t
      <4>2. QED  BY <3>3, <4>1 DEF t
    <3>4. CASE i = n + 1 /\ q \in places
      <4>1. OneError(t, Said(q))
        BY <1>2, <1>6, <2>2, <3>4
      <4>2. OneError(Said(q), Said(q))
        BY <4>1 DEF OneError
      <4>3. PICK k \in DOMAIN terms : OneError(terms[k], Said(q))
        BY <1>1, <3>4, <4>2 DEF Shares
      <4>4. OneError(terms[k], t)
        BY <4>1, <4>3 DEF OneError
      <4>5. QED  BY <4>4 DEF t
    <3>5. QED  BY <1>3, <3>1, <3>2, <3>3, <3>4
  <2>3. ASSUME NEW q \in more, OneError(Said(q), Said(q))
        PROVE  \E i \in DOMAIN all : OneError(all[i], Said(q))
    <3>1. CASE q \in places
      BY <1>1, <1>4, <2>3, <3>1 DEF Shares
    <3>2. CASE q = p
      BY <1>2, <1>3, <1>6, <2>3, <3>2 DEF t
    <3>3. QED  BY <3>1, <3>2
  <2>4. ASSUME NEW i \in DOMAIN all, NEW k \in DOMAIN all, OneError(all[i], all[k]) PROVE i = k
    <3>1. CASE i \in DOMAIN terms /\ k \in DOMAIN terms
      BY <1>1, <1>4, <2>4, <3>1 DEF Shares
    <3>2. CASE i \in DOMAIN terms /\ k = n + 1
      <4>1. OneError(terms[i], t)
        BY <1>2, <1>4, <1>6, <2>4, <3>2
      <4>2. QED  BY <3>2, <4>1 DEF t
    <3>3. CASE i = n + 1 /\ k \in DOMAIN terms
      <4>1. OneError(t, terms[k])
        BY <1>2, <1>4, <1>6, <2>4, <3>3
      <4>2. OneError(terms[k], t)
        BY <4>1 DEF OneError
      <4>3. QED  BY <3>3, <4>2 DEF t
    <3>4. QED  BY <1>3, <3>1, <3>2, <3>3
  <2>5. QED  BY <2>1, <2>2, <2>3, <2>4 DEF Shares
<1>9. ASSUME Uniform(more)
      PROVE  /\ Sum(Noises(all), DOMAIN all) = Sum(NoiseOf, more)
             /\ Sum(Biases(all), DOMAIN all) = Biased(more)
  <2>1. Uniform(places)
    BY <1>9 DEF Uniform
  <2>2. /\ Sum(Noises(terms), DOMAIN terms) = Sum(NoiseOf, places)
        /\ Sum(Biases(terms), DOMAIN terms) = Biased(places)
    BY <2>1 DEF Tallies
  <2>3. Noise(u) = Noise(t) /\ Bias(u) = Bias(t)
    BY DEF Noise, Bias, t
  <2>4. Sum(NoiseOf, more) = Noise(t) + Sum(NoiseOf, places)
    BY <1>1, PlaceAdds DEF t
  <2>5. OneError(t, t) => Systematic(places, t.source) = {}
    <3> SUFFICES ASSUME OneError(t, t), NEW q \in Systematic(places, t.source) PROVE FALSE
      OBVIOUS
    <3>1. q \in places /\ OneError(Said(q), Said(q)) /\ OneError(t, Said(q))
      BY <1>9 DEF Systematic, OneError, Uniform, t
    <3>2. PICK k \in DOMAIN terms : OneError(terms[k], Said(q))
      BY <1>1, <3>1 DEF Shares
    <3>3. OneError(terms[k], t)
      BY <3>1, <3>2 DEF OneError
    <3>4. QED  BY <3>3 DEF t
  <2>6. Biased(more) = Bias(t) + Biased(places)
    BY <1>1, <2>5, AloneAdds DEF t
  <2>7. /\ Sum(Noises(all), DOMAIN all) = Noise(u) + Sum(Noises(terms), DOMAIN terms)
        /\ Sum(Biases(all), DOMAIN all) = Bias(u) + Sum(Biases(terms), DOMAIN terms)
    BY <1>1, TermAdds DEF all
  <2>8. QED  BY <2>2, <2>3, <2>4, <2>6, <2>7
<1>10. QED  BY <1>2, <1>5, <1>7, <1>8, <1>9 DEF Tallies, all

(* And one which is of an error there is.                                  *)
LEMMA OldErrorTallies ==
    ASSUME BudgetConstants, NEW terms, NEW places, Tallies(terms, places),
           NEW p \in Stated, p \notin places, NEW i \in DOMAIN terms, OneError(terms[i], Said(p)),
           NEW all \in Seq(BudgetTerm), DOMAIN all = DOMAIN terms,
           \A k \in DOMAIN terms \ {i} : all[k] = terms[k],
           all[i].kind = terms[i].kind, all[i].source = terms[i].source, all[i].unit = terms[i].unit,
           all[i].magnitude = Greater(Said(p).magnitude, terms[i].magnitude)
    PROVE  Tallies(all, places \cup {p})
<1> DEFINE t == Said(p)
           more == places \cup {p}
           s == t.source
           top == Greater(t.magnitude, terms[i].magnitude)
<1>1. /\ terms \in Seq(BudgetTerm) /\ places \in SUBSET Stated /\ IsFiniteSet(places)
      /\ Covers(terms, places) /\ Shares(terms, places)
  BY DEF Tallies
<1>2. more \in SUBSET Stated /\ IsFiniteSet(more)
  BY <1>1, FS_AddElement
<1>3. /\ t.magnitude \in Nat /\ terms[i].magnitude \in Nat
      /\ top \in Nat /\ t.magnitude <= top /\ terms[i].magnitude <= top
      /\ top = t.magnitude \/ top = terms[i].magnitude
  <2>1. terms[i] \in BudgetTerm
    BY <1>1, LenIs
  <2>2. t.magnitude \in Nat /\ terms[i].magnitude \in Nat
    BY <2>1, SaidIs, TermIs
  <2>3. QED  BY <2>2 DEF Greater
<1>4. \A k \in DOMAIN terms : /\ all[k].unit = terms[k].unit
                              /\ \A v : /\ OneError(all[k], v) <=> OneError(terms[k], v)
                                        /\ OneError(v, all[k]) <=> OneError(v, terms[k])
  <2>1. \A k \in DOMAIN terms : /\ all[k].unit = terms[k].unit /\ all[k].kind = terms[k].kind
                                /\ all[k].source = terms[k].source
    OBVIOUS
  <2>2. QED  BY <2>1 DEF OneError
<1>5. all[i].magnitude = top /\ \A k \in DOMAIN terms : k # i => all[k].magnitude = terms[k].magnitude
  OBVIOUS
<1> HIDE DEF top
<1>6. Covers(all, more)
  <2>1. \A k \in DOMAIN all : \E q \in more : Said(q).unit = all[k].unit
    BY <1>1, <1>4 DEF Covers
  <2>2. t.unit = terms[i].unit
    BY DEF OneError
  <2>3. \A q \in more : \E k \in DOMAIN all : Said(q).unit = all[k].unit
    BY <1>1, <1>4, <2>2 DEF Covers
  <2>4. all # <<>> /\ more # {}
    <3>1. i \in DOMAIN all
      OBVIOUS
    <3>2. QED  BY <3>1
  <2>5. QED  BY <2>1, <2>3, <2>4 DEF Covers
<1>7. Shares(all, more)
  <2>1. ASSUME NEW k \in DOMAIN all, OneError(all[k], all[k])
        PROVE  \E q \in more : OneError(all[k], Said(q)) /\ Said(q).magnitude = all[k].magnitude
    <3>1. OneError(terms[k], terms[k])
      BY <1>4, <2>1
    <3>2. PICK q \in places : OneError(terms[k], Said(q)) /\ Said(q).magnitude = terms[k].magnitude
      BY <1>1, <3>1 DEF Shares
    <3>3. CASE k # i
      BY <1>4, <1>5, <3>2, <3>3
    <3>4. CASE k = i /\ top = terms[i].magnitude
      BY <1>4, <1>5, <3>2, <3>4
    <3>5. CASE k = i /\ top = t.magnitude
      BY <1>4, <1>5, <3>5
    <3>6. QED  BY <1>3, <3>3, <3>4, <3>5
  <2>2. ASSUME NEW q \in more, NEW k \in DOMAIN all, OneError(all[k], Said(q))
        PROVE  Said(q).magnitude <= all[k].magnitude
    <3>1. OneError(terms[k], Said(q))
      BY <1>4, <2>2
    <3>2. CASE q \in places
      <4>1. Said(q).magnitude <= terms[k].magnitude /\ Said(q).magnitude \in Nat
        BY <1>1, <3>1, <3>2, SaidIs DEF Shares
      <4>2. QED  BY <1>3, <1>5, <4>1
    <3>3. CASE q = p
      <4>1. OneError(terms[i], terms[k])
        BY <3>1, <3>3 DEF OneError
      <4>2. k = i
        BY <1>1, <4>1 DEF Shares
      <4>3. QED  BY <1>3, <1>5, <3>3, <4>2
    <3>4. QED  BY <3>2, <3>3
  <2>3. ASSUME NEW q \in more, OneError(Said(q), Said(q))
        PROVE  \E k \in DOMAIN all : OneError(all[k], Said(q))
    BY <1>1, <1>4, <2>3 DEF Shares
  <2>4. ASSUME NEW k \in DOMAIN all, NEW l \in DOMAIN all, OneError(all[k], all[l]) PROVE k = l
    <3>1. OneError(terms[k], terms[l])
      BY <1>4, <2>4
    <3>2. QED  BY <1>1, <3>1 DEF Shares
  <2>5. QED  BY <2>1, <2>2, <2>3, <2>4 DEF Shares
<1>8. ASSUME Uniform(more)
      PROVE  /\ Sum(Noises(all), DOMAIN all) = Sum(NoiseOf, more)
             /\ Sum(Biases(all), DOMAIN all) = Biased(more)
  <2>1. Uniform(places)
    BY <1>8 DEF Uniform
  <2>2. /\ Sum(Noises(terms), DOMAIN terms) = Sum(NoiseOf, places)
        /\ Sum(Biases(terms), DOMAIN terms) = Biased(places)
    BY <2>1 DEF Tallies
  <2>3. /\ Naturals(Noises(all), DOMAIN terms) /\ Naturals(Biases(all), DOMAIN terms)
        /\ Naturals(Noises(terms), DOMAIN terms) /\ Naturals(Biases(terms), DOMAIN terms)
    BY <1>1, TermsAreNatural
  <2>4. Sum(Noises(all), DOMAIN terms) = Sum(Noises(terms), DOMAIN terms)
    <3>1. Noise(all[i]) = 0 /\ Noise(terms[i]) = 0
      BY DEF Noise, OneError
    <3>2. \A k \in DOMAIN terms : Noises(all)[k] = Noises(terms)[k]
      BY <3>1 DEF Noises
    <3>3. QED  BY <2>3, <3>2, SumSame
  <2>5. Noise(t) = 0 /\ Sum(NoiseOf, places) \in Nat
    BY <1>1, AllAreNatural, SumSplits DEF Noise, OneError
  <2>6. Sum(NoiseOf, more) = Noise(t) + Sum(NoiseOf, places)
    BY <1>1, PlaceAdds
  <2>7. Sum(Biases(all), DOMAIN terms) + terms[i].magnitude = Sum(Biases(terms), DOMAIN terms) + top
    <3>1. Biases(all)[i] = top /\ Biases(terms)[i] = terms[i].magnitude
      BY <1>5 DEF Biases, Bias, OneError
    <3>2. \A k \in DOMAIN terms \ {i} : Biases(all)[k] = Biases(terms)[k]
      BY DEF Biases
    <3>3. QED  BY <2>3, <3>1, <3>2, SumChanges
  <2>8. OneError(t, t)
    BY DEF OneError
  <2>9. Systematic(places, s) # {} /\ Tops(terms[i].magnitude, places, s)
    <3>1. OneError(terms[i], terms[i])
      BY DEF OneError
    <3>2. PICK q \in places : OneError(terms[i], Said(q)) /\ Said(q).magnitude = terms[i].magnitude
      BY <1>1, <3>1 DEF Shares
    <3>3. q \in Systematic(places, s)
      BY <3>2 DEF Systematic, OneError
    <3>4. ASSUME NEW r \in Systematic(places, s) PROVE Said(r).magnitude <= terms[i].magnitude
      <4>1. r \in places /\ OneError(terms[i], Said(r))
        BY <1>8 DEF Systematic, OneError, Uniform
      <4>2. QED  BY <1>1, <4>1 DEF Shares
    <3>5. QED  BY <3>2, <3>3, <3>4 DEF Tops
  <2>10. terms[i].magnitude = Greatest(places, s)
    BY <1>1, <1>3, <2>9, GreatestIs
  <2>11. Biased(more) + terms[i].magnitude = Biased(places) + top
    BY <1>1, <2>8, <2>9, <2>10, SharedAdds DEF top
  <2>12. Biased(more) \in Nat /\ Sum(Biases(all), DOMAIN terms) \in Nat
    <3>1. Sum(UnsharedOf, more) \in Nat /\ Sum(GreatestOf(more), Met(more)) \in Nat
      BY <1>2, AllAreNatural, SumSplits
    <3>2. QED  BY <2>3, <3>1, SumSplits DEF Biased
  <2>13. QED  BY <1>3, <2>2, <2>4, <2>5, <2>6, <2>7, <2>11, <2>12
<1>9. QED  BY <1>2, <1>6, <1>7, <1>8 DEF Tallies

Raised(u, t, c) ==
    [u EXCEPT !.contributors = @ \cup {c}, !.magnitude = IF t.magnitude > @ THEN t.magnitude ELSE @]
LEMMA RaisedIs ==
    ASSUME BudgetConstants, NEW u \in BudgetTerm, NEW t \in Term, NEW c \in Claim
    PROVE  /\ Raised(u, t, c) \in BudgetTerm
           /\ Raised(u, t, c).kind = u.kind /\ Raised(u, t, c).source = u.source
           /\ Raised(u, t, c).unit = u.unit
           /\ Raised(u, t, c).magnitude = Greater(t.magnitude, u.magnitude)
<1>1. Raised(u, t, c) = [kind |-> u.kind, source |-> u.source, unit |-> u.unit,
                        magnitude |-> Greater(t.magnitude, u.magnitude),
                        contributors |-> u.contributors \cup {c}]
  <2>1. PICK kind \in {"independent", "systematic"}, source \in Sources \cup {NoSource}, unit \in Unit,
             magnitude \in Magnitudes, by \in SUBSET Claim :
             u = [kind |-> kind, source |-> source, unit |-> unit, magnitude |-> magnitude, contributors |-> by]
    BY DEF BudgetTerm
  <2>2. u.magnitude = magnitude /\ u.contributors = by /\ u.kind = kind /\ u.source = source /\ u.unit = unit
    BY <2>1
  <2>3. Raised(u, t, c) = [u EXCEPT !.contributors = by \cup {c}, !.magnitude = Greater(t.magnitude, magnitude)]
    BY <2>2 DEF Raised, Greater
  <2>4. QED  BY <2>1, <2>2, <2>3
<1>2. Greater(t.magnitude, u.magnitude) \in Magnitudes
  BY DEF Greater, Term, BudgetTerm
<1>3. QED  BY <1>1, <1>2 DEF BudgetTerm

LEMMA ContributeIs ==
    ASSUME NEW c, NEW terms, NEW t
    PROVE  /\ SameTerm(terms, t) = {i \in DOMAIN terms : OneError(terms[i], t)}
           /\ SameTerm(terms, t) = {} => Contribute(c, terms, t) = Append(terms, NewTerm(c, t))
           /\ SameTerm(terms, t) # {} =>
                 Contribute(c, terms, t) =
                    [i \in DOMAIN terms |-> IF i \in SameTerm(terms, t) THEN Raised(terms[i], t, c) ELSE terms[i]]
BY DEF SameTerm, Contribute, OneError, Raised

LEMMA NewTermIs ==
    ASSUME NEW c \in Claim, NEW t \in Term
    PROVE  /\ NewTerm(c, t) \in BudgetTerm
           /\ NewTerm(c, t).kind = t.kind /\ NewTerm(c, t).source = t.source
           /\ NewTerm(c, t).unit = t.unit /\ NewTerm(c, t).magnitude = t.magnitude
BY DEF NewTerm, Term, BudgetTerm

LEMMA ContributeTypes ==
    ASSUME BudgetConstants, NEW c \in Claim, NEW terms \in Seq(BudgetTerm), NEW t \in Term
    PROVE  Contribute(c, terms, t) \in Seq(BudgetTerm)
<1>1. CASE SameTerm(terms, t) = {}
  <2>1. Append(terms, NewTerm(c, t)) \in Seq(BudgetTerm)
    BY NewTermIs
  <2>2. QED  BY <1>1, <2>1, ContributeIs
<1>2. CASE SameTerm(terms, t) # {}
  <2> DEFINE all == [i \in DOMAIN terms |-> IF i \in SameTerm(terms, t) THEN Raised(terms[i], t, c) ELSE terms[i]]
  <2>1. DOMAIN terms = 1..Len(terms) /\ Len(terms) \in Nat /\ \A i \in DOMAIN terms : terms[i] \in BudgetTerm
    BY LenIs
  <2>2. \A i \in DOMAIN terms : all[i] \in BudgetTerm
    BY <2>1, RaisedIs
  <2> HIDE DEF all
  <2>3. all \in [1..Len(terms) -> BudgetTerm]
    BY <2>1, <2>2 DEF all
  <2>4. all \in Seq(BudgetTerm)
    BY <2>1, <2>3
  <2>5. QED  BY <1>2, <2>4, ContributeIs DEF all
<1>3. QED  BY <1>1, <1>2

LEMMA ContributeTallies ==
    ASSUME BudgetConstants, NEW terms, NEW places, Tallies(terms, places),
           NEW c \in Claim, NEW j \in DOMAIN Terms[c], <<c, j>> \notin places
    PROVE  Tallies(Contribute(c, terms, Terms[c][j]), places \cup {<<c, j>>})
<1> DEFINE p == <<c, j>>
           t == Terms[c][j]
           all == Contribute(c, terms, t)
<1>1. p \in Stated /\ Said(p) = t
  BY PlacesAre DEF Stated, Said
<1>2. t \in Term /\ terms \in Seq(BudgetTerm)
  BY <1>1, SaidIs DEF Tallies
<1> HIDE DEF t, p
<1>3. CASE SameTerm(terms, t) = {}
  <2>1. all = Append(terms, NewTerm(c, t)) /\ \A i \in DOMAIN terms : ~OneError(terms[i], Said(p))
    BY <1>1, <1>3, ContributeIs
  <2>2. p \notin places
    BY DEF p
  <2>3. Tallies(Append(terms, NewTerm(c, t)), places \cup {p})
    BY <1>1, <1>2, <2>1, <2>2, NewTermIs, NewErrorTallies
  <2>4. QED  BY <2>1, <2>3 DEF p, t
<1>4. CASE SameTerm(terms, t) # {}
  <2>0. SameTerm(terms, t) = {i \in DOMAIN terms : OneError(terms[i], t)}
    BY ContributeIs
  <2>1. PICK i \in DOMAIN terms : OneError(terms[i], t) /\ i \in SameTerm(terms, t)
    BY <1>4, <2>0
  <2>2. ASSUME NEW k \in SameTerm(terms, t) PROVE k = i
    <3>1. k \in DOMAIN terms /\ OneError(terms[k], t)
      BY <2>0
    <3>2. OneError(terms[k], terms[i])
      BY <2>1, <3>1 DEF OneError
    <3>3. QED  BY <2>1, <3>1, <3>2 DEF Tallies, Shares
  <2>3. /\ DOMAIN all = DOMAIN terms /\ all[i] = Raised(terms[i], t, c)
        /\ \A k \in DOMAIN terms \ {i} : all[k] = terms[k]
    BY <1>4, <2>1, <2>2, ContributeIs
  <2>4. all \in Seq(BudgetTerm) /\ p \notin places
    BY <1>2, ContributeTypes DEF p
  <2>5. terms[i] \in BudgetTerm
    BY <1>2, LenIs
  <2> HIDE DEF all
  <2>6. /\ all[i].kind = terms[i].kind /\ all[i].source = terms[i].source /\ all[i].unit = terms[i].unit
        /\ all[i].magnitude = Greater(Said(p).magnitude, terms[i].magnitude)
    BY <1>1, <1>2, <2>3, <2>5, RaisedIs
  <2>7. Tallies(all, places \cup {p})
    BY <1>1, <2>1, <2>3, <2>4, <2>6, OldErrorTallies
  <2>8. QED  BY <2>7 DEF p, t, all
<1>5. QED  BY <1>3, <1>4

(* All but the last of the first so many. *)
LEMMA ButTheLast ==
    ASSUME NEW k \in Nat
    PROVE  /\ 1..0 = {} /\ 1..(k + 1) # {} /\ Max(1..(k + 1)) = k + 1
           /\ (1..(k + 1)) \ {Max(1..(k + 1))} = 1..k
<1> DEFINE s == 1..(k + 1)
<1>1. k + 1 \in Nat /\ s \in SUBSET (1..(k + 1)) /\ k + 1 \in s
  OBVIOUS
<1> HIDE DEF s
<1>2. Max(s) \in s /\ \A x \in s : x <= Max(s)
  BY <1>1, MaxIs
<1>3. Max(s) = k + 1
  BY <1>1, <1>2 DEF s
<1>4. QED  BY <1>3 DEF s

(* Every term of a claim is contributed, and each is a place more.         *)
Upto(c, k) == {<<c, j>> : j \in 1..k}
Contributed(c, terms) == FoldLeft(LAMBDA ts, term : Contribute(c, ts, term), terms, Terms[c])
LEMMA TermsTally ==
    ASSUME BudgetConstants, NEW terms, NEW places, Tallies(terms, places), NEW c \in Claim,
           \A j \in DOMAIN Terms[c] : <<c, j>> \notin places
    PROVE  Tallies(Contributed(c, terms), places \cup Places({c}))
<1> DEFINE list == Terms[c]
           D == DOMAIN list
           n == Len(list)
           IsFold(h) == h = [s \in SUBSET D |->
                               IF s = {} THEN terms ELSE Contribute(c, h[s \ {Max(s)}], list[Max(s)])]
           iter == CHOOSE h : IsFold(h)
<1>1. /\ n \in Nat /\ D = 1..n /\ \A j \in D : list[j] \in Term
      /\ terms \in Seq(BudgetTerm)
  BY LenIs DEF BudgetConstants, Tallies
<1>2. IsFold(iter)
  <2> DEFINE V == Seq(BudgetTerm)
             g == [p \in D \X V |-> Contribute(c, p[2], list[p[1]])]
             pick == Top(n)
  <2>1. \A j \in D, v \in V : g[<<j, v>>] = Contribute(c, v, list[j]) /\ g[<<j, v>>] \in V
    BY <1>1, ContributeTypes
  <2>2. Picks(pick, D) /\ \A s \in SUBSET D : pick[s] = Max(s)
    BY <1>1, TopPicks
  <2>3. IsFiniteSet(D)
    BY <1>1, FS_Interval
  <2> HIDE DEF g, V, pick, D, n
  <2>4. Foldable(g, pick, terms, D, V)
    BY <1>1, <2>1, <2>2, <2>3 DEF Foldable, V
  <2>5. PICK h \in [SUBSET D -> V] : Folded(h, g, pick, terms, D)
    BY <2>4, FoldsAre
  <2>6. ASSUME NEW s \in SUBSET D
        PROVE  h[s] = IF s = {} THEN terms ELSE Contribute(c, h[s \ {Max(s)}], list[Max(s)])
    <3>1. h[s] = Fold(h, g, pick, terms, s)
      BY <2>5 DEF Folded
    <3>2. CASE s # {}
      <4>1. Max(s) \in D /\ pick[s] = Max(s) /\ h[s \ {Max(s)}] \in V
        BY <2>2, <2>5, <3>2 DEF Picks
      <4>2. QED  BY <2>1, <3>1, <3>2, <4>1 DEF Fold
    <3>3. QED  BY <3>1, <3>2 DEF Fold
  <2>7. IsFold(h)
    BY <2>5, <2>6
  <2>8. QED  BY <2>7
<1>3. Contributed(c, terms) = iter[D]
  BY DEF Contributed, FoldLeft, MapThenFoldSet
<1> HIDE DEF iter
<1>4. /\ iter[1..0] = terms
      /\ \A k \in Nat : k + 1 <= n => iter[1..(k + 1)] = Contribute(c, iter[1..k], list[k + 1])
  <2>1. iter[{}] = terms /\ \A s \in SUBSET D : s # {} => iter[s] = Contribute(c, iter[s \ {Max(s)}], list[Max(s)])
    BY <1>2
  <2>2. ASSUME NEW k \in Nat, k + 1 <= n
        PROVE  iter[1..(k + 1)] = Contribute(c, iter[1..k], list[k + 1])
    <3>1. 1..(k + 1) \in SUBSET D
      BY <1>1, <2>2
    <3> HIDE DEF list, D, n
    <3>2. QED  BY <2>1, <3>1, ButTheLast
  <2>3. QED  BY <2>1, <2>2, ButTheLast
<1> DEFINE So(k) == places \cup Upto(c, k)
           T == {k \in Nat : k <= n => Tallies(iter[1..k], So(k))}
<1>5. 0 \in T
  <2>1. Upto(c, 0) = {}
    BY DEF Upto
  <2>2. So(0) = places
    BY <2>1
  <2>3. QED  BY <1>4, <2>2
<1>6. ASSUME NEW k \in T PROVE k + 1 \in T
  <2> SUFFICES ASSUME k + 1 <= n PROVE Tallies(iter[1..(k + 1)], So(k + 1))
    OBVIOUS
  <2>1. Tallies(iter[1..k], So(k)) /\ k + 1 \in D
    BY <1>1
  <2>2. <<c, k + 1>> \notin So(k)
    BY <2>1 DEF Upto
  <2>3. So(k + 1) = So(k) \cup {<<c, k + 1>>}
    BY DEF Upto
  <2> HIDE DEF So, n, D
  <2>4. Tallies(Contribute(c, iter[1..k], Terms[c][k + 1]), So(k) \cup {<<c, k + 1>>})
    BY <2>1, <2>2, ContributeTallies DEF D
  <2>5. iter[1..(k + 1)] = Contribute(c, iter[1..k], Terms[c][k + 1])
    BY <1>4
  <2>6. QED  BY <2>3, <2>4, <2>5
<1>7. T = Nat
  <2>1. T \in SUBSET Nat
    OBVIOUS
  <2> HIDE DEF T
  <2>2. QED  BY <1>5, <1>6, <2>1, AllNaturals
<1>8. Tallies(iter[1..n], So(n))
  <2>1. \A k \in Nat : k <= n => Tallies(iter[1..k], So(k))
    BY <1>7
  <2> HIDE DEF So, n, T
  <2>2. n <= n
    BY <1>1
  <2>3. QED  BY <1>1, <2>1, <2>2
<1>9. Places({c}) = Upto(c, n)
  BY <1>1, PlacesAre DEF Upto
<1>10. QED  BY <1>1, <1>3, <1>8, <1>9

(* What a budget has of the claims it was made of.                         *)
Accounts(budget, claims) ==
    /\ budget \in Budget /\ claims \in SUBSET Claim /\ IsFiniteSet(claims)
    /\ ToSet(budget.inputs) = claims
    /\ budget.unknown = <<>> <=> \A c \in claims : Terms[c] # <<>>
    /\ Tallies(budget.terms, Places(claims))

LEMMA EmptyAccounts ==
    ASSUME BudgetConstants
    PROVE  Accounts(Empty, {})
<1>1. Empty \in Budget /\ Empty.terms = <<>> /\ Empty.inputs = <<>> /\ Empty.unknown = <<>>
  BY DEF Empty, Budget
<1>2. IsFiniteSet({}) /\ Places({}) = {} /\ {} \in SUBSET Stated
  BY FS_EmptySet DEF Places
<1>3. Covers(<<>>, {}) /\ Shares(<<>>, {})
  BY DEF Covers, Shares
<1>4. Met({}) = {}
  BY DEF Met, Systematic
<1>5. Naturals(NoiseOf, {}) /\ Naturals(UnsharedOf, {}) /\ Naturals(GreatestOf({}), Met({}))
  BY <1>2, AllAreNatural
<1>6. Biased({}) = 0 /\ Sum(NoiseOf, {}) = 0
  BY <1>4, <1>5, SumSplits DEF Biased
<1>7. Naturals(Noises(<<>>), DOMAIN <<>>) /\ Naturals(Biases(<<>>), DOMAIN <<>>) /\ DOMAIN <<>> = {}
  <2>1. <<>> \in Seq(BudgetTerm)
    OBVIOUS
  <2>2. \A t \in Seq(BudgetTerm) : Naturals(Noises(t), DOMAIN t) /\ Naturals(Biases(t), DOMAIN t)
    BY TermsAreNatural
  <2>3. Naturals(Noises(<<>>), DOMAIN <<>>) /\ Naturals(Biases(<<>>), DOMAIN <<>>)
    BY <2>1, <2>2, Zenon
  <2>4. QED  BY <2>3
<1>8. Sum(Noises(<<>>), DOMAIN <<>>) = 0 /\ Sum(Biases(<<>>), DOMAIN <<>>) = 0
  BY <1>7, SumSplits
<1>9. Tallies(<<>>, {})
  BY <1>2, <1>3, <1>6, <1>8 DEF Tallies
<1>10. ToSet(<<>>) = {}
  BY DEF ToSet
<1>11. QED  BY <1>1, <1>2, <1>9, <1>10 DEF Accounts

LEMMA AddedAccounts ==
    ASSUME BudgetConstants, NEW budget, NEW claims, Accounts(budget, claims), NEW c \in Claim
    PROVE  Accounts(Added(budget, c), claims \cup {c})
<1>1. /\ budget \in Budget /\ claims \in SUBSET Claim /\ IsFiniteSet(claims)
      /\ ToSet(budget.inputs) = claims
      /\ budget.unknown = <<>> <=> \A d \in claims : Terms[d] # <<>>
      /\ Tallies(budget.terms, Places(claims))
  BY DEF Accounts
<1>2. CASE c \in claims
  <2>1. Added(budget, c) = budget /\ claims \cup {c} = claims
    BY <1>1, <1>2 DEF Added
  <2>2. QED  BY <2>1
<1>3. CASE c \notin claims
  <2> DEFINE next == Added(budget, c)
             all == claims \cup {c}
  <2>1. next = [terms |-> Contributed(c, budget.terms), inputs |-> Append(budget.inputs, c),
                unknown |-> IF Terms[c] = <<>> THEN Append(budget.unknown, c) ELSE budget.unknown]
    BY <1>1, <1>3 DEF Added, Contributed
  <2>2. \A j \in DOMAIN Terms[c] : <<c, j>> \notin Places(claims)
    <3> SUFFICES ASSUME NEW j \in DOMAIN Terms[c], <<c, j>> \in Places(claims) PROVE FALSE
      OBVIOUS
    <3>1. PICK d \in claims : \E k \in DOMAIN Terms[d] : <<c, j>> = <<d, k>>
      BY PlacesAre
    <3>2. QED  BY <1>3, <3>1
  <2>3. Tallies(Contributed(c, budget.terms), Places(claims) \cup Places({c}))
    BY <1>1, <2>2, TermsTally
  <2>4. Places(all) = Places(claims) \cup Places({c})
    BY DEF Places
  <2>5. Tallies(next.terms, Places(all))
    <3>1. next.terms = Contributed(c, budget.terms)
      BY <2>1
    <3> HIDE DEF next, all
    <3>2. QED  BY <2>3, <2>4, <3>1
  <2>6. budget.inputs \in Seq(Claim) /\ budget.unknown \in Seq(Claim)
    BY <1>1 DEF Budget
  <2> DEFINE inputs == Append(budget.inputs, c)
             unknown == IF Terms[c] = <<>> THEN Append(budget.unknown, c) ELSE budget.unknown
  <2>7. inputs \in Seq(Claim) /\ unknown \in Seq(Claim) /\ next.inputs = inputs /\ next.unknown = unknown
    BY <2>1, <2>6
  <2>8. next \in Budget
    <3>1. Contributed(c, budget.terms) \in Seq(BudgetTerm)
      BY <2>3 DEF Tallies
    <3> HIDE DEF inputs, unknown, next
    <3>2. next = [terms |-> Contributed(c, budget.terms), inputs |-> inputs, unknown |-> unknown]
      BY <2>1 DEF inputs, unknown
    <3>3. QED  BY <2>7, <3>1, <3>2 DEF Budget
  <2>9. ToSet(inputs) = all
    <3>1. /\ DOMAIN inputs = 1..(Len(budget.inputs) + 1) /\ DOMAIN budget.inputs = 1..Len(budget.inputs)
          /\ Len(budget.inputs) \in Nat /\ inputs[Len(budget.inputs) + 1] = c
          /\ \A i \in DOMAIN budget.inputs : inputs[i] = budget.inputs[i]
      BY <2>6
    <3>2. \A x \in ToSet(inputs) : x \in all
      BY <1>1, <3>1 DEF ToSet
    <3>3. \A x \in all : x \in ToSet(inputs)
      BY <1>1, <3>1 DEF ToSet
    <3>4. QED  BY <3>2, <3>3
  <2>10. unknown = <<>> <=> \A d \in all : Terms[d] # <<>>
    <3>1. CASE Terms[c] = <<>>
      <4>1. unknown # <<>>
        BY <2>6, <3>1
      <4>2. QED  BY <3>1, <4>1
    <3>2. CASE Terms[c] # <<>>
      BY <1>1, <3>2
    <3>3. QED  BY <3>1, <3>2
  <2>11. all \in SUBSET Claim /\ IsFiniteSet(all)
    BY <1>1, FS_AddElement
  <2> HIDE DEF inputs, unknown, next, all
  <2>12. QED  BY <2>5, <2>7, <2>8, <2>9, <2>10, <2>11 DEF Accounts, next, all
<1>4. QED  BY <1>2, <1>3

LEMMA AddedAllAccounts ==
    ASSUME BudgetConstants, NEW budget, NEW claims, Accounts(budget, claims), NEW list \in Seq(Claim)
    PROVE  Accounts(AddedAll(budget, list), claims \cup ToSet(list))
<1> DEFINE D == DOMAIN list
           n == Len(list)
           IsFold(h) == h = [s \in SUBSET D |->
                               IF s = {} THEN budget ELSE Added(h[s \ {Max(s)}], list[Max(s)])]
           iter == CHOOSE h : IsFold(h)
<1>1. n \in Nat /\ D = 1..n /\ \A j \in D : list[j] \in Claim
  BY LenIs
<1>2. IsFold(iter)
  <2> DEFINE V == {b \in Budget : \E cs \in SUBSET Claim : Accounts(b, cs)}
             g == [p \in D \X V |-> Added(p[2], list[p[1]])]
             pick == Top(n)
  <2>1. \A j \in D, v \in V : g[<<j, v>>] = Added(v, list[j]) /\ g[<<j, v>>] \in V
    <3>1. ASSUME NEW j \in D, NEW v \in V PROVE Added(v, list[j]) \in V
      <4>1. PICK cs \in SUBSET Claim : Accounts(v, cs)
        OBVIOUS
      <4>2. list[j] \in Claim
        BY <1>1
      <4>3. Accounts(Added(v, list[j]), cs \cup {list[j]})
        BY <4>1, <4>2, AddedAccounts
      <4>4. Added(v, list[j]) \in Budget /\ cs \cup {list[j]} \in SUBSET Claim
        BY <4>3 DEF Accounts
      <4>5. QED  BY <4>3, <4>4
    <3>2. QED  BY <3>1
  <2>2. Picks(pick, D) /\ \A s \in SUBSET D : pick[s] = Max(s)
    BY <1>1, TopPicks
  <2>3. IsFiniteSet(D)
    BY <1>1, FS_Interval
  <2>4. budget \in V
    BY DEF Accounts
  <2> HIDE DEF g, V, pick, D, n
  <2>5. Foldable(g, pick, budget, D, V)
    BY <2>1, <2>2, <2>3, <2>4 DEF Foldable
  <2>6. PICK h \in [SUBSET D -> V] : Folded(h, g, pick, budget, D)
    BY <2>5, FoldsAre
  <2>7. ASSUME NEW s \in SUBSET D
        PROVE  h[s] = IF s = {} THEN budget ELSE Added(h[s \ {Max(s)}], list[Max(s)])
    <3>1. h[s] = Fold(h, g, pick, budget, s)
      BY <2>6 DEF Folded
    <3>2. CASE s # {}
      <4>1. Max(s) \in D /\ pick[s] = Max(s) /\ h[s \ {Max(s)}] \in V
        BY <2>2, <2>6, <3>2 DEF Picks
      <4>2. QED  BY <2>1, <3>1, <3>2, <4>1 DEF Fold
    <3>3. QED  BY <3>1, <3>2 DEF Fold
  <2>8. IsFold(h)
    BY <2>6, <2>7
  <2>9. QED  BY <2>8
<1>3. AddedAll(budget, list) = iter[D]
  BY DEF AddedAll, FoldLeft, MapThenFoldSet
<1> HIDE DEF iter
<1>4. /\ iter[1..0] = budget
      /\ \A k \in Nat : k + 1 <= n => iter[1..(k + 1)] = Added(iter[1..k], list[k + 1])
  <2>1. iter[{}] = budget /\ \A s \in SUBSET D : s # {} => iter[s] = Added(iter[s \ {Max(s)}], list[Max(s)])
    BY <1>2
  <2>2. ASSUME NEW k \in Nat, k + 1 <= n
        PROVE  iter[1..(k + 1)] = Added(iter[1..k], list[k + 1])
    <3>1. 1..(k + 1) \in SUBSET D
      BY <1>1, <2>2
    <3> HIDE DEF D, n
    <3>2. QED  BY <2>1, <3>1, ButTheLast
  <2>3. QED  BY <2>1, <2>2, ButTheLast
<1> DEFINE So(k) == claims \cup {list[j] : j \in 1..k}
           T == {k \in Nat : k <= n => Accounts(iter[1..k], So(k))}
<1>5. 0 \in T
  <2>1. So(0) = claims
    OBVIOUS
  <2>2. QED  BY <1>4, <2>1
<1>6. ASSUME NEW k \in T PROVE k + 1 \in T
  <2> SUFFICES ASSUME k + 1 <= n PROVE Accounts(iter[1..(k + 1)], So(k + 1))
    OBVIOUS
  <2>1. Accounts(iter[1..k], So(k)) /\ list[k + 1] \in Claim
    BY <1>1
  <2>2. So(k + 1) = So(k) \cup {list[k + 1]}
    OBVIOUS
  <2> HIDE DEF So, n, D
  <2>3. Accounts(Added(iter[1..k], list[k + 1]), So(k) \cup {list[k + 1]})
    BY <2>1, AddedAccounts
  <2>4. iter[1..(k + 1)] = Added(iter[1..k], list[k + 1])
    BY <1>4
  <2>5. QED  BY <2>2, <2>3, <2>4
<1>7. T = Nat
  <2>1. T \in SUBSET Nat
    OBVIOUS
  <2> HIDE DEF T
  <2>2. QED  BY <1>5, <1>6, <2>1, AllNaturals
<1>8. Accounts(iter[1..n], So(n))
  <2>1. \A k \in Nat : k <= n => Accounts(iter[1..k], So(k))
    BY <1>7
  <2> HIDE DEF So, n, T
  <2>2. n <= n
    BY <1>1
  <2>3. QED  BY <1>1, <2>1, <2>2
<1>9. So(n) = claims \cup ToSet(list)
  BY <1>1 DEF ToSet
<1>10. QED  BY <1>1, <1>3, <1>8, <1>9

(* What is nothing adds nothing.                                           *)
LEMMA SumOfSome ==
    ASSUME NEW T, NEW f, Naturals(f, T), NEW S, S \subseteq T, \A x \in T \ S : f[x] = 0
    PROVE  Sum(f, T) = Sum(f, S)
<1> DEFINE Same(t) == Sum(f, t) = Sum(f, S \cap t)
           good == {t \in SUBSET T : Same(t)}
<1>1. ASSUME NEW t \in SUBSET T, \A x \in t : t \ {x} \in good PROVE t \in good
  <2>1. Naturals(f, t) /\ Naturals(f, S \cap t)
    <3>1. IsFiniteSet(t) /\ IsFiniteSet(S \cap t)
      BY FS_Subset DEF Naturals
    <3>2. QED  BY <3>1 DEF Naturals
  <2>2. CASE t = {}
    <3>1. S \cap t = t
      BY <2>2
    <3>2. Same(t)
      BY <3>1, Zenon
    <3>3. QED  BY <3>2
  <2>3. CASE t # {}
    <3>1. PICK x \in t : TRUE
      BY <2>3
    <3> DEFINE rest == t \ {x}
    <3>2. Sum(f, t) = f[x] + Sum(f, rest)
      BY <2>1, SumSplits
    <3>3. Sum(f, rest) = Sum(f, S \cap rest) /\ rest \in SUBSET T
      BY <1>1
    <3>4. Sum(f, S \cap rest) \in Nat
      <4>1. IsFiniteSet(S \cap rest)
        BY FS_Subset DEF Naturals
      <4>2. Naturals(f, S \cap rest)
        BY <4>1, <3>3 DEF Naturals
      <4>3. QED  BY <4>2, SumSplits
    <3>5. CASE x \in S
      <4>1. (S \cap t) \ {x} = S \cap rest /\ x \in S \cap t
        BY <3>5
      <4>2. Sum(f, S \cap t) = f[x] + Sum(f, S \cap rest)
        BY <4>1, <2>1, SumSplits
      <4> HIDE DEF rest
      <4>3. Same(t)
        BY <3>2, <3>3, <4>2
      <4>4. QED  BY <4>3
    <3>6. CASE x \notin S
      <4>1. S \cap t = S \cap rest
        BY <3>6
      <4>2. Sum(f, S \cap t) = Sum(f, S \cap rest)
        BY <4>1, Zenon
      <4>3. f[x] = 0
        BY <3>6
      <4> HIDE DEF rest
      <4>4. Same(t)
        BY <3>2, <3>3, <3>4, <4>2, <4>3
      <4>5. QED  BY <4>4
    <3>7. QED  BY <3>5, <3>6
  <2>4. QED  BY <2>2, <2>3
<1>2. good = SUBSET T
  <2>1. good \in SUBSET SUBSET T
    OBVIOUS
  <2> HIDE DEF good
  <2>2. QED  BY <1>1, <2>1, OneMore DEF Naturals
<1>3. S \cap T = S /\ Same(T)
  BY <1>2
<1>4. QED  BY <1>3

(* What the errors at some places come to, and how far they can be told.   *)
Total(places) == Sum(NoiseOf, places) + Biased(places) * Biased(places)
Told(claims) ==
    IF \E c \in claims : Terms[c] = <<>> THEN "unknown"
    ELSE IF Places(claims) = {} THEN "empty"
    ELSE IF ~Uniform(Places(claims)) THEN "mixed"
    ELSE "known"
Worth(claims) ==
    [why |-> Told(claims), squared |-> IF Told(claims) # "known" THEN 0 ELSE Total(Places(claims))]

LEMMA CombinedIs ==
    ASSUME BudgetConstants, NEW budget, NEW claims, Accounts(budget, claims)
    PROVE  Combined(budget) = Worth(claims)
<1> DEFINE terms == budget.terms
           places == Places(claims)
<1>1. /\ terms \in Seq(BudgetTerm) /\ Covers(terms, places)
      /\ budget.unknown = <<>> <=> \A c \in claims : Terms[c] # <<>>
  BY DEF Accounts, Tallies
<1>2. Naturals(Noises(terms), DOMAIN terms) /\ Naturals(Biases(terms), DOMAIN terms)
  BY <1>1, TermsAreNatural
<1>3. Squares(terms) = Sum(Noises(terms), DOMAIN terms) /\ Shared(terms) = Sum(Biases(terms), DOMAIN terms)
  BY <1>1, <1>2, SquaresIs, SharedIs
<1>4. (\E t, u \in ToSet(terms) : t.unit # u.unit) <=> ~Uniform(places)
  <2>1. ASSUME NEW t \in ToSet(terms), NEW u \in ToSet(terms), t.unit # u.unit PROVE ~Uniform(places)
    <3>1. PICK i \in DOMAIN terms : terms[i] = t
      BY DEF ToSet
    <3>2. PICK j \in DOMAIN terms : terms[j] = u
      BY DEF ToSet
    <3>3. PICK p \in places : Said(p).unit = t.unit
      BY <1>1, <3>1 DEF Covers
    <3>4. PICK q \in places : Said(q).unit = u.unit
      BY <1>1, <3>2 DEF Covers
    <3>5. QED  BY <2>1, <3>3, <3>4 DEF Uniform
  <2>2. ASSUME NEW p \in places, NEW q \in places, Said(p).unit # Said(q).unit
        PROVE  \E t, u \in ToSet(terms) : t.unit # u.unit
    <3>1. PICK i \in DOMAIN terms : Said(p).unit = terms[i].unit
      BY <1>1 DEF Covers
    <3>2. PICK j \in DOMAIN terms : Said(q).unit = terms[j].unit
      BY <1>1 DEF Covers
    <3>3. terms[i] \in ToSet(terms) /\ terms[j] \in ToSet(terms)
      BY DEF ToSet
    <3>4. QED  BY <2>2, <3>1, <3>2, <3>3
  <2>3. QED  BY <2>1, <2>2 DEF Uniform
<1>5. Usable(budget) = Told(claims)
  BY <1>1, <1>4 DEF Usable, Told, Covers
<1>6. Usable(budget) = "known" => Squares(terms) + Shared(terms) * Shared(terms) = Total(places)
  <2> SUFFICES ASSUME Usable(budget) = "known" PROVE Squares(terms) + Shared(terms) * Shared(terms) = Total(places)
    OBVIOUS
  <2>1. Uniform(places)
    BY <1>5 DEF Told
  <2>2. Sum(Noises(terms), DOMAIN terms) = Sum(NoiseOf, places) /\ Sum(Biases(terms), DOMAIN terms) = Biased(places)
    BY <2>1 DEF Accounts, Tallies
  <2>3. QED  BY <1>3, <2>2 DEF Total
<1> HIDE DEF terms, places
<1>7. QED  BY <1>5, <1>6 DEF Combined, Worth, terms, places

LEMMA ReferenceIs ==
    ASSUME BudgetConstants, NEW claims \in SUBSET Claim, IsFiniteSet(Places(claims))
    PROVE  Reference(claims) = Total(Places(claims))
<1> DEFINE places == Places(claims)
           single == {p \in places : Said(p).kind = "independent"}
           alone == Systematic(places, NoSource)
<1>1. places \in SUBSET Stated /\ IsFiniteSet(places)
  BY DEF Places, Stated
<1>2. \A p \in places : /\ Said(p).magnitude \in Nat /\ Squared(Said(p)) \in Nat
                        /\ NoiseOf[p] = Noise(Said(p)) /\ UnsharedOf[p] = Unshared(Said(p))
  BY <1>1, SaidIs DEF NoiseOf, UnsharedOf
<1>3. /\ Naturals(NoiseOf, places) /\ Naturals(UnsharedOf, places)
      /\ Naturals(GreatestOf(places), Met(places))
  BY <1>1, AllAreNatural
<1> HIDE DEF places
<1>4. single \subseteq places /\ alone \subseteq places /\ IsFiniteSet(single) /\ IsFiniteSet(alone)
  BY <1>1, FS_Subset DEF Systematic
<1>5. MapThenSumSet(LAMBDA p : Said(p).magnitude * Said(p).magnitude, single) = Sum(NoiseOf, places)
  <2> DEFINE f == [p \in single |-> Squared(Said(p))]
  <2>1. Naturals(f, single)
    BY <1>2, <1>4 DEF Naturals
  <2>2. MapThenSumSet(LAMBDA p : Said(p).magnitude * Said(p).magnitude, single) = Sum(f, single)
    BY <2>1, SquareSum
  <2>3. \A p \in single : f[p] = NoiseOf[p]
    BY <1>2 DEF Noise, Squared
  <2>4. \A p \in places \ single : NoiseOf[p] = 0
    BY <1>2 DEF Noise
  <2> HIDE DEF f, single
  <2>5. Sum(f, single) = Sum(NoiseOf, single)
    BY <2>1, <2>3, SumSame
  <2>6. Sum(NoiseOf, places) = Sum(NoiseOf, single)
    BY <1>3, <1>4, <2>4, SumOfSome
  <2>7. QED  BY <2>2, <2>5, <2>6
<1>6. MapThenSumSet(LAMBDA p : Said(p).magnitude, alone) = Sum(UnsharedOf, places)
  <2> DEFINE f == [p \in alone |-> Said(p).magnitude]
  <2>1. Naturals(f, alone)
    BY <1>2, <1>4 DEF Naturals
  <2>2. MapThenSumSet(LAMBDA p : Said(p).magnitude, alone) = Sum(f, alone)
    BY <2>1, MagnitudeSum
  <2>3. \A p \in alone : f[p] = UnsharedOf[p]
    BY <1>2, <1>4 DEF Unshared, Systematic
  <2>4. \A p \in places \ alone : UnsharedOf[p] = 0
    BY <1>2 DEF Unshared, Systematic
  <2> HIDE DEF f, alone
  <2>5. Sum(f, alone) = Sum(UnsharedOf, alone)
    BY <2>1, <2>3, SumSame
  <2>6. Sum(UnsharedOf, places) = Sum(UnsharedOf, alone)
    BY <1>3, <1>4, <2>4, SumOfSome
  <2>7. QED  BY <2>2, <2>5, <2>6
<1>7. MapThenSumSet(LAMBDA s : Greatest(places, s), Met(places)) = Sum(GreatestOf(places), Met(places))
  BY <1>3, GreatestSum DEF GreatestOf
<1>8. /\ Sum(UnsharedOf, places) \in Nat /\ Sum(GreatestOf(places), Met(places)) \in Nat
      /\ Sum(NoiseOf, places) \in Nat
  BY <1>3, SumSplits
<1>9. Sum(GreatestOf(places), Met(places)) + Sum(UnsharedOf, places) = Biased(places)
  BY <1>8 DEF Biased
<1>10. Reference(claims)
       = Sum(NoiseOf, places)
         + (Sum(GreatestOf(places), Met(places)) + Sum(UnsharedOf, places))
           * (Sum(GreatestOf(places), Met(places)) + Sum(UnsharedOf, places))
  BY <1>5, <1>6, <1>7, Zenon DEF Reference, Met, places
<1>11. QED  BY <1>9, <1>10 DEF Total, places

(* The errors at more places come to no less. *)
LEMMA TotalGrows ==
    ASSUME BudgetConstants, NEW few, NEW many \in SUBSET Stated, IsFiniteSet(many), few \subseteq many
    PROVE  Total(few) <= Total(many)
<1>1. few \in SUBSET Stated /\ IsFiniteSet(few)
  BY FS_Subset
<1>2. /\ Naturals(NoiseOf, few) /\ Naturals(UnsharedOf, few) /\ Naturals(GreatestOf(few), Met(few))
      /\ Naturals(NoiseOf, many) /\ Naturals(UnsharedOf, many) /\ Naturals(GreatestOf(many), Met(many))
  BY <1>1, AllAreNatural
<1>3. \A s \in Met(few) : s \in Met(many) /\ Greatest(few, s) <= Greatest(many, s)
  <2> SUFFICES ASSUME NEW s \in Met(few) PROVE s \in Met(many) /\ Greatest(few, s) <= Greatest(many, s)
    OBVIOUS
  <2>1. Systematic(few, s) \subseteq Systematic(many, s)
    BY DEF Systematic
  <2>2. Systematic(few, s) # {} /\ Systematic(many, s) # {} /\ s \in Met(many)
    BY <2>1 DEF Met
  <2>3. Tops(Greatest(few, s), few, s) /\ Tops(Greatest(many, s), many, s)
    BY <1>1, <2>2, GreatestIs
  <2>4. PICK p \in Systematic(few, s) : Said(p).magnitude = Greatest(few, s)
    BY <2>3 DEF Tops
  <2>5. QED  BY <2>1, <2>2, <2>3, <2>4 DEF Tops
<1>4. \A s \in Met(few) : GreatestOf(few)[s] \in Nat /\ GreatestOf(few)[s] <= GreatestOf(many)[s]
  BY <1>2, <1>3 DEF GreatestOf, Naturals
<1>5. Sum(GreatestOf(few), Met(few)) <= Sum(GreatestOf(many), Met(many))
  BY <1>2, <1>3, <1>4, SumMore
<1>6. \A p \in few : /\ NoiseOf[p] \in Nat /\ NoiseOf[p] <= NoiseOf[p]
                     /\ UnsharedOf[p] \in Nat /\ UnsharedOf[p] <= UnsharedOf[p]
  BY <1>2 DEF Naturals
<1>7. Sum(NoiseOf, few) <= Sum(NoiseOf, many) /\ Sum(UnsharedOf, few) <= Sum(UnsharedOf, many)
  BY <1>2, <1>6, SumMore
<1>8. /\ Sum(NoiseOf, few) \in Nat /\ Sum(UnsharedOf, few) \in Nat /\ Sum(GreatestOf(few), Met(few)) \in Nat
      /\ Sum(NoiseOf, many) \in Nat /\ Sum(UnsharedOf, many) \in Nat /\ Sum(GreatestOf(many), Met(many)) \in Nat
  BY <1>2, SumSplits
<1>9. Biased(few) \in Nat /\ Biased(many) \in Nat /\ Biased(few) <= Biased(many)
  BY <1>5, <1>7, <1>8 DEF Biased
<1>10. \A m, n \in Nat : m <= n => m * m <= n * n /\ m * m \in Nat /\ n * n \in Nat
  OBVIOUS
<1>11. /\ Biased(few) * Biased(few) <= Biased(many) * Biased(many)
       /\ Biased(few) * Biased(few) \in Nat /\ Biased(many) * Biased(many) \in Nat
  BY <1>9, <1>10
<1> DEFINE b == Biased(few) * Biased(few)
           d == Biased(many) * Biased(many)
<1> HIDE DEF b, d
<1>12. Sum(NoiseOf, few) + b <= Sum(NoiseOf, many) + d
  BY <1>7, <1>8, <1>11 DEF b, d
<1>13. QED  BY <1>12 DEF Total, b, d
-----------------------------------------------------------------------------
(* Answers.  What is told of two frames is made of what was measured of    *)
(* the frames which are above one of them only.                            *)
Related(from, to) == from = to \/ (Rooted(from) /\ Rooted(to) /\ Above(from) \cap Above(to) # {})
FitsOf(passed) == {journey.fit[f] : f \in passed}

LEMMA RouteTakes ==
    ASSUME FrameConstants, JourneyInv, NEW from \in Frame, NEW to \in Frame
    PROVE  LET route == Route(from, to)
               steps == route.climb \o route.descend
           IN  /\ route.error = "none" <=> Related(from, to)
               /\ route.error = "none" =>
                     /\ steps \in Seq(Frame) /\ ToSet(steps) = Differs(from, to)
                     /\ \A i, j \in DOMAIN steps : steps[i] = steps[j] => i = j
<1> DEFINE route == Route(from, to)
           steps == route.climb \o route.descend
<1>1. CASE from = to
  <2>1. route.error = "none" /\ route.climb = <<>> /\ route.descend = <<>>
    BY <1>1 DEF Route
  <2>2. steps = <<>> /\ Differs(from, to) = {}
    BY <1>1, <2>1 DEF Differs
  <2> HIDE DEF route, steps
  <2>3. steps \in Seq(Frame) /\ DOMAIN steps = {} /\ ToSet(steps) = {}
    BY <2>2 DEF ToSet
  <2>4. QED  BY <1>1, <2>1, <2>2, <2>3 DEF Related, route, steps
<1>2. CASE from # to
  BY <1>2, RouteIs DEF Related
<1>3. QED  BY <1>1, <1>2

LEMMA TransformIs ==
    ASSUME FrameConstants, JourneyInv, NEW from \in Frame, NEW to \in Frame, NEW answer,
           answer = TransformBudget(from, to)
    PROVE  /\ answer.error = "none" <=> Related(from, to) /\ \A f \in Differs(from, to) : Measured(f)
           /\ answer.error = "none" =>
                 /\ ToSet(answer.route) = Differs(from, to)
                 /\ Len(answer.route) = Cardinality(ToSet(answer.route))
                 /\ BudgetConstants => Accounts(answer.budget, FitsOf(Differs(from, to)))
<1> DEFINE route == Route(from, to)
           steps == route.climb \o route.descend
           passed == Differs(from, to)
           fits == [i \in DOMAIN steps |-> journey.fit[steps[i]]]
<1>1. /\ route.error = "none" <=> Related(from, to)
      /\ route.error = "none" =>
            /\ steps \in Seq(Frame) /\ ToSet(steps) = passed
            /\ \A i, j \in DOMAIN steps : steps[i] = steps[j] => i = j
  BY RouteTakes
<1>2. CASE route.error # "none"
  <2>1. answer.error # "none"
    BY <1>2 DEF TransformBudget
  <2>2. QED  BY <2>1, <1>1, <1>2
<1>3. CASE route.error = "none" /\ ~ \A i \in DOMAIN steps : Measured(steps[i])
  <2>1. answer.error = "unmeasured"
    BY <1>3 DEF TransformBudget
  <2> HIDE DEF steps, passed
  <2>2. PICK i \in DOMAIN steps : ~Measured(steps[i])
    BY <1>3
  <2>3. steps[i] \in passed
    BY <2>2, <1>1, <1>3 DEF ToSet
  <2>4. QED  BY <2>1, <2>2, <2>3 DEF passed
<1>4. CASE route.error = "none" /\ \A i \in DOMAIN steps : Measured(steps[i])
  <2> DEFINE budget == AddedAll(Empty, fits)
  <2>1. answer.error = "none" /\ answer.route = steps /\ answer.budget = budget
    <3>1. TransformBudget(from, to) = [error |-> "none", route |-> steps, budget |-> budget]
      BY <1>4 DEF TransformBudget
    <3> HIDE DEF budget, steps
    <3>2. QED  BY <3>1
  <2> HIDE DEF steps, passed, budget, route
  <2>2. \A f \in passed : Measured(f)
    BY <1>1, <1>4 DEF ToSet
  <2>3. Len(steps) = Cardinality(ToSet(steps))
    BY <1>1, <1>4, OnceEach
  <2>4. BudgetConstants => Accounts(budget, FitsOf(passed))
    <3> SUFFICES ASSUME BudgetConstants PROVE Accounts(budget, FitsOf(passed))
      OBVIOUS
    <3>1. DOMAIN steps = 1..Len(steps) /\ Len(steps) \in Nat
      BY <1>1, <1>4, LenIs
    <3>2. \A i \in DOMAIN steps : fits[i] \in Claim
      BY <1>4 DEF Measured, FrameConstants
    <3>3. fits \in Seq(Claim) /\ DOMAIN fits = DOMAIN steps
      <4>1. fits \in [1..Len(steps) -> Claim]
        BY <3>1, <3>2
      <4>2. QED  BY <3>1, <4>1
    <3>4. ToSet(fits) = FitsOf(passed)
      BY <1>1, <1>4 DEF ToSet, FitsOf
    <3> HIDE DEF fits
    <3>5. Accounts(budget, {} \cup ToSet(fits))
      BY <3>3, EmptyAccounts, AddedAllAccounts DEF budget
    <3>6. {} \cup ToSet(fits) = FitsOf(passed)
      BY <3>4
    <3>7. QED  BY <3>5, <3>6
  <2>5. Related(from, to)
    BY <1>1, <1>4
  <2>6. QED  BY <1>1, <1>4, <2>1, <2>2, <2>3, <2>4, <2>5 DEF passed
<1>5. QED  BY <1>2, <1>3, <1>4

(* What RoutesPassWhatDiffers says of an answer. *)
PassesWhatDiffers(answer) ==
    LET from == journey.from
        to == journey.to
        related == from = to \/ (Rooted(from) /\ Rooted(to) /\ Above(from) \cap Above(to) # {})
    IN  /\ answer.error = "none" <=>
              from \in Frame /\ related /\ (from = to \/ \A f \in Differs(from, to) : Measured(f))
        /\ answer.error = "none" =>
              /\ ToSet(answer.route) = IF from = to THEN {} ELSE Differs(from, to)
              /\ Len(answer.route) = Cardinality(ToSet(answer.route))
(* And its budget is of the claims it read. *)
Budgeted(answer) ==
    answer.error = "none" => Accounts(answer.budget, FitsOf(Differs(journey.from, journey.to)))

LEMMA BudgetPasses ==
    ASSUME FrameConstants, JourneyInv, NEW answer,
           answer = TransformBudget(journey.from, journey.to)
    PROVE  PassesWhatDiffers(answer) /\ (BudgetConstants => Budgeted(answer))
<1> DEFINE from == journey.from
           to == journey.to
<1>1. to \in Frame
  BY DEF JourneyInv
<1>2. CASE from \notin Frame
  <2>1. answer.error = "undeclared"
    BY <1>2 DEF TransformBudget
  <2>2. QED  BY <2>1, <1>2 DEF PassesWhatDiffers, Budgeted
<1>3. CASE from \in Frame
  <2>1. from = to => Differs(from, to) = {}
    BY DEF Differs
  <2> HIDE DEF from, to
  <2>2. /\ answer.error = "none" <=> Related(from, to) /\ \A f \in Differs(from, to) : Measured(f)
        /\ answer.error = "none" =>
              /\ ToSet(answer.route) = Differs(from, to)
              /\ Len(answer.route) = Cardinality(ToSet(answer.route))
              /\ BudgetConstants => Accounts(answer.budget, FitsOf(Differs(from, to)))
    BY <1>1, <1>3, TransformIs DEF from, to
  <2>3. QED  BY <1>3, <2>1, <2>2 DEF PassesWhatDiffers, Budgeted, Related, from, to
<1>4. QED  BY <1>2, <1>3

(* What an answer is. *)
Typed(answer) ==
    answer.error \in RouteErrors /\ answer.route \in Seq(Frame) /\ answer.budget \in Budget
LEMMA AnswerTypes ==
    ASSUME FrameConstants, BudgetConstants, JourneyInv, NEW answer,
           answer = TransformBudget(journey.from, journey.to)
    PROVE  Typed(answer)
<1> DEFINE from == journey.from
           to == journey.to
           route == Route(from, to)
           steps == route.climb \o route.descend
           budget == AddedAll(Empty, [i \in DOMAIN steps |-> journey.fit[steps[i]]])
<1>1. Empty \in Budget
  BY EmptyAccounts DEF Accounts
<1>2. ASSUME NEW error \in RouteErrors, answer = [error |-> error, route |-> <<>>, budget |-> Empty]
      PROVE  Typed(answer)
  BY <1>1, <1>2 DEF Typed
<1>3. CASE ~({from, to} \subseteq Frame)
  <2>1. answer = [error |-> "undeclared", route |-> <<>>, budget |-> Empty]
    BY <1>3 DEF TransformBudget
  <2>2. QED  BY <1>2, <2>1 DEF RouteErrors
<1>4. CASE {from, to} \subseteq Frame
  <2>1. route.error \in RouteErrors
    <3>1. Ancestry(from).error \in RouteErrors /\ Ancestry(to).error \in RouteErrors
      BY <1>4, AncestryIs DEF Walking, RouteErrors
    <3> HIDE DEF from, to
    <3>2. QED  BY <3>1 DEF Route, RouteErrors
  <2>2. CASE route.error # "none"
    <3>1. answer = [error |-> route.error, route |-> <<>>, budget |-> Empty]
      BY <1>4, <2>2 DEF TransformBudget
    <3> HIDE DEF route
    <3>2. QED  BY <1>2, <2>1, <3>1
  <2>3. CASE route.error = "none" /\ ~ \A i \in DOMAIN steps : Measured(steps[i])
    <3>1. answer = [error |-> "unmeasured", route |-> <<>>, budget |-> Empty]
      BY <1>4, <2>3 DEF TransformBudget
    <3>2. QED  BY <1>2, <3>1 DEF RouteErrors
  <2>4. CASE route.error = "none" /\ \A i \in DOMAIN steps : Measured(steps[i])
    <3>1. answer = [error |-> "none", route |-> steps, budget |-> budget]
      BY <1>4, <2>4 DEF TransformBudget
    <3>2. steps \in Seq(Frame)
      BY <1>4, <2>4, RouteTakes
    <3> HIDE DEF steps, budget, from, to
    <3>3. answer.error = "none" /\ answer.route = steps /\ answer.budget = budget
      BY <3>1
    <3>4. answer.budget \in Budget
      BY <1>4, <3>3, TransformIs DEF Accounts, from, to
    <3>5. QED  BY <3>2, <3>3, <3>4 DEF Typed, RouteErrors
  <2>5. QED  BY <2>2, <2>3, <2>4
<1>5. QED  BY <1>3, <1>4

(* The errors on the way are those on the way back, and no more than those *)
(* of a way round.                                                         *)
LEMMA WorthIs ==
    ASSUME BudgetConstants, NEW budget, NEW claims, Accounts(budget, claims)
    PROVE  /\ Combined(budget) = Worth(claims)
           /\ Combined(budget).why = "known" => Combined(budget).squared = Reference(claims)
<1>1. Combined(budget) = Worth(claims)
  BY CombinedIs
<1>2. claims \in SUBSET Claim /\ IsFiniteSet(Places(claims))
  BY DEF Accounts, Tallies
<1>3. Reference(claims) = Total(Places(claims))
  BY <1>2, ReferenceIs
<1>4. Worth(claims).why = "known" => Worth(claims).squared = Total(Places(claims))
  BY DEF Worth
<1>5. QED  BY <1>1, <1>3, <1>4

LEMMA WayRound ==
    ASSUME FrameConstants, BudgetConstants, JourneyInv,
           NEW from \in Frame, NEW via \in Frame, NEW to \in Frame,
           NEW there, there = TransformBudget(from, via), there.error = "none",
           NEW on, on = TransformBudget(via, to), on.error = "none",
           NEW budget, Accounts(budget, FitsOf(Differs(from, to))),
           Combined(budget).why = "known", Combined(Merged(there.budget, on.budget)).why = "known"
    PROVE  Combined(budget).squared <= Combined(Merged(there.budget, on.budget)).squared
<1> DEFINE few == FitsOf(Differs(from, to))
           first == FitsOf(Differs(from, via))
           second == FitsOf(Differs(via, to))
           both == Merged(there.budget, on.budget)
<1>1. Accounts(there.budget, first) /\ Accounts(on.budget, second)
  BY TransformIs
<1>2. Accounts(both, first \cup second)
  <2>1. on.budget.inputs \in Seq(Claim) /\ ToSet(on.budget.inputs) = second
    BY <1>1 DEF Accounts, Budget
  <2> HIDE DEF first, second
  <2>2. Accounts(AddedAll(there.budget, on.budget.inputs), first \cup ToSet(on.budget.inputs))
    BY <1>1, <2>1, AddedAllAccounts
  <2>3. QED  BY <2>1, <2>2 DEF Merged
<1>3. few \subseteq first \cup second
  BY DEF FitsOf, Differs
<1> HIDE DEF few, first, second, both
<1>4. Places(few) \subseteq Places(first \cup second)
  BY <1>3 DEF Places
<1>5. Places(first \cup second) \in SUBSET Stated /\ IsFiniteSet(Places(first \cup second))
  BY <1>2 DEF Accounts, Tallies
<1>6. Total(Places(few)) <= Total(Places(first \cup second))
  BY <1>4, <1>5, TotalGrows
<1>7. Combined(budget) = Worth(few) /\ Combined(both) = Worth(first \cup second)
  BY <1>2, CombinedIs DEF few
<1>8. /\ Worth(few).why = "known" => Worth(few).squared = Total(Places(few))
      /\ Worth(first \cup second).why = "known" =>
            Worth(first \cup second).squared = Total(Places(first \cup second))
  BY DEF Worth
<1>9. QED  BY <1>6, <1>7, <1>8 DEF both

LEMMA ErrorsHold ==
    ASSUME FrameConstants, BudgetConstants, JourneyInv,
           routed # Unasked => PassesWhatDiffers(routed) /\ Budgeted(routed)
    PROVE  ErrorsCountOnce
<1> SUFFICES ASSUME routed # Unasked, routed.error = "none"
             PROVE  LET known == Combined(routed.budget)
                        back == TransformBudget(journey.to, journey.from).budget
                    IN  /\ known.why = "known" => known.squared = Reference(ToSet(routed.budget.inputs))
                        /\ known = Combined(back)
                        /\ \A via \in Frame :
                              LET there == TransformBudget(journey.from, via)
                                  on == TransformBudget(via, journey.to)
                                  both == Combined(Merged(there.budget, on.budget))
                              IN  there.error = "none" /\ on.error = "none" /\ both.why = "known"
                                      /\ known.why = "known"
                                    => known.squared <= both.squared
  BY DEF ErrorsCountOnce
<1> DEFINE from == journey.from
           to == journey.to
           claims == FitsOf(Differs(from, to))
           known == Combined(routed.budget)
           back == TransformBudget(to, from)
<1>1. from \in Frame /\ to \in Frame /\ Related(from, to) /\ \A f \in Differs(from, to) : Measured(f)
  <2>1. from = to => Differs(from, to) = {}
    BY DEF Differs
  <2>2. QED  BY <2>1 DEF JourneyInv, PassesWhatDiffers, Related
<1>2. Accounts(routed.budget, claims)
  BY DEF Budgeted
<1>3. known.why = "known" => known.squared = Reference(ToSet(routed.budget.inputs))
  <2>1. ToSet(routed.budget.inputs) = claims
    BY <1>2 DEF Accounts
  <2> HIDE DEF claims
  <2>2. QED  BY <1>2, <2>1, WorthIs
<1>4. known = Combined(back.budget)
  <2>1. Related(to, from) /\ Differs(to, from) = Differs(from, to)
    BY <1>1 DEF Related, Differs
  <2> HIDE DEF from, to
  <2>2. back.error = "none"
    BY <1>1, <2>1, TransformIs
  <2>3. Accounts(back.budget, FitsOf(Differs(to, from)))
    BY <1>1, <2>2, TransformIs
  <2>4. Accounts(back.budget, claims)
    BY <2>1, <2>3
  <2> HIDE DEF back, claims
  <2>5. QED  BY <1>2, <2>4, WorthIs
<1>5. ASSUME NEW via \in Frame, TransformBudget(from, via).error = "none",
             TransformBudget(via, to).error = "none",
             Combined(Merged(TransformBudget(from, via).budget, TransformBudget(via, to).budget)).why = "known",
             known.why = "known"
      PROVE  known.squared <= Combined(Merged(TransformBudget(from, via).budget,
                                              TransformBudget(via, to).budget)).squared
  <2> HIDE DEF from, to
  <2>1. QED  BY <1>1, <1>2, <1>5, WayRound
<1>6. QED  BY <1>3, <1>4, <1>5

FramesInv ==
    /\ JourneyInv /\ RoutesPassWhatDiffers
    /\ BudgetConstants /\ routed # Unasked => Budgeted(routed) /\ Typed(routed)
LEMMA FramesStart == FramesInit => FramesInv
BY DEF FramesInit, FramesInv, JourneyInv, RoutesPassWhatDiffers

LEMMA PassesIs == RoutesPassWhatDiffers <=> (routed # Unasked => PassesWhatDiffers(routed))
BY DEF RoutesPassWhatDiffers, PassesWhatDiffers, Differs

(* Nothing of what is asked changes, so what is right of it stays right. *)
LEMMA PassesStays ==
    ASSUME NEW answer, journey' = journey
    PROVE  /\ PassesWhatDiffers(answer)' <=> PassesWhatDiffers(answer)
           /\ Budgeted(answer)' <=> Budgeted(answer)
<1>1. \A f : Above(f)' = Above(f)
  BY DEF Above
<1>2. \A f : Rooted(f)' <=> Rooted(f)
  BY <1>1 DEF Rooted
<1>3. \A f : Measured(f)' <=> Measured(f)
  BY DEF Measured
<1>4. PassesWhatDiffers(answer)' <=> PassesWhatDiffers(answer)
  BY <1>1, <1>2, <1>3 DEF PassesWhatDiffers, Differs
<1>5. FitsOf(Differs(journey.from, journey.to))' = FitsOf(Differs(journey.from, journey.to))
  BY <1>1 DEF FitsOf, Differs
<1>6. QED  BY <1>4, <1>5 DEF Budgeted

LEMMA FramesGoOn == FrameConstants /\ FramesInv /\ [FramesNext]_frames => FramesInv'
<1> SUFFICES ASSUME FrameConstants, FramesInv, [FramesNext]_frames PROVE FramesInv'
  OBVIOUS
<1>1. journey' = journey /\ JourneyInv /\ JourneyInv'
  BY DEF FramesInv, FramesNext, Ask, frames, JourneyInv
<1>2. CASE Ask
  <2>1. PICK answer : answer = TransformBudget(journey.from, journey.to)
    OBVIOUS
  <2>2. PassesWhatDiffers(answer)' /\ (BudgetConstants => Budgeted(answer)')
    <3>1. PassesWhatDiffers(answer) /\ (BudgetConstants => Budgeted(answer))
      BY <2>1, <1>1, BudgetPasses
    <3>2. QED  BY <3>1, <1>1, PassesStays
  <2>3. routed' = answer
    BY <1>2, <2>1 DEF Ask
  <2>4. RoutesPassWhatDiffers'
    BY <2>2, <2>3 DEF RoutesPassWhatDiffers, PassesWhatDiffers, Differs
  <2>5. BudgetConstants => Budgeted(routed)' /\ Typed(routed)'
    <3>1. BudgetConstants => Typed(answer)
      BY <2>1, <1>1, AnswerTypes
    <3>2. QED  BY <2>2, <2>3, <3>1 DEF Budgeted, Typed
  <2>6. QED  BY <1>1, <2>4, <2>5 DEF FramesInv
<1>3. CASE UNCHANGED frames
  <2>1. PICK answer : answer = routed
    OBVIOUS
  <2>2. routed' = answer
    BY <1>3, <2>1 DEF frames
  <2>3. CASE answer = Unasked
    <3>1. Unasked' = Unasked
      BY DEF Unasked, Empty
    <3>2. RoutesPassWhatDiffers'
      BY <2>2, <2>3, <3>1 DEF RoutesPassWhatDiffers
    <3>3. QED  BY <1>1, <2>2, <2>3, <3>1, <3>2 DEF FramesInv
  <2>4. CASE answer # Unasked
    <3>1. PassesWhatDiffers(answer)
      BY <2>1, <2>4, PassesIs DEF FramesInv
    <3>2. PassesWhatDiffers(answer)'
      BY <3>1, <1>1, PassesStays
    <3>3. RoutesPassWhatDiffers'
      BY <2>2, <3>2 DEF RoutesPassWhatDiffers, PassesWhatDiffers, Differs
    <3>4. BudgetConstants => Budgeted(routed)' /\ Typed(routed)'
      <4>1. BudgetConstants => Budgeted(answer) /\ Typed(answer)
        BY <2>1, <2>4 DEF FramesInv
      <4>2. BudgetConstants => Budgeted(answer)'
        BY <4>1, <1>1, PassesStays
      <4>3. QED  BY <2>2, <4>1, <4>2 DEF Budgeted, Typed
    <3>5. QED  BY <1>1, <3>3, <3>4 DEF FramesInv
  <2>5. QED  BY <2>3, <2>4
<1>4. QED  BY <1>2, <1>3 DEF FramesNext

LEMMA FramesInvariant == ASSUME FrameConstants PROVE FramesSpec => []FramesInv
<1>1. FramesInv /\ [FramesNext]_frames => FramesInv'
  BY FramesGoOn
<1>2. QED  BY FramesStart, <1>1, PTL DEF FramesSpec

(* Of any registry, whatever cycles and undeclared parents there are in it *)
(* (frame.go:345, 386, 424): a route between two frames passes once through*)
(* each frame above one of them and not above the other, and through no    *)
(* other; there is one exactly where both are rooted and share a frame, and*)
(* a measured one where each of those was measured.                        *)
THEOREM RoutesAreRight == ASSUME FrameConstants PROVE FramesSpec => []RoutesPassWhatDiffers
BY FramesInvariant, PTL DEF FramesInv

(* Of any registry and any claims (frame.go:345; budget.go:381, 504): the  *)
(* errors of an answer are those of the claims it read, every independent  *)
(* one and every source once at the greatest it is stated, in whatever     *)
(* order and however often they were read; the answer the other way round  *)
(* is worth the same; and one which goes round by another frame is worth   *)
(* no less.                                                                *)
THEOREM ErrorsAreCountedOnce ==
    ASSUME FrameConstants, BudgetConstants PROVE FramesSpec => []ErrorsCountOnce
<1>1. FramesInv => ErrorsCountOnce
  <2> SUFFICES ASSUME FramesInv PROVE ErrorsCountOnce
    OBVIOUS
  <2>1. JourneyInv /\ (routed # Unasked => PassesWhatDiffers(routed) /\ Budgeted(routed))
    BY PassesIs DEF FramesInv
  <2>2. QED  BY <2>1, ErrorsHold
<1>2. QED  BY <1>1, FramesInvariant, PTL

(* An answer is a kind of error, a list of frames and a budget (frame.go:345). *)
THEOREM FramesTypes ==
    ASSUME FrameConstants, BudgetConstants PROVE FramesSpec => []FramesTypeOK
<1>1. FramesInv => FramesTypeOK
  <2>1. routed = Unasked => Typed(routed)
    <3>1. Empty \in Budget
      BY EmptyAccounts DEF Accounts
    <3>2. QED  BY <3>1 DEF Unasked, Typed, RouteErrors
  <2>2. QED  BY <2>1 DEF FramesInv, FramesTypeOK, JourneyInv, Typed, Budget
<1>2. QED  BY <1>1, FramesInvariant, PTL
=============================================================================
