---------------------------- MODULE ClaimsProofs ----------------------------
(***************************************************************************)
(* Proofs about Supersession for every set of models: where the walks of   *)
(* supersede.go lead, over models which need not have loaded; and about    *)
(* Resolution for every number of questions, figures, units and dates.     *)
(*                                                                         *)
(* Where replacements lead is a closure, and no walk mentions one.  The    *)
(* invariants say what a walk has of it: Current has passed claims whose   *)
(* replacements it passed or is at, all of which lead to where it is;      *)
(* History has found claims which lead to the one asked about, and what    *)
(* named a found claim is found or ahead of a call under way.              *)
(*                                                                         *)
(* What answers a question is a matter of one state: the only invariant    *)
(* behind it is the type of the claims.  What may change it is a matter of *)
(* a step, and follows from what answers before and after it.              *)
(***************************************************************************)
EXTENDS Supersession, Resolution, FiniteSetTheorems, WellFoundedInduction, TLAPS

(* What is asked, and of what: nothing of it changes. *)
GivenInv == /\ given \in [claims : Seq(Claims), ask : Asked, of : Nat]
            /\ given.of \in Order

(* One behaviour asks one thing, and the model stays what it is. *)
LEMMA GivenStays == SupersessionNext => given' = given
BY DEF SupersessionNext, CycleFound, CycleWalk, CycleLeft, CurrentFollows, CurrentEnds,
       HistoryFinds, HistorySkips, HistoryReturns, HistoryEnds

LEMMA OrderIs == ASSUME GivenInv PROVE Order \subseteq Nat /\ 0 \notin Order
BY DEF GivenInv, Order

-----------------------------------------------------------------------------
(* The first of some claims is one of them, and no other comes before it.  *)
LEMMA FirstIs ==
    ASSUME NEW cs \in SUBSET Nat, 0 \notin cs
    PROVE  /\ First(cs) = 0 <=> cs = {}
           /\ First(cs) # 0 => First(cs) \in cs /\ \A d \in cs : First(cs) <= d
<1>1. CASE cs = {}
  BY <1>1 DEF First
<1>2. CASE cs # {}
  <2>1. PICK c \in cs : \A d \in cs : ~(<<d, c>> \in OpToRel(<, Nat))
    BY <1>2, NatLessThanWellFounded, WFMin
  <2>2. \A d \in cs : c <= d
    <3>1. \A d \in cs : d \in Nat /\ c \in Nat /\ ~(d < c)
      BY <2>1 DEF OpToRel
    <3>2. QED  BY <3>1
  <2>3. First(cs) = CHOOSE x \in cs : \A d \in cs : x <= d
    BY <1>2 DEF First
  <2>4. First(cs) \in cs /\ \A d \in cs : First(cs) <= d
    BY <2>2, <2>3
  <2>5. QED  BY <1>2, <2>4
<1>3. QED  BY <1>1, <1>2

(* What stands for a claim holds the id the claim named. *)
LEMMA ReplacementIs ==
    ASSUME GivenInv, NEW c \in Order
    PROVE  /\ Replacement(c) \in Order \cup {0}
           /\ Replacement(c) # 0 =>
                 /\ Replaced(c)
                 /\ given.claims[c].by # NoId
                 /\ given.claims[Replacement(c)].id = given.claims[c].by
<1> DEFINE id == given.claims[c].by
           wrote == {d \in Order : given.claims[d].id = id /\ id # NoId}
<1>1. Order \subseteq Nat /\ 0 \notin Order
  BY OrderIs
<1>2. wrote \in SUBSET Nat /\ 0 \notin wrote
  BY <1>1
<1>3. First(wrote) # 0 => First(wrote) \in wrote
  <2> HIDE DEF wrote
  <2>1. QED  BY <1>2, FirstIs
<1>4. Replacement(c) = IF Replaced(c) THEN First(wrote) ELSE 0
  BY DEF Replacement, Holder
<1>5. QED  BY <1>3, <1>4

(* A claim which named another's id is replaced by that, where no two      *)
(* claims wrote the id.                                                    *)
LEMMA NamedIsReplacement ==
    ASSUME GivenInv, OneEach, NEW c \in Order, NEW d \in Replacing(c)
    PROVE  Replacement(d) = c
<1> DEFINE id == given.claims[d].by
           wrote == {e \in Order : given.claims[e].id = id /\ id # NoId}
<1>1. /\ d \in Order /\ Replaced(d) /\ given.claims[c].id # NoId
      /\ given.claims[d].by = given.claims[c].id
  BY DEF Replacing
<1>2. wrote = {c}
  BY <1>1 DEF OneEach
<1>3. c \in Nat /\ c # 0
  BY OrderIs
<1>4. First(wrote) = c
  <2> HIDE DEF wrote
  <2>1. wrote \in SUBSET Nat /\ 0 \notin wrote
    BY <1>2, <1>3
  <2>2. QED  BY <1>2, <2>1, FirstIs
<1>5. Replacement(d) = First(wrote)
  BY <1>1 DEF Replacement, Holder
<1>6. QED  BY <1>4, <1>5

(* What a claim is replaced by is named by it. *)
LEMMA ReplacementIsNamed ==
    ASSUME GivenInv, NEW d \in Order, Replacement(d) # 0, Replacement(d) # d
    PROVE  Replacement(d) \in Order /\ d \in Replacing(Replacement(d))
BY ReplacementIs, OrderIs DEF Replacing

-----------------------------------------------------------------------------
(* Leading is reflexive, and goes on along replacements. *)
LEMMA LeadsToItself == \A c \in Order : Leads(c, c)
BY DEF Leads

LEMMA LeadsToReplacement ==
    ASSUME GivenInv, NEW c \in Order, Replacement(c) # 0
    PROVE  Leads(c, Replacement(c))
BY DEF Leads, Closed

LEMMA LeadsOn ==
    ASSUME NEW c, NEW d, NEW e, Leads(c, d), Leads(d, e)
    PROVE  Leads(c, e)
BY DEF Leads

(* Where a closed set of claims holds one, it holds what that leads to. *)
LEMMA LeadsWithin ==
    ASSUME NEW s \in SUBSET Order, Closed(s), NEW c \in s, NEW d, Leads(c, d)
    PROVE  d \in s
BY DEF Leads

(* None of it changes. *)
LEMMA GivenPrimed ==
    ASSUME given' = given
    PROVE  /\ Order' = Order
           /\ \A c : Replacement(c)' = Replacement(c)
           /\ \A c : Replacing(c)' = Replacing(c)
           /\ \A c, d : Leads(c, d)' <=> Leads(c, d)
           /\ OneEach' <=> OneEach
           /\ GivenInv' <=> GivenInv
<1>1. Order' = Order
  BY DEF Order
<1>2. \A c : Replacement(c)' = Replacement(c) /\ Replacing(c)' = Replacing(c)
  BY <1>1 DEF Replacement, Replacing, Replaced, Holder
<1>3. \A c, d : Leads(c, d)' <=> Leads(c, d)
  BY <1>1, <1>2 DEF Leads, Closed
<1>4. (OneEach' <=> OneEach) /\ (GivenInv' <=> GivenInv)
  BY <1>1 DEF OneEach, GivenInv
<1>5. QED  BY <1>1, <1>2, <1>3, <1>4

-----------------------------------------------------------------------------
(* What every walk is at. *)
Calls == [of : Order, looked : Order \cup {0}]
Paths == IF given.ask = "history" THEN Seq(Calls) ELSE Seq(Order)
Works == [at : Order \cup {0}, start : Order \cup {0}, seen : SUBSET Order, path : Paths]
WorkInv == GivenInv /\ work \in Works

LEMMA AheadIs ==
    ASSUME WorkInv, given.ask = "history", work.path # <<>>
    PROVE  /\ work.path \in Seq(Calls) /\ Len(work.path) \in Nat \ {0}
           /\ DOMAIN work.path = 1..Len(work.path) /\ Call \in Calls
           /\ Ahead = 0 => \A d \in Replacing(Call.of) : ~(d > Call.looked)
           /\ Ahead # 0 => /\ Ahead \in Replacing(Call.of) /\ Ahead > Call.looked
                           /\ \A d \in Replacing(Call.of) : d > Call.looked => Ahead <= d
<1> DEFINE left == {d \in Replacing(Call.of) : d > Call.looked}
<1>1. work.path \in Seq(Calls)
  BY DEF WorkInv, Works, Paths
<1>2. Len(work.path) \in Nat \ {0} /\ DOMAIN work.path = 1..Len(work.path)
  BY <1>1
<1>3. Call \in Calls
  BY <1>1, <1>2 DEF Call
<1>4. left \in SUBSET Nat /\ 0 \notin left
  BY OrderIs DEF Replacing, WorkInv
<1>5. Ahead = First(left)
  BY DEF Ahead
<1>6. /\ Ahead = 0 <=> left = {}
      /\ Ahead # 0 => Ahead \in left /\ \A d \in left : Ahead <= d
  <2> HIDE DEF left
  <2>1. QED  BY <1>4, <1>5, FirstIs
<1>7. QED  BY <1>1, <1>2, <1>3, <1>6

LEMMA LookedIs ==
    ASSUME WorkInv, given.ask = "history", work.path # <<>>, Ahead # 0
    PROVE  /\ Looked \in Seq(Calls) /\ Len(Looked) = Len(work.path)
           /\ \A i \in 1..Len(work.path) : /\ Looked[i].of = work.path[i].of
                                           /\ i # Len(work.path) => Looked[i] = work.path[i]
           /\ Looked[Len(work.path)].looked = Ahead
<1>1. /\ work.path \in Seq(Calls) /\ Len(work.path) \in Nat \ {0}
      /\ DOMAIN work.path = 1..Len(work.path) /\ Call \in Calls /\ Ahead \in Order
  BY AheadIs DEF Replacing
<1>2. [work.path[Len(work.path)] EXCEPT !.looked = Ahead] \in Calls
  BY <1>1 DEF Calls, Call
<1>3. Looked = [work.path EXCEPT ![Len(work.path)] = [work.path[Len(work.path)] EXCEPT !.looked = Ahead]]
  BY DEF Looked
<1>4. QED  BY <1>1, <1>2, <1>3 DEF Calls, Call

LEMMA WorkInit ==
    ASSUME SupersessionConstants, SupersessionInit PROVE WorkInv
<1>1. PICK m \in Models, ask \in Asked : \E c \in DOMAIN m :
          given = [claims |-> m, ask |-> ask, of |-> c]
  BY DEF SupersessionInit
<1>2. PICK c \in DOMAIN m : given = [claims |-> m, ask |-> ask, of |-> c]
  BY <1>1
<1>3. m \in Seq(Claims)
  BY DEF SupersessionConstants
<1>4. DOMAIN m = 1..Len(m) /\ Len(m) \in Nat
  BY <1>3
<1>5. given.claims = m /\ given.of = c /\ c \in Nat
  BY <1>2, <1>4
<1>6. GivenInv
  BY <1>2, <1>3, <1>5 DEF GivenInv, Order
<1>7. Called(given.of) \in Calls
  BY <1>5, <1>6 DEF Called, Calls, GivenInv
<1>8. work.path \in Paths
  <2>1. work.path = IF given.ask = "history" THEN <<Called(given.of)>> ELSE <<>>
    BY DEF SupersessionInit
  <2>2. <<Called(given.of)>> \in Seq(Calls) /\ <<>> \in Seq(Order)
    BY <1>7
  <2>3. QED  BY <2>1, <2>2 DEF Paths
<1>9. given.of \in Order
  BY <1>6 DEF GivenInv
<1>10. PICK path, seen : work = [at |-> given.of, start |-> given.of, path |-> path, seen |-> seen]
                        /\ seen \in {{}, {given.of}}
  BY DEF SupersessionInit
<1>11. work \in Works
  BY <1>8, <1>9, <1>10 DEF Works
<1>12. QED  BY <1>6, <1>11 DEF WorkInv

LEMMA StartIsOrder ==
    ASSUME GivenInv, NEW from, NEW seen PROVE NextStart(from, seen) \in Order \cup {0}
<1> DEFINE left == {c \in Order : c >= from /\ c \notin seen}
<1>1. left \in SUBSET Nat /\ 0 \notin left /\ left \subseteq Order
  BY OrderIs
<1>2. NextStart(from, seen) = First(left)
  BY DEF NextStart
<1>3. QED
  <2> HIDE DEF left
  <2>1. QED  BY <1>1, <1>2, FirstIs

LEMMA WalkedIsWork ==
    ASSUME WorkInv, given.ask # "history", given' = given,
           NEW path \in Seq(Order), Walked(path)
    PROVE  work' \in Works
<1>1. ToSet(path) \subseteq Order
  BY DEF ToSet
<1>2. PICK start \in Order \cup {0} :
        work' = [at |-> start, start |-> start, path |-> <<>>, seen |-> work.seen \cup ToSet(path)]
  BY StartIsOrder DEF Walked, WorkInv
<1>3. work.seen \cup ToSet(path) \in SUBSET Order /\ <<>> \in Paths
  BY <1>1 DEF WorkInv, Works, Paths
<1>4. QED  BY <1>2, <1>3 DEF Works

LEMMA WorkNext ==
    ASSUME WorkInv, [SupersessionNext]_supersession PROVE WorkInv'
<1>0. given' = given /\ GivenInv /\ work \in Works
  BY GivenStays DEF WorkInv, supersession
<1>1. Works' = Works /\ GivenInv'
  BY <1>0, GivenPrimed DEF Works, Paths, Calls
<1>2. work' \in Works
  <2>1. CASE CycleFound
    BY <2>1, <1>0, WalkedIsWork DEF CycleFound, Works, Paths
  <2>2. CASE CycleLeft
    BY <2>2, <1>0, WalkedIsWork DEF CycleLeft, Works, Paths
  <2>3. CASE CycleWalk
    <3>1. work.at \in Order /\ work.path \in Seq(Order) /\ given.ask # "history"
      BY <2>3, <1>0 DEF CycleWalk, Works, Paths
    <3>2. Append(work.path, work.at) \in Seq(Order) /\ Replacement(work.at) \in Order \cup {0}
      BY <3>1, <1>0, ReplacementIs
    <3>3. CASE Walked(Append(work.path, work.at))
      BY <3>1, <3>2, <3>3, <1>0, WalkedIsWork
    <3>4. CASE work' = [work EXCEPT !.at = Replacement(work.at), !.path = Append(work.path, work.at)]
      BY <3>1, <3>2, <3>4, <1>0 DEF Works, Paths
    <3>5. QED  BY <2>3, <3>3, <3>4 DEF CycleWalk
  <2>4. CASE CurrentFollows
    <3>1. work.at \in Order /\ Replacement(work.at) \in Order
      BY <2>4, <1>0, ReplacementIs DEF CurrentFollows, Works
    <3>2. QED  BY <2>4, <3>1, <1>0 DEF CurrentFollows, Works
  <2>5. CASE CurrentEnds \/ HistoryEnds
    BY <2>5, <1>0 DEF CurrentEnds, HistoryEnds, Works
  <2>6. CASE HistoryFinds
    <3>1. Ahead \in Order /\ Looked \in Seq(Calls) /\ Seq(Calls) = Paths
      BY <2>6, AheadIs, LookedIs DEF HistoryFinds, Replacing, Paths
    <3>2. Called(Ahead) \in Calls
      BY <3>1 DEF Called, Calls
    <3>3. Append(Looked, Called(Ahead)) \in Paths
      <4>1. Append(Looked, Called(Ahead)) \in Seq(Calls)
        BY <3>1, <3>2
      <4>2. QED  BY <3>1, <4>1
    <3>4. work' = [work EXCEPT !.seen = work.seen \cup {Ahead}, !.path = Append(Looked, Called(Ahead))]
      BY <2>6 DEF HistoryFinds, Further
    <3>5. QED  BY <3>1, <3>3, <3>4, <1>0 DEF Works
  <2>7. CASE HistorySkips
    <3>1. Looked \in Paths
      BY <2>7, LookedIs DEF HistorySkips, Paths
    <3>2. QED  BY <2>7, <3>1, <1>0 DEF HistorySkips, Works
  <2>8. CASE HistoryReturns
    <3>1. work.path \in Seq(Calls) /\ Len(work.path) \in Nat \ {0} /\ Seq(Calls) = Paths
      BY <2>8, AheadIs DEF HistoryReturns, Paths
    <3>2. SubSeq(work.path, 1, Len(work.path) - 1) \in Paths
      <4>1. SubSeq(work.path, 1, Len(work.path) - 1) \in Seq(Calls)
        BY <3>1
      <4>2. QED  BY <3>1, <4>1
    <3>3. QED  BY <2>8, <3>2, <1>0 DEF HistoryReturns, Works
  <2>9. CASE UNCHANGED supersession
    BY <2>9, <1>0 DEF supersession
  <2>10. QED
    BY <2>1, <2>2, <2>3, <2>4, <2>5, <2>6, <2>7, <2>8, <2>9 DEF SupersessionNext
<1>3. QED  BY <1>1, <1>2 DEF WorkInv

-----------------------------------------------------------------------------
(* Current.  Every claim the walk passed leads to where it is, and has a   *)
(* replacement it passed or is at.                                         *)
CurrentInv ==
    given.ask = "current" =>
        /\ work.at # 0 =>
              /\ answer = <<>>
              /\ Leads(given.of, work.at)
              /\ given.of \in work.seen \cup {work.at}
              /\ \A s \in work.seen : /\ Replacement(s) \in (work.seen \cup {work.at}) \ {0}
                                      /\ Leads(Replacement(s), work.at)
        /\ CurrentIsWhereItLeads /\ LoadedClaimsHaveACurrent

LEMMA CurrentFollowsKeeps ==
    ASSUME WorkInv, CurrentInv, CurrentFollows PROVE CurrentInv'
<1> DEFINE at == work.at
           next == Replacement(work.at)
<1>1. /\ given.ask = "current" /\ at # 0 /\ next # 0 /\ given' = given /\ answer' = answer
      /\ work'.at = next /\ work'.seen = work.seen \cup {at}
  BY DEF CurrentFollows, WorkInv, Works
<1>2. at \in Order /\ next \in Order
  BY <1>1, ReplacementIs DEF WorkInv, Works
<1>3. Leads(at, next) /\ Leads(next, next)
  BY <1>1, <1>2, LeadsToReplacement, LeadsToItself DEF WorkInv
<1>4. Leads(given.of, next) /\ given.of \in work.seen \cup {at}
  BY <1>1, <1>3, LeadsOn DEF CurrentInv
<1>5. ASSUME NEW s \in work.seen \cup {at}
      PROVE  /\ Replacement(s) \in (work.seen \cup {at, next}) \ {0}
             /\ Leads(Replacement(s), next)
  BY <1>1, <1>3, LeadsOn DEF CurrentInv
<1>6. work'.at # 0 /\ answer' = <<>>
  BY <1>1 DEF CurrentInv
<1>7. CurrentIsWhereItLeads' /\ LoadedClaimsHaveACurrent'
  BY <1>6 DEF CurrentIsWhereItLeads, LoadedClaimsHaveACurrent, Finished
<1>8. QED
  <2>1. /\ \A c : Replacement(c)' = Replacement(c)
        /\ \A c, d : Leads(c, d)' <=> Leads(c, d)
    BY <1>1, GivenPrimed
  <2>2. Leads(given.of, work.at)'
    BY <1>1, <1>4, <2>1
  <2>3. \A s \in work'.seen : /\ Replacement(s)' \in (work'.seen \cup {work'.at}) \ {0}
                              /\ Leads(Replacement(s), work.at)'
    BY <1>1, <1>5, <2>1
  <2>4. given'.of \in work'.seen \cup {work'.at}
    BY <1>1, <1>4
  <2>5. QED  BY <1>6, <1>7, <2>2, <2>3, <2>4 DEF CurrentInv

LEMMA CurrentEndsKeeps ==
    ASSUME WorkInv, CurrentInv, CurrentEnds PROVE CurrentInv'
<1> DEFINE at == work.at
           passed == work.seen \cup {at}
<1>1. /\ given.ask = "current" /\ at # 0 /\ given' = given /\ work'.at = 0
      /\ Passed(at) \/ Replacement(at) = 0
      /\ answer' = IF ~Passed(at) /\ Stands(at) THEN <<at>> ELSE <<>>
  BY DEF CurrentEnds, WorkInv, Works
<1>2. /\ at \in Order /\ passed \subseteq Order /\ given.of \in passed
      /\ Leads(given.of, at)
      /\ \A s \in work.seen : /\ Replacement(s) \in passed \ {0}
                              /\ Leads(Replacement(s), at)
  BY <1>1 DEF CurrentInv, WorkInv, Works
<1>3. \A c \in Order : given.claims[c].rank \in {"normal", "deprecated"}
  <2> SUFFICES ASSUME NEW c \in Order PROVE given.claims[c].rank \in {"normal", "deprecated"}
    OBVIOUS
  <2>1. given.claims \in Seq(Claims) /\ c \in DOMAIN given.claims
    BY DEF WorkInv, GivenInv, Order
  <2>2. given.claims[c] \in Claims
    BY <2>1
  <2>3. QED  BY <2>2 DEF Claims, Ranks
<1>4. Closed(passed)
  BY <1>1, <1>2 DEF Closed, Passed
<1>5. \A s \in work.seen : given.claims[s].rank = "deprecated"
  BY <1>2, ReplacementIs DEF WorkInv, Replaced
<1>6. /\ \A i \in DOMAIN answer' :
           given.claims[answer'[i]].rank = "normal" /\ Leads(given.of, answer'[i])
      /\ answer' = <<>> => \A c \in Order :
           given.claims[c].rank = "normal" => ~Leads(given.of, c)
  <2>1. CASE ~Passed(at) /\ Stands(at)
    BY <2>1, <1>1, <1>2, <1>3 DEF Stands
  <2>2. CASE Passed(at) \/ ~Stands(at)
    <3>1. \A s \in passed : given.claims[s].rank # "normal"
      BY <2>2, <1>5 DEF Passed, Stands
    <3>2. \A c : Leads(given.of, c) => c \in passed
      BY <1>2, <1>4, LeadsWithin
    <3>3. answer' = <<>>
      BY <2>2, <1>1
    <3>4. QED  BY <3>1, <3>2, <3>3
  <2>3. QED  BY <2>1, <2>2
<1>7. ASSUME \A c \in Order : ~Misretracted(c) /\ (Replaced(c) => Replacement(c) # 0),
             ~ \E c \in Order : Replacement(c) # 0 /\ Leads(Replacement(c), c)
      PROVE  answer' # <<>>
  <2>1. ~Passed(at)
    BY <1>2, <1>7 DEF Passed
  <2>2. Stands(at)
    BY <2>1, <1>1, <1>2, <1>7 DEF Stands, Replaced, Misretracted
  <2>3. QED  BY <2>1, <2>2, <1>1
<1>8. CurrentIsWhereItLeads'
  BY <1>1, <1>6, GivenPrimed DEF CurrentIsWhereItLeads, Finished
<1>9. LoadedClaimsHaveACurrent'
  <2>1. \A c : (Misretracted(c)' <=> Misretracted(c)) /\ (Replaced(c)' <=> Replaced(c))
    BY <1>1 DEF Misretracted, Replaced
  <2>2. QED  BY <2>1, <1>1, <1>7, GivenPrimed DEF LoadedClaimsHaveACurrent
<1>10. QED  BY <1>1, <1>8, <1>9 DEF CurrentInv

LEMMA CurrentInit ==
    ASSUME SupersessionConstants, SupersessionInit PROVE CurrentInv
<1>1. WorkInv
  BY WorkInit
<1>2. given.of \in Order /\ given.of # 0 /\ work.at = given.of /\ answer = <<>>
  BY <1>1, OrderIs DEF SupersessionInit, WorkInv, GivenInv
<1>3. given.ask = "current" => work.seen = {}
  BY DEF SupersessionInit
<1>4. QED
  BY <1>2, <1>3, LeadsToItself DEF CurrentInv, CurrentIsWhereItLeads, LoadedClaimsHaveACurrent, Finished

LEMMA CurrentNext ==
    ASSUME WorkInv, CurrentInv, [SupersessionNext]_supersession PROVE CurrentInv'
<1>1. CASE given.ask # "current"
  <2>1. given' = given
    BY GivenStays DEF supersession
  <2>2. QED  BY <1>1, <2>1 DEF CurrentInv
<1>2. CASE given.ask = "current" /\ SupersessionNext
  <2>1. CurrentFollows \/ CurrentEnds
    BY <1>2 DEF SupersessionNext, CycleFound, CycleWalk, CycleLeft, HistoryFinds, HistorySkips,
                HistoryReturns, HistoryEnds
  <2>2. QED  BY <2>1, CurrentFollowsKeeps, CurrentEndsKeeps
<1>3. CASE UNCHANGED supersession
  <2>1. given' = given /\ work' = work /\ answer' = answer
    BY <1>3 DEF supersession
  <2>2. /\ CurrentIsWhereItLeads' <=> CurrentIsWhereItLeads
        /\ LoadedClaimsHaveACurrent' <=> LoadedClaimsHaveACurrent
    <3>1. \A c : (Misretracted(c)' <=> Misretracted(c)) /\ (Replaced(c)' <=> Replaced(c))
      BY <2>1 DEF Misretracted, Replaced
    <3>2. QED
      BY <2>1, <3>1, GivenPrimed DEF CurrentIsWhereItLeads, LoadedClaimsHaveACurrent, Finished
  <2>3. /\ \A c : Replacement(c)' = Replacement(c)
        /\ \A c, d : Leads(c, d)' <=> Leads(c, d)
    BY <2>1, GivenPrimed
  <2>4. QED  BY <2>1, <2>2, <2>3 DEF CurrentInv
<1>4. QED  BY <1>1, <1>2, <1>3

-----------------------------------------------------------------------------
(* History.  What is found leads to the claim asked about, where no two    *)
(* claims wrote one id; and what named a found claim is found, or a call   *)
(* under way has it ahead.                                                 *)
HistoryInv ==
    given.ask = "history" =>
        /\ given.of \in work.seen /\ given.of \notin ToSet(answer)
        /\ answer \in Seq(Order) /\ work.seen = {given.of} \cup ToSet(answer)
        /\ \A i, j \in DOMAIN answer : answer[i] = answer[j] => i = j
        /\ OneEach => \A c \in work.seen : Leads(c, given.of)
        /\ \A i \in DOMAIN work.path : work.path[i].of \in work.seen
        /\ \A c \in work.seen : \A d \in Replacing(c) :
              \/ d \in work.seen
              \/ \E i \in DOMAIN work.path : work.path[i].of = c /\ work.path[i].looked < d
        /\ work.at = 0 => work.path = <<>>

LEMMA HistoryInit ==
    ASSUME SupersessionConstants, SupersessionInit PROVE HistoryInv
<1> SUFFICES ASSUME given.ask = "history" PROVE HistoryInv
  BY DEF HistoryInv
<1>1. given.of \in Order /\ given.of # 0
  BY WorkInit, OrderIs DEF WorkInv, GivenInv
<1>2. work.at = given.of /\ work.path = <<Called(given.of)>> /\ work.seen = {given.of} /\ answer = <<>>
  BY DEF SupersessionInit
<1>3. ToSet(answer) = {} /\ answer \in Seq(Order) /\ DOMAIN answer = {}
  BY <1>2 DEF ToSet
<1>4. DOMAIN work.path = {1} /\ work.path[1].of = given.of /\ work.path[1].looked = 0
  BY <1>2 DEF Called
<1>5. \A d \in Replacing(given.of) : d \in Nat /\ d # 0
  BY WorkInit, OrderIs DEF WorkInv, Replacing
<1>6. \A d \in Replacing(given.of) : 0 < d
  BY <1>5
<1>7. Leads(given.of, given.of)
  BY <1>1, LeadsToItself
<1>8. \A c \in work.seen : \A d \in Replacing(c) :
         \E i \in DOMAIN work.path : work.path[i].of = c /\ work.path[i].looked < d
  BY <1>2, <1>4, <1>6
<1>9. QED  BY <1>1, <1>2, <1>3, <1>4, <1>7, <1>8 DEF HistoryInv

(* The parts about what the model says, after a step. *)
LEMMA HistoryPrimed ==
    ASSUME given' = given, given.ask = "history",
           given.of \in work'.seen, given.of \notin ToSet(answer'),
           answer' \in Seq(Order), work'.seen = {given.of} \cup ToSet(answer'),
           \A i, j \in DOMAIN answer' : answer'[i] = answer'[j] => i = j,
           OneEach => \A c \in work'.seen : Leads(c, given.of),
           \A i \in DOMAIN work'.path : work'.path[i].of \in work'.seen,
           \A c \in work'.seen : \A d \in Replacing(c) :
              \/ d \in work'.seen
              \/ \E i \in DOMAIN work'.path : work'.path[i].of = c /\ work'.path[i].looked < d,
           work'.at = 0 => work'.path = <<>>
    PROVE  HistoryInv'
<1>1. ToSet(answer)' = ToSet(answer')
  BY DEF ToSet
<1>2. QED  BY <1>1, GivenPrimed DEF HistoryInv

LEMMA HistoryFindsKeeps ==
    ASSUME WorkInv, HistoryInv, HistoryFinds PROVE HistoryInv'
<1> DEFINE n == Len(work.path)
<1>1. /\ given.ask = "history" /\ work.path # <<>> /\ Ahead # 0 /\ Ahead \notin work.seen
      /\ given' = given /\ answer' = Append(answer, Ahead)
      /\ work'.at = work.at /\ work'.seen = work.seen \cup {Ahead}
      /\ work'.path = Append(Looked, Called(Ahead))
  BY DEF HistoryFinds, Passed, Further, WorkInv, Works
<1>2. /\ n \in Nat \ {0} /\ DOMAIN work.path = 1..n /\ Call \in Calls
      /\ Ahead \in Replacing(Call.of) /\ Ahead \in Order
      /\ \A d \in Replacing(Call.of) : d > Call.looked => Ahead <= d
  BY <1>1, AheadIs DEF Replacing
<1>3. /\ Looked \in Seq(Calls) /\ Len(Looked) = n
      /\ \A i \in 1..n : /\ Looked[i].of = work.path[i].of
                         /\ i # n => Looked[i] = work.path[i]
      /\ Looked[n].looked = Ahead
  BY <1>1, LookedIs
<1>4. Called(Ahead) \in Calls /\ Called(Ahead).of = Ahead /\ Called(Ahead).looked = 0
  BY <1>2 DEF Called, Calls
<1>5. /\ DOMAIN work'.path = 1..(n + 1) /\ work'.path[n + 1] = Called(Ahead)
      /\ \A i \in 1..n : work'.path[i] = Looked[i]
  BY <1>1, <1>2, <1>3, <1>4
<1>6. /\ answer \in Seq(Order) /\ work.seen = {given.of} \cup ToSet(answer)
      /\ given.of \notin ToSet(answer) /\ Ahead # given.of
      /\ \A i, j \in DOMAIN answer : answer[i] = answer[j] => i = j
  BY <1>1 DEF HistoryInv
<1>7. /\ answer' \in Seq(Order) /\ ToSet(answer') = ToSet(answer) \cup {Ahead}
      /\ \A i, j \in DOMAIN answer' : answer'[i] = answer'[j] => i = j
  <2>1. /\ answer' \in Seq(Order) /\ Len(answer) \in Nat /\ DOMAIN answer = 1..Len(answer)
        /\ DOMAIN answer' = 1..(Len(answer) + 1)
        /\ answer'[Len(answer) + 1] = Ahead
        /\ \A i \in 1..Len(answer) : answer'[i] = answer[i]
    BY <1>1, <1>2, <1>6
  <2>2. ToSet(answer') = ToSet(answer) \cup {Ahead}
    BY <2>1 DEF ToSet
  <2>3. \A i \in 1..Len(answer) : answer[i] # Ahead
    BY <2>1, <1>1, <1>6 DEF ToSet
  <2>4. \A i, j \in DOMAIN answer' : answer'[i] = answer'[j] => i = j
    BY <2>1, <2>3, <1>6
  <2>5. QED  BY <2>1, <2>2, <2>4
<1>8. ASSUME OneEach PROVE \A c \in work'.seen : Leads(c, given.of)
  <2>1. Call.of \in work.seen
    <3>1. \A i \in 1..n : work.path[i].of \in work.seen
      BY <1>1, <1>2 DEF HistoryInv
    <3>2. n \in 1..n /\ Call = work.path[n]
      BY <1>2 DEF Call
    <3>3. QED  BY <3>1, <3>2
  <2>2. Leads(Call.of, given.of)
    BY <2>1, <1>1, <1>8 DEF HistoryInv
  <2>3. Call.of \in Order /\ Call.of # 0
    BY <1>2, OrderIs DEF Calls, WorkInv
  <2>4. Replacement(Ahead) = Call.of
    BY <1>2, <1>8, <2>3, NamedIsReplacement DEF WorkInv
  <2>5. Leads(Ahead, given.of)
    BY <2>2, <2>3, <2>4, <1>2, LeadsToReplacement, LeadsOn DEF WorkInv
  <2>6. QED  BY <2>5, <1>1, <1>8 DEF HistoryInv
<1>9. \A i \in DOMAIN work'.path : work'.path[i].of \in work'.seen
  BY <1>1, <1>2, <1>3, <1>4, <1>5 DEF HistoryInv
<1>10. ASSUME NEW c \in work'.seen, NEW d \in Replacing(c), d \notin work'.seen
       PROVE  \E i \in DOMAIN work'.path : work'.path[i].of = c /\ work'.path[i].looked < d
  <2>0. d \in Nat /\ d # 0 /\ d # Ahead
    BY <1>1, <1>10, OrderIs DEF Replacing, WorkInv
  <2>1. CASE c = Ahead
    <3>1. n + 1 \in DOMAIN work'.path /\ work'.path[n + 1].of = c /\ work'.path[n + 1].looked < d
      BY <2>0, <2>1, <1>2, <1>4, <1>5
    <3>2. QED  BY <3>1
  <2>2. CASE c # Ahead
    <3>1. PICK i \in 1..n : work.path[i].of = c /\ work.path[i].looked < d
      BY <2>2, <1>1, <1>2, <1>10 DEF HistoryInv
    <3>2. i \in DOMAIN work'.path /\ work'.path[i].of = c
      BY <3>1, <1>2, <1>3, <1>5
    <3>3. CASE i # n
      BY <3>1, <3>2, <3>3, <1>3, <1>5
    <3>4. CASE i = n
      <4>1. d > Call.looked /\ d \in Replacing(Call.of)
        BY <3>1, <3>4, <2>0, <1>2 DEF Call, Calls
      <4>2. Ahead < d
        BY <4>1, <1>2, <2>0, OrderIs DEF WorkInv
      <4>3. work'.path[i].looked = Ahead
        BY <3>4, <1>2, <1>3, <1>5
      <4>4. QED  BY <3>2, <4>2, <4>3
    <3>5. QED  BY <3>3, <3>4
  <2>3. QED  BY <2>1, <2>2
<1>11. work'.at # 0
  BY <1>1 DEF HistoryInv
<1>12. QED
  <2>1. /\ given.of \in work'.seen /\ given.of \notin ToSet(answer')
        /\ work'.seen = {given.of} \cup ToSet(answer')
    BY <1>1, <1>6, <1>7
  <2>2. QED  BY <2>1, <1>1, <1>7, <1>8, <1>9, <1>10, <1>11, HistoryPrimed

LEMMA HistorySkipsKeeps ==
    ASSUME WorkInv, HistoryInv, HistorySkips PROVE HistoryInv'
<1> DEFINE n == Len(work.path)
<1>1. /\ given.ask = "history" /\ work.path # <<>> /\ Ahead # 0 /\ Ahead \in work.seen
      /\ given' = given /\ answer' = answer
      /\ work'.at = work.at /\ work'.seen = work.seen /\ work'.path = Looked
  BY DEF HistorySkips, Passed, WorkInv, Works
<1>2. /\ n \in Nat \ {0} /\ DOMAIN work.path = 1..n /\ Call \in Calls
      /\ Ahead \in Replacing(Call.of) /\ Ahead \in Order
      /\ \A d \in Replacing(Call.of) : d > Call.looked => Ahead <= d
  BY <1>1, AheadIs DEF Replacing
<1>3. /\ Looked \in Seq(Calls) /\ Len(Looked) = n
      /\ \A i \in 1..n : /\ Looked[i].of = work.path[i].of
                         /\ i # n => Looked[i] = work.path[i]
      /\ Looked[n].looked = Ahead
  BY <1>1, LookedIs
<1>4. DOMAIN work'.path = 1..n
  BY <1>1, <1>2, <1>3
<1>5. \A i \in DOMAIN work'.path : work'.path[i].of \in work'.seen
  BY <1>1, <1>2, <1>3, <1>4 DEF HistoryInv
<1>6. ASSUME NEW c \in work'.seen, NEW d \in Replacing(c), d \notin work'.seen
      PROVE  \E i \in DOMAIN work'.path : work'.path[i].of = c /\ work'.path[i].looked < d
  <2>1. PICK i \in 1..n : work.path[i].of = c /\ work.path[i].looked < d
    BY <1>1, <1>2, <1>6 DEF HistoryInv
  <2>2. i \in DOMAIN work'.path /\ work'.path[i].of = c
    BY <2>1, <1>1, <1>3, <1>4
  <2>3. CASE i # n
    BY <2>1, <2>2, <2>3, <1>1, <1>3
  <2>4. CASE i = n
    <3>0. d \in Nat /\ d # Ahead /\ Ahead \in Nat
      BY <1>1, <1>2, <1>6, OrderIs DEF Replacing, WorkInv
    <3>1. d > Call.looked /\ d \in Replacing(Call.of)
      BY <2>1, <2>4, <3>0, <1>2 DEF Call, Calls
    <3>2. Ahead < d
      BY <3>0, <3>1, <1>2
    <3>3. work'.path[i].looked = Ahead
      BY <2>4, <1>1, <1>3
    <3>4. QED  BY <2>2, <3>2, <3>3
  <2>5. QED  BY <2>3, <2>4
<1>7. QED
  <2>1. /\ given.of \in work'.seen /\ given.of \notin ToSet(answer')
        /\ answer' \in Seq(Order) /\ work'.seen = {given.of} \cup ToSet(answer')
        /\ \A i, j \in DOMAIN answer' : answer'[i] = answer'[j] => i = j
        /\ OneEach => \A c \in work'.seen : Leads(c, given.of)
        /\ work'.at # 0
    BY <1>1 DEF HistoryInv
  <2>2. QED  BY <2>1, <1>1, <1>5, <1>6, HistoryPrimed

LEMMA HistoryReturnsKeeps ==
    ASSUME WorkInv, HistoryInv, HistoryReturns PROVE HistoryInv'
<1> DEFINE n == Len(work.path)
<1>1. /\ given.ask = "history" /\ work.path # <<>> /\ Ahead = 0
      /\ given' = given /\ answer' = answer
      /\ work'.at = work.at /\ work'.seen = work.seen
      /\ work'.path = SubSeq(work.path, 1, n - 1)
  BY DEF HistoryReturns, WorkInv, Works
<1>2. /\ work.path \in Seq(Calls) /\ n \in Nat \ {0} /\ DOMAIN work.path = 1..n
      /\ Call \in Calls
      /\ \A d \in Replacing(Call.of) : ~(d > Call.looked)
  BY <1>1, AheadIs
<1>3. /\ DOMAIN work'.path = 1..(n - 1)
      /\ \A i \in 1..(n - 1) : work'.path[i] = work.path[i]
  BY <1>1, <1>2
<1>4. \A i \in DOMAIN work'.path : work'.path[i].of \in work'.seen
  BY <1>1, <1>2, <1>3 DEF HistoryInv
<1>5. ASSUME NEW c \in work'.seen, NEW d \in Replacing(c), d \notin work'.seen
      PROVE  \E i \in DOMAIN work'.path : work'.path[i].of = c /\ work'.path[i].looked < d
  <2>1. PICK i \in 1..n : work.path[i].of = c /\ work.path[i].looked < d
    BY <1>1, <1>2, <1>5 DEF HistoryInv
  <2>2. i # n
    <3>1. d \in Nat /\ Call.looked \in Nat
      BY <1>2, OrderIs DEF Replacing, WorkInv, Calls
    <3>2. QED  BY <2>1, <3>1, <1>2 DEF Call
  <2>3. QED  BY <2>1, <2>2, <1>2, <1>3
<1>6. QED
  <2>1. /\ given.of \in work'.seen /\ given.of \notin ToSet(answer')
        /\ answer' \in Seq(Order) /\ work'.seen = {given.of} \cup ToSet(answer')
        /\ \A i, j \in DOMAIN answer' : answer'[i] = answer'[j] => i = j
        /\ OneEach => \A c \in work'.seen : Leads(c, given.of)
        /\ work'.at # 0
    BY <1>1 DEF HistoryInv
  <2>2. QED  BY <2>1, <1>1, <1>4, <1>5, HistoryPrimed

LEMMA HistoryEndsKeeps ==
    ASSUME WorkInv, HistoryInv, HistoryEnds \/ UNCHANGED supersession PROVE HistoryInv'
<1> SUFFICES ASSUME given.ask = "history" PROVE HistoryInv'
  BY DEF HistoryInv, HistoryEnds, supersession
<1>1. /\ given' = given /\ answer' = answer
      /\ work'.seen = work.seen /\ work'.path = work.path
      /\ work'.at = 0 => work'.path = <<>>
  BY DEF HistoryInv, HistoryEnds, supersession, WorkInv, Works
<1>2. QED
  BY <1>1, HistoryPrimed DEF HistoryInv

LEMMA HistoryNext ==
    ASSUME WorkInv, HistoryInv, [SupersessionNext]_supersession PROVE HistoryInv'
<1>1. CASE given.ask # "history"
  <2>1. given' = given
    BY GivenStays DEF supersession
  <2>2. QED  BY <1>1, <2>1 DEF HistoryInv
<1>2. CASE given.ask = "history" /\ SupersessionNext
  <2>1. HistoryFinds \/ HistorySkips \/ HistoryReturns \/ HistoryEnds
    BY <1>2 DEF SupersessionNext, CycleFound, CycleWalk, CycleLeft, CurrentFollows, CurrentEnds
  <2>2. QED
    BY <2>1, HistoryFindsKeeps, HistorySkipsKeeps, HistoryReturnsKeeps, HistoryEndsKeeps
<1>3. QED  BY <1>1, <1>2, HistoryEndsKeeps

(* A walk which ended found all there is to find: the claims it did not    *)
(* find are closed under replacement, so none of them leads to the one     *)
(* asked about.                                                            *)
LEMMA HistoryFound ==
    ASSUME WorkInv, HistoryInv PROVE HistoryIsWhatLedHere
<1> SUFFICES ASSUME given.ask = "history", work.at = 0, OneEach
             PROVE  /\ ToSet(answer) = {c \in Order \ {given.of} : Leads(c, given.of)}
                    /\ Len(answer) = Cardinality(ToSet(answer))
  BY DEF HistoryIsWhatLedHere, Finished
<1>1. /\ answer \in Seq(Order) /\ work.seen = {given.of} \cup ToSet(answer)
      /\ given.of \notin ToSet(answer) /\ work.path = <<>>
      /\ \A c \in work.seen : Leads(c, given.of)
      /\ \A i, j \in DOMAIN answer : answer[i] = answer[j] => i = j
  BY DEF HistoryInv
<1>2. ToSet(answer) \subseteq Order
  BY <1>1 DEF ToSet
<1>3. \A c \in work.seen : Replacing(c) \subseteq work.seen
  BY <1>1 DEF HistoryInv
<1>4. Closed(Order \ work.seen)
  <2> SUFFICES ASSUME NEW d \in Order \ work.seen, Replacement(d) # 0, Replacement(d) \in work.seen
               PROVE  FALSE
    BY ReplacementIs DEF Closed, WorkInv
  <2>1. d \in Replacing(Replacement(d))
    BY ReplacementIsNamed DEF WorkInv
  <2>2. QED  BY <2>1, <1>3
<1>5. \A c \in Order : Leads(c, given.of) => c \in work.seen
  <2> SUFFICES ASSUME NEW c \in Order \ work.seen, Leads(c, given.of) PROVE FALSE
    OBVIOUS
  <2>1. given.of \in Order \ work.seen
    BY <1>4, LeadsWithin
  <2>2. QED  BY <2>1, <1>1
<1>6. ToSet(answer) = {c \in Order \ {given.of} : Leads(c, given.of)}
  BY <1>1, <1>2, <1>5
<1>7. Len(answer) = Cardinality(ToSet(answer))
  <2>1. Len(answer) \in Nat /\ DOMAIN answer = 1..Len(answer)
    BY <1>1
  <2>2. answer \in Bijection(1..Len(answer), ToSet(answer))
    <3>1. answer \in [1..Len(answer) -> ToSet(answer)]
      BY <1>1, <2>1 DEF ToSet
    <3>2. \A d \in ToSet(answer) : \E i \in 1..Len(answer) : answer[i] = d
      BY <2>1 DEF ToSet
    <3>3. QED
      BY <1>1, <2>1, <3>1, <3>2 DEF Bijection, Injection, Surjection, IsInjective
  <2>3. QED  BY <2>1, <2>2, FS_CountingElements DEF ExistsBijection
<1>8. QED  BY <1>6, <1>7

-----------------------------------------------------------------------------
(* Where a place of n of them comes from, once they were turned to begin   *)
(* at f; and what comes after a place, round the n.                        *)
Turned(n, f, j) == IF j <= n - f + 1 THEN f + j - 1 ELSE j - (n - f + 1)
After(n, j) == IF j = n THEN 1 ELSE j + 1

(* The search for cycles.  A walk is a chain of claims no walk passed yet, *)
(* each the replacement of the one before it, and what was passed is       *)
(* closed under replacement; so a claim of the walk which does not end on  *)
(* a ring of it leads out of the walk and never back.                      *)
Circular == {c \in Order : Replacement(c) \notin {0, c} /\ Leads(Replacement(c), c)}
Chain(path, seen) ==
    /\ \A j, k \in DOMAIN path : path[j] = path[k] => j = k
    /\ \A k \in DOMAIN path : path[k] \notin seen
    /\ \A k \in 1..(Len(path) - 1) : Replacement(path[k]) = path[k + 1]
Circle(ring) ==
    /\ ring \in Seq(Order) /\ Len(ring) > 1
    /\ \A j, k \in DOMAIN ring : ring[j] = ring[k] => j = k
    /\ \A j \in DOMAIN ring :
          /\ ring[1] <= ring[j]
          /\ Replacement(ring[j]) = ring[After(Len(ring), j)]
CycleInv ==
    given.ask = "cycles" =>
        /\ Closed(work.seen)
        /\ \A c \in Order : c < work.start \/ work.at = 0 => c \in work.seen
        /\ \A i \in DOMAIN answer : Circle(answer[i]) /\ ToSet(answer[i]) \subseteq work.seen
        /\ \A i, j \in DOMAIN answer : answer[i][1] = answer[j][1] => i = j
        /\ \A c \in work.seen \cap Circular : \E i \in DOMAIN answer : c \in ToSet(answer[i])
        /\ answer \in Seq(Seq(Order))
        /\ work.at # 0 =>
              /\ work.start \notin work.seen
              /\ IF work.path = <<>> THEN work.at = work.start ELSE work.path[1] = work.start
              /\ Chain(work.path, work.seen)
              /\ work.path # <<>> => /\ Replacement(work.path[Len(work.path)]) = work.at
                                     /\ work.at # work.path[Len(work.path)]

LEMMA ToSetIs ==
    ASSUME NEW S, NEW c \in Seq(S)
    PROVE  /\ Len(c) \in Nat /\ DOMAIN c = 1..Len(c) /\ ToSet(c) \subseteq S
           /\ \A x : x \in ToSet(c) <=> \E i \in 1..Len(c) : x = c[i]
           /\ \A i \in 1..Len(c) : c[i] \in ToSet(c)
<1>1. Len(c) \in Nat /\ DOMAIN c = 1..Len(c) /\ \A i \in 1..Len(c) : c[i] \in S
  OBVIOUS
<1>2. ToSet(c) = {c[i] : i \in 1..Len(c)}
  BY <1>1 DEF ToSet
<1>3. QED  BY <1>1, <1>2

LEMMA TurnedIs ==
    ASSUME NEW n \in Nat, NEW f \in 1..n
    PROVE  /\ \A j \in 1..n : Turned(n, f, j) \in 1..n
           /\ \A j, k \in 1..n : Turned(n, f, j) = Turned(n, f, k) => j = k
           /\ \A k \in 1..n : \E j \in 1..n : Turned(n, f, j) = k
           /\ \A j \in 1..n : After(n, j) \in 1..n
           /\ \A j \in 1..n : Turned(n, f, After(n, j)) = After(n, Turned(n, f, j))
           /\ Turned(n, f, 1) = f /\ 1 \in 1..n
<1>1. /\ \A j \in 1..n : Turned(n, f, j) \in 1..n
      /\ \A j \in 1..n : After(n, j) \in 1..n
      /\ Turned(n, f, 1) = f /\ 1 \in 1..n
  BY DEF Turned, After
<1>2. \A j, k \in 1..n : Turned(n, f, j) = Turned(n, f, k) => j = k
  BY DEF Turned
<1>3. \A j \in 1..n : Turned(n, f, After(n, j)) = After(n, Turned(n, f, j))
  BY DEF Turned, After
<1>4. ASSUME NEW k \in 1..n
      PROVE  \E j \in 1..n : Turned(n, f, j) = k
  <2>1. CASE k >= f
    <3>1. k - f + 1 \in 1..n /\ Turned(n, f, k - f + 1) = k
      BY <2>1 DEF Turned
    <3>2. QED  BY <3>1
  <2>2. CASE ~(k >= f)
    <3>1. k + n - f + 1 \in 1..n /\ Turned(n, f, k + n - f + 1) = k
      BY <2>2 DEF Turned
    <3>2. QED  BY <3>1
  <2>3. QED  BY <2>1, <2>2
<1>5. QED  BY <1>1, <1>2, <1>3, <1>4

LEMMA ConcatIs ==
    ASSUME NEW S, NEW a \in Seq(S), NEW b \in Seq(S)
    PROVE  /\ a \o b \in Seq(S) /\ Len(a \o b) = Len(a) + Len(b)
           /\ \A j \in 1..Len(a) : (a \o b)[j] = a[j]
           /\ \A j \in 1..Len(b) : (a \o b)[Len(a) + j] = b[j]
OBVIOUS

(* A cycle is turned to begin at its least claim, and goes on as it did.   *)
LEMMA RingIs ==
    ASSUME NEW S \in SUBSET Nat, 0 \notin S, NEW c \in Seq(S), c # <<>>
    PROVE  \E f \in 1..Len(c) :
              /\ Ring(c) \in Seq(S) /\ Len(Ring(c)) = Len(c)
              /\ \A j \in 1..Len(c) : c[f] <= c[j]
              /\ \A j \in 1..Len(c) : Ring(c)[j] = c[Turned(Len(c), f, j)]
<1> DEFINE n == Len(c)
           f == CHOOSE i \in DOMAIN c : \A j \in DOMAIN c : c[i] <= c[j]
           a == SubSeq(c, f, n)
           b == SubSeq(c, 1, f - 1)
<1>1. n \in Nat \ {0} /\ DOMAIN c = 1..n /\ \A i \in 1..n : c[i] \in S
  OBVIOUS
<1>2. \E i \in 1..n : \A j \in 1..n : c[i] <= c[j]
  <2> DEFINE all == ToSet(c)
  <2>1. all \subseteq S /\ c[1] \in all /\ \A i \in 1..n : c[i] \in all
    BY <1>1, ToSetIs
  <2>2. \A x \in all : \E i \in 1..n : x = c[i]
    BY ToSetIs
  <2> HIDE DEF all, n
  <2>3. all \in SUBSET Nat /\ 0 \notin all /\ all # {}
    BY <2>1
  <2>4. First(all) \in all /\ \A d \in all : First(all) <= d
    BY <2>3, FirstIs
  <2>5. PICK i \in 1..n : First(all) = c[i]
    BY <2>2, <2>4
  <2>6. \A j \in 1..n : c[i] <= c[j]
    BY <2>1, <2>4, <2>5
  <2>7. QED  BY <2>6
<1>3. f \in 1..n /\ \A j \in 1..n : c[f] <= c[j]
  BY <1>1, <1>2
<1>4. Ring(c) = a \o b
  BY DEF Ring
<1> HIDE DEF f
<1>5. a \in Seq(S) /\ Len(a) = n - f + 1 /\ \A j \in 1..(n - f + 1) : a[j] = c[f + j - 1]
  BY <1>1, <1>3
<1>6. b \in Seq(S) /\ Len(b) = f - 1 /\ \A j \in 1..(f - 1) : b[j] = c[j]
  BY <1>1, <1>3
<1> HIDE DEF a, b, n
<1>7. /\ a \o b \in Seq(S) /\ Len(a \o b) = Len(a) + Len(b)
      /\ \A j \in 1..Len(a) : (a \o b)[j] = a[j]
      /\ \A j \in 1..Len(b) : (a \o b)[Len(a) + j] = b[j]
  <2>1. a \in Seq(S) /\ b \in Seq(S)
    BY <1>5, <1>6
  <2>2. QED  BY <2>1, ConcatIs
<1>8. Len(a) + Len(b) = n
  BY <1>1, <1>3, <1>5, <1>6
<1>9. ASSUME NEW j \in 1..n
      PROVE  (a \o b)[j] = c[Turned(n, f, j)]
  <2>1. CASE j <= n - f + 1
    <3>1. j \in 1..Len(a) /\ Turned(n, f, j) = f + j - 1
      BY <2>1, <1>1, <1>3, <1>5 DEF Turned
    <3>2. QED  BY <3>1, <1>5, <1>7
  <2>2. CASE ~(j <= n - f + 1)
    <3>1. /\ Turned(n, f, j) = j - (n - f + 1)
          /\ Turned(n, f, j) \in 1..(f - 1) /\ j = Len(a) + Turned(n, f, j)
      BY <2>2, <1>1, <1>3, <1>5 DEF Turned
    <3>2. (a \o b)[j] = b[Turned(n, f, j)]
      BY <3>1, <1>6, <1>7
    <3>3. QED  BY <3>1, <3>2, <1>6
  <2>3. QED  BY <2>1, <2>2
<1>10. QED  BY <1>3, <1>4, <1>7, <1>8, <1>9 DEF n

(* What the search reports of a cycle it met is a circle of its claims.    *)
LEMMA RingIsCircle ==
    ASSUME GivenInv, NEW c \in Seq(Order), Len(c) > 1,
           \A j, k \in 1..Len(c) : c[j] = c[k] => j = k,
           \A j \in 1..Len(c) : Replacement(c[j]) = c[After(Len(c), j)]
    PROVE  Circle(Ring(c)) /\ ToSet(Ring(c)) = ToSet(c)
<1> DEFINE n == Len(c)
           r == Ring(c)
<1>1. n \in Nat /\ n > 1 /\ DOMAIN c = 1..n /\ c # <<>> /\ \A i \in 1..n : c[i] \in Order
  OBVIOUS
<1>2. Order \in SUBSET Nat /\ 0 \notin Order
  BY OrderIs
<1>3. PICK f \in 1..n :
          /\ r \in Seq(Order) /\ Len(r) = n
          /\ \A j \in 1..n : r[j] = c[Turned(n, f, j)]
          /\ \A j \in 1..n : c[f] <= c[j]
  BY <1>1, <1>2, RingIs
<1>4. /\ DOMAIN r = 1..n
      /\ \A x : x \in ToSet(r) <=> \E i \in 1..n : x = r[i]
      /\ \A x : x \in ToSet(c) <=> \E i \in 1..n : x = c[i]
  BY <1>3, ToSetIs
<1>5. \A j \in 1..n : Replacement(c[j]) = c[After(n, j)]
  OBVIOUS
<1>6. \A j, k \in 1..n : c[j] = c[k] => j = k
  OBVIOUS
<1> HIDE DEF r, n
<1>7. /\ \A j \in 1..n : Turned(n, f, j) \in 1..n
      /\ \A j \in 1..n : After(n, j) \in 1..n
  BY <1>1, TurnedIs
<1>8. \A j, k \in 1..n : Turned(n, f, j) = Turned(n, f, k) => j = k
  BY <1>1, TurnedIs
<1>9. \A k \in 1..n : \E j \in 1..n : Turned(n, f, j) = k
  BY <1>1, TurnedIs
<1>10. \A j \in 1..n : Turned(n, f, After(n, j)) = After(n, Turned(n, f, j))
  BY <1>1, TurnedIs
<1>11. Turned(n, f, 1) = f /\ 1 \in 1..n
  BY <1>1, TurnedIs
<1>12. \A j \in 1..n : r[j] = c[Turned(n, f, j)]
  BY <1>3
<1>13. ASSUME NEW j \in 1..n, NEW k \in 1..n, r[j] = r[k]
       PROVE  j = k
  <2>1. c[Turned(n, f, j)] = c[Turned(n, f, k)]
    BY <1>12, <1>13
  <2>2. Turned(n, f, j) = Turned(n, f, k)
    BY <2>1, <1>6, <1>7
  <2>3. QED  BY <2>2, <1>8
<1>14. ASSUME NEW j \in 1..n
       PROVE  r[1] <= r[j]
  <2>1. r[1] = c[f] /\ r[j] = c[Turned(n, f, j)]
    BY <1>11, <1>12
  <2>2. QED  BY <2>1, <1>3, <1>7
<1>15. ASSUME NEW j \in 1..n
       PROVE  Replacement(r[j]) = r[After(n, j)]
  <2>1. r[j] = c[Turned(n, f, j)] /\ r[After(n, j)] = c[After(n, Turned(n, f, j))]
    BY <1>7, <1>10, <1>12
  <2>2. QED  BY <2>1, <1>5, <1>7
<1>16. ToSet(r) = ToSet(c)
  <2>1. ASSUME NEW x \in ToSet(r) PROVE x \in ToSet(c)
    <3>1. PICK i \in 1..n : x = r[i]
      BY <1>4
    <3>2. QED  BY <3>1, <1>4, <1>7, <1>12
  <2>2. ASSUME NEW x \in ToSet(c) PROVE x \in ToSet(r)
    <3>1. PICK i \in 1..n : x = c[i]
      BY <1>4
    <3>2. PICK j \in 1..n : Turned(n, f, j) = i
      BY <1>9
    <3>3. x = r[j]
      BY <3>1, <3>2, <1>12
    <3>4. QED  BY <3>3, <1>4
  <2>3. QED  BY <2>1, <2>2
<1>17. Circle(r)
  BY <1>1, <1>3, <1>4, <1>13, <1>14, <1>15 DEF Circle
<1>18. QED  BY <1>16, <1>17 DEF r

(* Round a circle every claim leads to every other.                        *)
LEMMA CircleLeads ==
    ASSUME GivenInv, NEW r, Circle(r), NEW j \in DOMAIN r, NEW k \in DOMAIN r
    PROVE  Leads(r[j], r[k])
<1> DEFINE n == Len(r)
<1>1. /\ r \in Seq(Order) /\ n \in Nat /\ n > 1 /\ DOMAIN r = 1..n
      /\ \A i \in 1..n : r[i] \in Order /\ r[i] # 0
      /\ \A i \in 1..n : Replacement(r[i]) = r[After(n, i)]
  BY OrderIs DEF Circle
<1> HIDE DEF n
<1>2. SUFFICES ASSUME NEW s \in SUBSET Order, Closed(s), r[j] \in s
               PROVE  r[k] \in s
  BY DEF Leads
<1>3. \A i \in 1..n : r[i] \in s => r[After(n, i)] \in s
  <2> SUFFICES ASSUME NEW i \in 1..n, r[i] \in s
               PROVE  r[After(n, i)] \in s
    OBVIOUS
  <2>1. After(n, i) \in 1..n
    BY <1>1 DEF After
  <2>2. Replacement(r[i]) # 0 /\ Replacement(r[i]) = r[After(n, i)]
    BY <2>1, <1>1
  <2>3. Replacement(r[i]) \in s
    BY <2>2, <1>2 DEF Closed
  <2>4. QED  BY <2>2, <2>3
<1> DEFINE out == {i \in 1..n : r[i] \notin s}
           back == {n + 1 - i : i \in 1..n \ out}
<1>4. ASSUME 1 \notin out PROVE out = {}
  <2>1. out \in SUBSET Nat /\ 0 \notin out
    BY <1>1
  <2>2. First(out) = 0 \/ (First(out) \in out /\ \A i \in out : First(out) <= i)
    <3> HIDE DEF out
    <3>1. QED  BY <2>1, FirstIs
  <2>3. CASE First(out) \in out /\ \A i \in out : First(out) <= i
    <3>1. First(out) \in 1..n /\ First(out) # 1
      BY <2>3, <1>4
    <3> DEFINE m == First(out) - 1
    <3> HIDE DEF out
    <3>2. m \in 1..n /\ m # n /\ m < First(out) /\ m + 1 = First(out)
      BY <3>1, <1>1
    <3>7. m \notin out
      BY <2>3, <3>1, <3>2
    <3> USE DEF out
    <3>3. r[m] \in s
      BY <3>2, <3>7
    <3> HIDE DEF m
    <3>4. r[m + 1] \in s /\ m + 1 = First(out)
      BY <3>1, <3>2, <3>3, <1>1, <1>3 DEF After
    <3>5. QED  BY <2>3, <3>4
  <2>4. CASE First(out) = 0
    <3> HIDE DEF out
    <3>1. QED  BY <2>1, <2>4, FirstIs
  <2>5. QED  BY <2>2, <2>3, <2>4
<1>5. ASSUME 1 \in out PROVE FALSE
  <2>1. back \in SUBSET Nat /\ 0 \notin back
    BY <1>1
  <2>2. n + 1 - j \in back
    BY <1>1, <1>2
  <2>3. First(back) \in back /\ \A i \in back : First(back) <= i
    <3> HIDE DEF back
    <3>1. QED  BY <2>1, <2>2, FirstIs
  <2>4. PICK m \in 1..n \ out : First(back) = n + 1 - m
    BY <2>3
  <2>5. \A i \in 1..n \ out : i <= m
    <3>1. \A i \in 1..n \ out : n + 1 - i \in back
      OBVIOUS
    <3>2. \A i \in 1..n \ out : n + 1 - m <= n + 1 - i
      BY <3>1, <2>3, <2>4
    <3>3. QED  BY <3>2, <2>4, <1>1
  <2>6. r[m] \in s
    BY <2>4
  <2>7. m # n
    BY <2>6, <1>1, <1>3, <1>5 DEF After
  <2>8. m + 1 \in 1..n /\ r[m + 1] \in s
    BY <2>4, <2>6, <2>7, <1>1, <1>3 DEF After
  <2>9. m + 1 <= m
    BY <2>5, <2>8
  <2>10. QED  BY <2>9, <2>4, <1>1
<1>6. QED  BY <1>1, <1>4, <1>5

(* So each is circular, and what the first leads to is the circle.         *)
LEMMA CircleIsCircular ==
    ASSUME GivenInv, NEW r, Circle(r)
    PROVE  /\ ToSet(r) \subseteq Circular /\ r[1] \in ToSet(r)
           /\ \A c, d \in ToSet(r) : Leads(c, d)
           /\ \A c \in ToSet(r) : \A d : Leads(c, d) => d \in ToSet(r)
<1>1. /\ r \in Seq(Order) /\ Len(r) \in Nat /\ Len(r) > 1 /\ DOMAIN r = 1..Len(r)
      /\ ToSet(r) = {r[i] : i \in 1..Len(r)} /\ ToSet(r) \in SUBSET Order
      /\ \A i, j \in 1..Len(r) : r[i] = r[j] => i = j
  BY DEF Circle, ToSet
<1>2. ASSUME NEW i \in 1..Len(r)
      PROVE  \E j \in 1..Len(r) : Replacement(r[i]) = r[j] /\ j # i
  <2> DEFINE n == Len(r)
             j == After(n, i)
  <2>1. n \in Nat /\ n > 1
    BY <1>1
  <2>2. Replacement(r[i]) = r[j]
    BY <1>1 DEF Circle
  <2> HIDE DEF n
  <2>3. i \in 1..n
    BY DEF n
  <2>4. j \in 1..n /\ j # i
    BY <2>1, <2>3 DEF After
  <2>5. QED  BY <2>2, <2>4 DEF n
<1>3. \A c, d \in ToSet(r) : Leads(c, d)
  BY <1>1, CircleLeads
<1>4. Closed(ToSet(r))
  BY <1>1, <1>2 DEF Closed
<1>5. \A c \in ToSet(r) : Replacement(c) \in ToSet(r) \ {c}
  BY <1>1, <1>2
<1>6. ToSet(r) \subseteq Circular
  <2>1. 0 \notin ToSet(r)
    BY <1>1, OrderIs
  <2>2. QED  BY <2>1, <1>1, <1>3, <1>5 DEF Circular
<1>7. r[1] \in ToSet(r)
  BY <1>1
<1>8. QED  BY <1>1, <1>3, <1>4, <1>6, <1>7, LeadsWithin
(* A claim of a chain is on no cycle when the last of the chain leads only *)
(* to what comes after the claim, to what was passed before, or nowhere.   *)
LEMMA NotCircular ==
    ASSUME GivenInv, NEW seen \in SUBSET Order, Closed(seen), NEW path \in Seq(Order),
           Chain(path, seen), NEW k \in 1..Len(path), NEW on,
           on = seen \cup {path[j] : j \in (k + 1)..Len(path)},
           Replacement(path[Len(path)]) \in on \cup {0, path[Len(path)]}
    PROVE  path[k] \notin Circular
<1> DEFINE n == Len(path)
<1>1. n \in Nat /\ DOMAIN path = 1..n /\ \A j \in 1..n : path[j] \in Order
  OBVIOUS
<1>2. /\ \A i, j \in 1..n : path[i] = path[j] => i = j
      /\ \A j \in 1..n : path[j] \notin seen
      /\ \A j \in 1..(n - 1) : Replacement(path[j]) = path[j + 1]
  BY <1>1 DEF Chain
<1>3. on = seen \cup {path[j] : j \in (k + 1)..n} /\ k \in 1..n
      /\ Replacement(path[n]) \in on \cup {0, path[n]}
  OBVIOUS
<1> HIDE DEF n
<1>4. on \in SUBSET Order /\ path[k] \notin on
  BY <1>1, <1>2, <1>3
<1>5. \A j \in (k + 1)..n : path[j] \in on
  BY <1>3
<1>6. ASSUME NEW j \in k..n, Replacement(path[j]) \notin {0, path[j]}
      PROVE  Replacement(path[j]) \in on
  <2>1. CASE j = n
    BY <2>1, <1>3, <1>6
  <2>2. CASE j # n
    <3>1. j \in 1..(n - 1) /\ j + 1 \in (k + 1)..n
      BY <2>2, <1>1, <1>3
    <3>2. QED  BY <3>1, <1>2, <1>5
  <2>3. QED  BY <2>1, <2>2
<1>7. Closed(on)
  <2> SUFFICES ASSUME NEW c \in on, Replacement(c) # 0 PROVE Replacement(c) \in on
    BY DEF Closed
  <2>1. CASE c \in seen
    BY <2>1, <1>3 DEF Closed
  <2>2. CASE c \notin seen
    <3>1. PICK j \in (k + 1)..n : c = path[j]
      BY <2>2, <1>3
    <3>2. j \in k..n
      BY <3>1, <1>1, <1>3
    <3>3. QED  BY <3>1, <3>2, <1>6
  <2>3. QED  BY <2>1, <2>2
<1>8. SUFFICES ASSUME path[k] \in Circular PROVE FALSE
  OBVIOUS
<1>9. Replacement(path[k]) \notin {0, path[k]} /\ Leads(Replacement(path[k]), path[k])
  BY <1>8 DEF Circular
<1>10. k \in k..n
  BY <1>1, <1>3
<1>11. Replacement(path[k]) \in on
  BY <1>6, <1>9, <1>10
<1>12. QED  BY <1>4, <1>7, <1>9, <1>11, LeadsWithin

(* Where the next walk begins: at the first claim no walk passed.          *)
LEMMA StartIs ==
    ASSUME GivenInv, NEW from \in Nat, NEW seen, NEW start, start = NextStart(from, seen)
    PROVE  /\ start = 0 => \A c \in Order : c >= from => c \in seen
           /\ start # 0 => /\ start \in Order /\ start >= from /\ start \notin seen
                           /\ \A c \in Order : c >= from /\ c < start => c \in seen
<1> DEFINE left == {c \in Order : c >= from /\ c \notin seen}
<1>1. Order \subseteq Nat /\ 0 \notin Order
  BY OrderIs
<1>2. start = First(left)
  BY DEF NextStart
<1>3. left \in SUBSET Nat /\ 0 \notin left
  BY <1>1
<1>4. /\ start = 0 <=> left = {}
      /\ start # 0 => start \in left /\ \A d \in left : start <= d
  <2> HIDE DEF left
  <2>1. QED  BY <1>2, <1>3, FirstIs
<1>5. ASSUME start = 0 PROVE \A c \in Order : c >= from => c \in seen
  BY <1>4, <1>5
<1>6. ASSUME start # 0
      PROVE  /\ start \in Order /\ start >= from /\ start \notin seen
             /\ \A c \in Order : c >= from /\ c < start => c \in seen
  <2>1. start \in Order /\ start >= from /\ start \notin seen /\ start \in Nat
    BY <1>1, <1>4, <1>6
  <2>2. ASSUME NEW c \in Order, c >= from, c < start, c \notin seen
        PROVE  FALSE
    <3>1. c \in left /\ c \in Nat
      BY <2>2, <1>1
    <3>2. start <= c
      BY <3>1, <1>4, <1>6
    <3>3. QED  BY <3>1, <3>2, <2>1, <2>2
  <2>3. QED  BY <2>1, <2>2
<1>7. QED  BY <1>5, <1>6

(* The parts about what the model says, after a step.                      *)
LEMMA CyclePrimed ==
    ASSUME given' = given,
           Closed(work'.seen),
           \A c \in Order : c < work'.start \/ work'.at = 0 => c \in work'.seen,
           \A i \in DOMAIN answer' : Circle(answer'[i]) /\ ToSet(answer'[i]) \subseteq work'.seen,
           \A i, j \in DOMAIN answer' : answer'[i][1] = answer'[j][1] => i = j,
           \A c \in work'.seen \cap Circular : \E i \in DOMAIN answer' : c \in ToSet(answer'[i]),
           answer' \in Seq(Seq(Order)),
           work'.at # 0 =>
              /\ work'.start \notin work'.seen
              /\ IF work'.path = <<>> THEN work'.at = work'.start ELSE work'.path[1] = work'.start
              /\ Chain(work'.path, work'.seen)
              /\ work'.path # <<>> => /\ Replacement(work'.path[Len(work'.path)]) = work'.at
                                      /\ work'.at # work'.path[Len(work'.path)]
    PROVE  CycleInv'
<1>1. Order' = Order /\ \A c : Replacement(c)' = Replacement(c)
  BY GivenPrimed
<1>2. \A c, d : Leads(c, d)' <=> Leads(c, d)
  BY GivenPrimed
<1>3. Circular' = Circular
  BY <1>1, <1>2 DEF Circular
<1>5. Closed(work.seen)'
  BY <1>1 DEF Closed
<1>6. \A i \in DOMAIN answer' : Circle(answer[i])' /\ ToSet(answer[i])' \subseteq work'.seen
  BY <1>1 DEF Circle, ToSet, After
<1>7. Chain(work.path, work.seen)' <=> Chain(work'.path, work'.seen)
  BY <1>1 DEF Chain
<1>8. \A c \in work'.seen \cap Circular' : \E i \in DOMAIN answer' : c \in ToSet(answer[i])'
  BY <1>3 DEF ToSet
<1>9. work'.at # 0 /\ work'.path # <<>> =>
         Replacement(work.path[Len(work.path)])' = work'.at
  BY <1>1
<1>10. QED  BY <1>1, <1>5, <1>6, <1>7, <1>8, <1>9 DEF CycleInv

(* What was passed once a walk which began at the start is over.           *)
LEMMA SearchedKeeps ==
    ASSUME WorkInv, CycleInv, given' = given, given.ask = "cycles", work.at # 0,
           NEW path \in Seq(Order), path # <<>>, path[1] = work.start, Walked(path),
           Chain(path, work.seen),
           Replacement(path[Len(path)]) \in work.seen \cup ToSet(path) \cup {0},
           answer' \in Seq(Seq(Order)),
           \A i \in DOMAIN answer' : /\ Circle(answer'[i])
                                     /\ ToSet(answer'[i]) \subseteq work.seen \cup ToSet(path),
           \A i, j \in DOMAIN answer' : answer'[i][1] = answer'[j][1] => i = j,
           \A c \in (work.seen \cup ToSet(path)) \cap Circular :
              \E i \in DOMAIN answer' : c \in ToSet(answer'[i])
    PROVE  CycleInv'
<1> DEFINE seen == work.seen \cup ToSet(path)
           start == NextStart(work.start + 1, seen)
           n == Len(path)
<1>1. /\ work'.at = start /\ work'.start = start /\ work'.path = <<>> /\ work'.seen = seen
  BY DEF Walked
<1>2. /\ Closed(work.seen) /\ work.seen \in SUBSET Order
      /\ \A c \in Order : c < work.start => c \in work.seen
  BY DEF CycleInv, WorkInv, Works
<1>3. /\ n \in Nat \ {0} /\ ToSet(path) \subseteq Order
      /\ \A x : x \in ToSet(path) <=> \E j \in 1..n : x = path[j]
  <2>1. /\ n \in Nat /\ ToSet(path) \subseteq Order
        /\ \A x : x \in ToSet(path) <=> \E j \in 1..n : x = path[j]
    BY ToSetIs
  <2>2. n # 0
    OBVIOUS
  <2>3. QED  BY <2>1, <2>2
<1>4. \A j \in 1..(n - 1) : Replacement(path[j]) = path[j + 1]
  BY DEF Chain
<1>5. Replacement(path[n]) \in seen \cup {0}
  OBVIOUS
<1> HIDE DEF n
<1>6. ASSUME NEW c \in seen, Replacement(c) # 0
      PROVE  Replacement(c) \in seen
  <2>1. CASE c \in work.seen
    BY <2>1, <1>2, <1>6 DEF Closed
  <2>2. CASE c \notin work.seen
    <3>1. PICK j \in 1..n : c = path[j]
      BY <2>2, <1>3
    <3>2. CASE j = n
      BY <3>1, <3>2, <1>5, <1>6
    <3>3. CASE j # n
      <4>1. j \in 1..(n - 1) /\ j + 1 \in 1..n
        BY <3>3, <1>3
      <4>2. Replacement(c) = path[j + 1]
        BY <3>1, <4>1, <1>4
      <4>3. QED  BY <4>1, <4>2, <1>3
    <3>4. QED  BY <3>2, <3>3
  <2>3. QED  BY <2>1, <2>2
<1>7. Closed(seen)
  BY <1>6 DEF Closed
<1>8. work.start \in seen /\ work.start \in Nat /\ work.start + 1 \in Nat
  <2>1. path[1] \in ToSet(path)
    BY <1>3
  <2>2. QED  BY <2>1, <1>3, OrderIs DEF WorkInv
<1>9. /\ start = 0 => \A c \in Order : c >= work.start + 1 => c \in seen
      /\ start # 0 => /\ start \in Order /\ start >= work.start + 1 /\ start \notin seen
                      /\ \A c \in Order : c >= work.start + 1 /\ c < start => c \in seen
  BY <1>8, StartIs DEF WorkInv
<1> HIDE DEF start
<1>10. \A c \in Order : c \in Nat
  BY OrderIs DEF WorkInv
<1>11. ASSUME NEW c \in Order, c < start \/ start = 0
       PROVE  c \in seen
  <2>1. CASE c < work.start
    BY <2>1, <1>2
  <2>2. CASE c = work.start
    BY <2>2, <1>8
  <2>3. CASE c > work.start
    <3>1. c >= work.start + 1
      BY <2>3, <1>8, <1>10
    <3>2. QED  BY <3>1, <1>9, <1>11
  <2>4. QED  BY <2>1, <2>2, <2>3, <1>8, <1>10
<1>12. Chain(<<>>, seen)
  BY DEF Chain
<1>13. start # 0 => start \notin seen
  BY <1>9
<1> HIDE DEF seen
<1>14. /\ Closed(work'.seen)
       /\ \A c \in Order : c < work'.start \/ work'.at = 0 => c \in work'.seen
  BY <1>1, <1>7, <1>11
<1>15. /\ \A i \in DOMAIN answer' : Circle(answer'[i]) /\ ToSet(answer'[i]) \subseteq work'.seen
       /\ \A c \in work'.seen \cap Circular : \E i \in DOMAIN answer' : c \in ToSet(answer'[i])
  BY <1>1 DEF seen
<1>16. work'.at # 0 =>
          /\ work'.start \notin work'.seen
          /\ IF work'.path = <<>> THEN work'.at = work'.start ELSE work'.path[1] = work'.start
          /\ Chain(work'.path, work'.seen)
          /\ work'.path # <<>> => /\ Replacement(work'.path[Len(work'.path)]) = work'.at
                                  /\ work'.at # work'.path[Len(work'.path)]
  BY <1>1, <1>12, <1>13
<1>17. QED  BY <1>14, <1>15, <1>16, CyclePrimed

(* The walk, and what it is a step into.                                   *)
LEMMA ChainGoesOn ==
    ASSUME NEW path \in Seq(Order), NEW seen, NEW at \in Order, Chain(path, seen),
           at \notin seen, at \notin ToSet(path),
           path # <<>> => Replacement(path[Len(path)]) = at
    PROVE  Chain(Append(path, at), seen)
<1> DEFINE n == Len(path)
           on == Append(path, at)
<1>1. /\ n \in Nat /\ DOMAIN path = 1..n /\ \A j \in 1..n : path[j] # at
  BY ToSetIs
<1>2. /\ DOMAIN on = 1..(n + 1) /\ Len(on) = n + 1 /\ on[n + 1] = at
      /\ \A j \in 1..n : on[j] = path[j]
  OBVIOUS
<1>3. /\ \A i, j \in 1..n : path[i] = path[j] => i = j
      /\ \A j \in 1..n : path[j] \notin seen
      /\ \A j \in 1..(n - 1) : Replacement(path[j]) = path[j + 1]
  BY <1>1 DEF Chain
<1>4. n > 0 => Replacement(path[n]) = at
  OBVIOUS
<1> HIDE DEF n, on
<1>5. \A i, j \in 1..(n + 1) : on[i] = on[j] => i = j
  BY <1>1, <1>2, <1>3
<1>6. \A j \in 1..(n + 1) : on[j] \notin seen
  BY <1>1, <1>2, <1>3
<1>7. \A j \in 1..n : Replacement(on[j]) = on[j + 1]
  BY <1>1, <1>2, <1>3, <1>4
<1>8. (n + 1) - 1 = n
  BY <1>1
<1>9. Chain(on, seen)
  BY <1>2, <1>5, <1>6, <1>7, <1>8 DEF Chain
<1>10. QED  BY <1>9 DEF on

LEMMA CycleWalkKeeps ==
    ASSUME WorkInv, CycleInv, CycleWalk PROVE CycleInv'
<1> DEFINE at == work.at
           next == Replacement(at)
           path == Append(work.path, at)
           n == Len(work.path)
<1>1. /\ given.ask = "cycles" /\ at # 0 /\ at \notin work.seen /\ at \notin ToSet(work.path)
      /\ given' = given /\ answer' = answer
  BY DEF CycleWalk
<1>2. /\ at \in Order /\ work.path \in Seq(Order) /\ work.seen \in SUBSET Order /\ GivenInv
  BY <1>1 DEF WorkInv, Works, Paths
<1>3. /\ path \in Seq(Order) /\ path # <<>> /\ Len(path) = n + 1 /\ n \in Nat
      /\ path[n + 1] = at /\ \A j \in 1..n : path[j] = work.path[j]
  BY <1>2
<1>4. Chain(path, work.seen)
  BY <1>1, <1>2, ChainGoesOn DEF CycleInv
<1>5. path[1] = work.start
  <2>1. CASE work.path = <<>>
    <3>1. n = 0 /\ at = work.start
      BY <2>1, <1>1 DEF CycleInv
    <3>2. QED  BY <3>1, <1>3
  <2>2. CASE work.path # <<>>
    <3>1. 1 \in 1..n /\ work.path[1] = work.start
      BY <2>2, <1>1, <1>2 DEF CycleInv
    <3>2. QED  BY <3>1, <1>3
  <2>3. QED  BY <2>1, <2>2
<1>6. path[Len(path)] = at
  BY <1>3
<1>7. /\ answer' \in Seq(Seq(Order))
      /\ \A i \in DOMAIN answer' : Circle(answer'[i]) /\ ToSet(answer'[i]) \subseteq work.seen
      /\ \A i, j \in DOMAIN answer' : answer'[i][1] = answer'[j][1] => i = j
      /\ \A c \in work.seen \cap Circular : \E i \in DOMAIN answer' : c \in ToSet(answer'[i])
  BY <1>1 DEF CycleInv
<1>8. CASE next # 0 /\ next # at
  <2>1. work' = [work EXCEPT !.at = next, !.path = path]
    BY <1>8 DEF CycleWalk
  <2>2. /\ work'.at = next /\ work'.path = path
        /\ work'.seen = work.seen /\ work'.start = work.start
    BY <2>1 DEF WorkInv, Works
  <2> HIDE DEF path, next
  <2>3. /\ Closed(work'.seen) /\ work'.start \notin work'.seen
        /\ \A c \in Order : c < work'.start => c \in work'.seen
    BY <2>2, <1>1 DEF CycleInv
  <2>4. /\ \A i \in DOMAIN answer' : Circle(answer'[i]) /\ ToSet(answer'[i]) \subseteq work'.seen
        /\ \A c \in work'.seen \cap Circular : \E i \in DOMAIN answer' : c \in ToSet(answer'[i])
    BY <2>2, <1>7
  <2>5. Replacement(work'.path[Len(work'.path)]) = work'.at
        /\ work'.at # work'.path[Len(work'.path)]
    BY <2>2, <1>6, <1>8 DEF next
  <2>6. work'.path # <<>> /\ work'.path[1] = work'.start /\ Chain(work'.path, work'.seen)
    BY <2>2, <1>3, <1>4, <1>5
  <2>7. work'.at # 0
    BY <2>2, <1>8
  <2>8. QED  BY <1>1, <1>7, <2>3, <2>4, <2>5, <2>6, <2>7, CyclePrimed
<1>9. CASE next = 0 \/ next = at
  <2>1. Walked(path)
    BY <1>9 DEF CycleWalk
  <2>2. /\ \A x : x \in ToSet(path) <=> \E j \in 1..Len(path) : x = path[j]
        /\ at \in ToSet(path)
    <3>1. Len(path) \in 1..Len(path)
      BY <1>3
    <3> HIDE DEF path
    <3>2. QED  BY <3>1, <1>3, <1>6, ToSetIs
  <2>3. Replacement(path[Len(path)]) \in {0, at} /\ at \in ToSet(path)
    BY <2>2, <1>3, <1>6, <1>9
  <2>4. ASSUME NEW k \in 1..Len(path)
        PROVE  path[k] \notin Circular
    <3> DEFINE on == work.seen \cup {path[j] : j \in (k + 1)..Len(path)}
    <3>1. Replacement(path[Len(path)]) \in on \cup {0, path[Len(path)]}
      BY <2>3, <1>6
    <3>2. Closed(work.seen)
      BY <1>1 DEF CycleInv
    <3> HIDE DEF path
    <3>3. QED  BY <3>1, <3>2, <1>2, <1>3, <1>4, NotCircular
  <2>5. \A c \in (work.seen \cup ToSet(path)) \cap Circular :
           \E i \in DOMAIN answer' : c \in ToSet(answer'[i])
    <3> HIDE DEF path
    <3>1. \A c \in ToSet(path) : c \notin Circular
      BY <2>2, <2>4
    <3>2. QED  BY <3>1, <1>7
  <2>6. \A i \in DOMAIN answer' : /\ Circle(answer'[i])
                                  /\ ToSet(answer'[i]) \subseteq work.seen \cup ToSet(path)
    BY <1>7
  <2> HIDE DEF path
  <2>7. QED  BY <1>1, <1>3, <1>4, <1>5, <1>7, <2>1, <2>3, <2>5, <2>6, SearchedKeeps
<1>10. QED  BY <1>8, <1>9

LEMMA CycleLeftKeeps ==
    ASSUME WorkInv, CycleInv, CycleLeft PROVE CycleInv'
<1> DEFINE path == work.path
<1>1. /\ given.ask = "cycles" /\ work.at # 0 /\ work.at \in work.seen
      /\ given' = given /\ answer' = answer /\ Walked(path)
  BY DEF CycleLeft
<1>2. /\ path \in Seq(Order) /\ work.seen \in SUBSET Order /\ GivenInv
  BY <1>1 DEF WorkInv, Works, Paths
<1>3. /\ path # <<>> /\ path[1] = work.start /\ Chain(path, work.seen)
      /\ Replacement(path[Len(path)]) = work.at /\ Closed(work.seen)
  BY <1>1 DEF CycleInv
<1>4. /\ answer' \in Seq(Seq(Order))
      /\ \A i \in DOMAIN answer' : Circle(answer'[i]) /\ ToSet(answer'[i]) \subseteq work.seen
      /\ \A i, j \in DOMAIN answer' : answer'[i][1] = answer'[j][1] => i = j
      /\ \A c \in work.seen \cap Circular : \E i \in DOMAIN answer' : c \in ToSet(answer'[i])
  BY <1>1 DEF CycleInv
<1> HIDE DEF path
<1>5. ASSUME NEW k \in 1..Len(path)
      PROVE  path[k] \notin Circular
  <2> DEFINE on == work.seen \cup {path[j] : j \in (k + 1)..Len(path)}
  <2>1. Replacement(path[Len(path)]) \in on \cup {0, path[Len(path)]}
    BY <1>1, <1>3
  <2>2. QED  BY <2>1, <1>2, <1>3, NotCircular
<1>6. \A c \in (work.seen \cup ToSet(path)) \cap Circular :
         \E i \in DOMAIN answer' : c \in ToSet(answer'[i])
  BY <1>2, <1>4, <1>5, ToSetIs
<1>7. \A i \in DOMAIN answer' : /\ Circle(answer'[i])
                                /\ ToSet(answer'[i]) \subseteq work.seen \cup ToSet(path)
  BY <1>4
<1>8. Replacement(path[Len(path)]) \in work.seen \cup ToSet(path) \cup {0}
  BY <1>1, <1>3
<1>9. QED  BY <1>1, <1>2, <1>3, <1>4, <1>6, <1>7, <1>8, SearchedKeeps

(* The walk met itself: what it walked since is a ring, and nothing it     *)
(* walked before is on a cycle.                                            *)
LEMMA CycleFoundKeeps ==
    ASSUME WorkInv, CycleInv, CycleFound PROVE CycleInv'
<1> DEFINE path == work.path
           n == Len(path)
           met == CHOOSE i \in DOMAIN path : path[i] = work.at
           cycle == SubSeq(path, met, n)
<1>1. /\ given.ask = "cycles" /\ work.at # 0 /\ work.at \in ToSet(path)
      /\ given' = given /\ answer' = Append(answer, Ring(cycle)) /\ Walked(path)
  BY DEF CycleFound
<1>2. /\ path \in Seq(Order) /\ work.seen \in SUBSET Order /\ GivenInv
  BY <1>1 DEF WorkInv, Works, Paths
<1>3. /\ n \in Nat /\ DOMAIN path = 1..n /\ \A j \in 1..n : path[j] \in Order
      /\ \A x : x \in ToSet(path) <=> \E j \in 1..n : x = path[j]
  BY <1>2, ToSetIs
<1>4. met \in 1..n /\ path[met] = work.at
  BY <1>1, <1>3
<1>5. path # <<>>
  BY <1>3, <1>4
<1>6. /\ path[1] = work.start /\ Chain(path, work.seen) /\ Closed(work.seen)
      /\ Replacement(path[n]) = work.at /\ work.at # path[n]
  BY <1>1, <1>5 DEF CycleInv
<1>7. /\ \A i, j \in 1..n : path[i] = path[j] => i = j
      /\ \A j \in 1..n : path[j] \notin work.seen
      /\ \A j \in 1..(n - 1) : Replacement(path[j]) = path[j + 1]
  BY <1>3, <1>6 DEF Chain
<1>8. /\ answer \in Seq(Seq(Order))
      /\ \A i \in DOMAIN answer : Circle(answer[i]) /\ ToSet(answer[i]) \subseteq work.seen
      /\ \A i, j \in DOMAIN answer : answer[i][1] = answer[j][1] => i = j
      /\ \A c \in work.seen \cap Circular : \E i \in DOMAIN answer : c \in ToSet(answer[i])
  BY <1>1 DEF CycleInv
<1> HIDE DEF met
<1>9. /\ cycle \in Seq(Order) /\ Len(cycle) = n - met + 1
      /\ \A j \in 1..(n - met + 1) : cycle[j] = path[met + j - 1]
  BY <1>2, <1>3, <1>4
<1> HIDE DEF cycle, n, path
<1>10. met # n
  BY <1>4, <1>6
<1> DEFINE m == n - met + 1
<1>11. m \in Nat /\ m > 1 /\ \A j \in 1..m : met + j - 1 \in 1..n
  BY <1>3, <1>4, <1>10
<1>12. \A j, k \in 1..m : cycle[j] = cycle[k] => j = k
  <2>1. ASSUME NEW j \in 1..m, NEW k \in 1..m, cycle[j] = cycle[k]
        PROVE  j = k
    <3>1. met + j - 1 = met + k - 1
      BY <2>1, <1>7, <1>9, <1>11
    <3>2. QED  BY <3>1, <1>3, <1>4
  <2>2. QED  BY <2>1
<1>13. ASSUME NEW j \in 1..m
       PROVE  Replacement(cycle[j]) = cycle[After(m, j)]
  <2>1. CASE j = m
    <3>1. cycle[j] = path[n] /\ cycle[1] = path[met] /\ After(m, j) = 1
      BY <2>1, <1>3, <1>4, <1>9, <1>11 DEF After
    <3>2. QED  BY <3>1, <1>4, <1>6
  <2>2. CASE j # m
    <3>1. met + j - 1 \in 1..(n - 1) /\ j + 1 \in 1..m /\ After(m, j) = j + 1
      BY <2>2, <1>3, <1>4, <1>11 DEF After
    <3>2. Replacement(path[met + j - 1]) = path[(met + j - 1) + 1]
      BY <3>1, <1>7
    <3>3. (met + j - 1) + 1 = met + (j + 1) - 1
      BY <1>4
    <3>4. QED  BY <3>1, <3>2, <3>3, <1>9
  <2>3. QED  BY <2>1, <2>2
<1>14. Circle(Ring(cycle)) /\ ToSet(Ring(cycle)) = ToSet(cycle)
  <2>1. Len(cycle) = m
    BY <1>9
  <2> HIDE DEF m
  <2>2. QED  BY <2>1, <1>2, <1>9, <1>11, <1>12, <1>13, RingIsCircle
<1>15. \A x : x \in ToSet(cycle) <=> \E j \in 1..m : x = cycle[j]
  BY <1>9, ToSetIs
<1>16. ASSUME NEW j \in met..n PROVE path[j] \in ToSet(cycle)
  <2>1. j - met + 1 \in 1..m /\ met + (j - met + 1) - 1 = j
    BY <1>3, <1>4, <1>11
  <2>2. cycle[j - met + 1] = path[j]
    BY <2>1, <1>9
  <2>3. QED  BY <2>1, <2>2, <1>15
<1>17. ToSet(cycle) \subseteq ToSet(path) /\ ToSet(cycle) \cap work.seen = {}
  <2>1. \A j \in 1..m : cycle[j] \in ToSet(path) /\ cycle[j] \notin work.seen
    BY <1>3, <1>7, <1>9, <1>11
  <2>2. QED  BY <2>1, <1>15
<1>18. ASSUME NEW k \in 1..n, path[k] \in Circular
       PROVE  path[k] \in ToSet(cycle)
  <2>1. CASE k >= met
    BY <2>1, <1>3, <1>4, <1>16
  <2>2. CASE ~(k >= met)
    <3> DEFINE on == work.seen \cup {path[j] : j \in (k + 1)..n}
    <3>1. met \in (k + 1)..n
      BY <2>2, <1>3, <1>4
    <3>2. Replacement(path[n]) \in on \cup {0, path[n]}
      BY <3>1, <1>4, <1>6
    <3>3. path[k] \notin Circular
      BY <3>2, <1>2, <1>6, NotCircular DEF n
    <3>4. QED  BY <3>3, <1>18
  <2>3. QED  BY <2>1, <2>2
<1> DEFINE ring == Ring(cycle)
           l == Len(answer)
<1>19. /\ ring \in Seq(Order) /\ ring[1] \in ToSet(cycle)
  BY <1>2, <1>14, CircleIsCircular DEF Circle
<1> HIDE DEF ring
<1>20. /\ l \in Nat /\ DOMAIN answer = 1..l /\ answer' \in Seq(Seq(Order))
       /\ DOMAIN answer' = 1..(l + 1) /\ answer'[l + 1] = ring
       /\ \A i \in 1..l : answer'[i] = answer[i]
  BY <1>1, <1>8, <1>19 DEF ring
<1> HIDE DEF l
<1>21. ASSUME NEW i \in DOMAIN answer'
       PROVE  /\ Circle(answer'[i])
              /\ ToSet(answer'[i]) \subseteq work.seen \cup ToSet(path)
  <2>1. CASE i = l + 1
    BY <2>1, <1>14, <1>17, <1>20 DEF ring
  <2>2. CASE i # l + 1
    BY <2>2, <1>8, <1>20
  <2>3. QED  BY <2>1, <2>2
<1>22. ASSUME NEW i \in 1..l PROVE answer'[i][1] # answer'[l + 1][1]
  <2>1. answer[i][1] \in ToSet(answer[i])
    BY <1>2, <1>8, <1>20, CircleIsCircular
  <2>2. answer[i][1] \in work.seen
    BY <2>1, <1>8, <1>20
  <2>3. QED  BY <2>2, <1>17, <1>19, <1>20
<1>23. ASSUME NEW i \in DOMAIN answer', NEW j \in DOMAIN answer', answer'[i][1] = answer'[j][1]
       PROVE  i = j
  <2>1. CASE i \in 1..l /\ j \in 1..l
    BY <2>1, <1>8, <1>20, <1>23
  <2>2. CASE i = l + 1 \/ j = l + 1
    BY <2>2, <1>20, <1>22, <1>23
  <2>3. QED  BY <2>1, <2>2, <1>20
<1>24. ASSUME NEW c \in (work.seen \cup ToSet(path)) \cap Circular
       PROVE  \E i \in DOMAIN answer' : c \in ToSet(answer'[i])
  <2>1. CASE c \in work.seen
    BY <2>1, <1>8, <1>20
  <2>2. CASE c \notin work.seen
    <3>1. c \in ToSet(ring)
      BY <2>2, <1>3, <1>14, <1>18 DEF ring
    <3>2. l + 1 \in DOMAIN answer'
      BY <1>20
    <3>3. QED  BY <3>1, <3>2, <1>20
  <2>3. QED  BY <2>1, <2>2
<1>25. Replacement(path[Len(path)]) \in work.seen \cup ToSet(path) \cup {0}
  BY <1>1, <1>6 DEF n
<1>26. QED
  BY <1>1, <1>2, <1>5, <1>6, <1>20, <1>21, <1>23, <1>24, <1>25, SearchedKeeps

LEMMA CycleNext ==
    ASSUME WorkInv, CycleInv, [SupersessionNext]_supersession PROVE CycleInv'
<1>1. CASE given.ask # "cycles"
  <2>1. given' = given
    BY GivenStays DEF supersession
  <2>2. QED  BY <1>1, <2>1 DEF CycleInv
<1>2. CASE given.ask = "cycles" /\ SupersessionNext
  <2>1. CycleFound \/ CycleWalk \/ CycleLeft
    BY <1>2 DEF SupersessionNext, CurrentFollows, CurrentEnds,
                HistoryFinds, HistorySkips, HistoryReturns, HistoryEnds
  <2>2. QED  BY <2>1, CycleFoundKeeps, CycleWalkKeeps, CycleLeftKeeps
<1>3. CASE given.ask = "cycles" /\ UNCHANGED supersession
  <2>1. given' = given /\ work' = work /\ answer' = answer
    BY <1>3 DEF supersession
  <2>2. QED  BY <2>1, <1>3, CyclePrimed DEF CycleInv
<1>4. QED  BY <1>1, <1>2, <1>3

LEMMA CycleInit ==
    ASSUME SupersessionConstants, SupersessionInit PROVE CycleInv
<1> SUFFICES ASSUME given.ask = "cycles" PROVE CycleInv
  BY DEF CycleInv
<1>1. given.of = 1
  <2>1. PICK m \in Models, ask \in Asked : \E c \in DOMAIN m :
            /\ ask = "cycles" => c = 1
            /\ given = [claims |-> m, ask |-> ask, of |-> c]
    BY DEF SupersessionInit
  <2>2. QED  BY <2>1
<1>2. work.at = 1 /\ work.start = 1 /\ work.path = <<>> /\ work.seen = {} /\ answer = <<>>
  BY <1>1 DEF SupersessionInit
<1>3. \A c \in Order : c \in Nat /\ c # 0
  BY WorkInit, OrderIs DEF WorkInv
<1>4. \A c \in Order : ~(c < 1)
  BY <1>3
<1>5. Closed({}) /\ Chain(<<>>, {}) /\ answer \in Seq(Seq(Order)) /\ DOMAIN answer = {}
  BY <1>2 DEF Closed, Chain
<1>6. QED  BY <1>2, <1>4, <1>5 DEF CycleInv

(* When every claim was passed, the circles which were reported are the    *)
(* cycles there are: a circle is closed under replacement, so what its     *)
(* first claim leads to is the circle.                                     *)
LEMMA CyclesFound ==
    ASSUME WorkInv, CycleInv PROVE EveryCycleIsReported
<1> DEFINE first == {c \in Circular : \A d \in Circular : Leads(c, d) => c <= d}
<1> SUFFICES ASSUME given.ask = "cycles", work.at = 0
             PROVE  /\ Len(answer) = Cardinality(first)
                    /\ {answer[i][1] : i \in DOMAIN answer} = first
                    /\ \A i \in DOMAIN answer :
                          /\ ToSet(answer[i]) = {d \in Circular : Leads(answer[i][1], d)}
                          /\ \A j \in DOMAIN answer[i] :
                                Replacement(answer[i][j]) =
                                    answer[i][IF j = Len(answer[i]) THEN 1 ELSE j + 1]
  BY DEF EveryCycleIsReported, Finished, Circular
<1>1. /\ GivenInv /\ answer \in Seq(Seq(Order)) /\ \A c \in Order : c \in work.seen
      /\ \A i \in DOMAIN answer : Circle(answer[i])
      /\ \A i, j \in DOMAIN answer : answer[i][1] = answer[j][1] => i = j
      /\ \A c \in work.seen \cap Circular : \E i \in DOMAIN answer : c \in ToSet(answer[i])
  BY DEF CycleInv, WorkInv
<1>2. Circular \subseteq Order /\ \A c \in Order : c \in Nat
  BY <1>1, OrderIs DEF Circular
<1>3. ASSUME NEW i \in DOMAIN answer
      PROVE  /\ ToSet(answer[i]) \subseteq Circular /\ answer[i][1] \in ToSet(answer[i])
             /\ \A c, d \in ToSet(answer[i]) : Leads(c, d)
             /\ \A c \in ToSet(answer[i]) : \A d : Leads(c, d) => d \in ToSet(answer[i])
             /\ \A d \in ToSet(answer[i]) : answer[i][1] <= d
             /\ \A j \in DOMAIN answer[i] :
                   Replacement(answer[i][j]) =
                       answer[i][IF j = Len(answer[i]) THEN 1 ELSE j + 1]
  <2>1. Circle(answer[i])
    BY <1>1
  <2>2. \A d \in ToSet(answer[i]) : answer[i][1] <= d
    BY <2>1 DEF Circle, ToSet
  <2>3. \A j \in DOMAIN answer[i] :
           Replacement(answer[i][j]) = answer[i][IF j = Len(answer[i]) THEN 1 ELSE j + 1]
    BY <2>1 DEF Circle, After
  <2>4. QED  BY <2>1, <2>2, <2>3, <1>1, CircleIsCircular
<1>4. ASSUME NEW i \in DOMAIN answer
      PROVE  ToSet(answer[i]) = {d \in Circular : Leads(answer[i][1], d)}
  <2>1. \A d : d \in ToSet(answer[i]) <=> d \in Circular /\ Leads(answer[i][1], d)
    BY <1>3
  <2>2. QED  BY <2>1
<1>5. ASSUME NEW i \in DOMAIN answer
      PROVE  answer[i][1] \in first
  <2>1. answer[i][1] \in Circular
    BY <1>3
  <2>2. \A d \in Circular : Leads(answer[i][1], d) => answer[i][1] <= d
    BY <1>3
  <2>3. QED  BY <2>1, <2>2
<1>6. ASSUME NEW c \in first
      PROVE  \E i \in DOMAIN answer : c = answer[i][1]
  <2>1. PICK i \in DOMAIN answer : c \in ToSet(answer[i])
    BY <1>1, <1>2
  <2>2. answer[i][1] \in Circular /\ Leads(c, answer[i][1]) /\ answer[i][1] <= c
    BY <2>1, <1>3
  <2>3. c <= answer[i][1]
    BY <2>2
  <2>4. c \in Nat /\ answer[i][1] \in Nat
    BY <2>2, <1>2
  <2>5. QED  BY <2>2, <2>3, <2>4
<1> HIDE DEF first
<1>7. {answer[i][1] : i \in DOMAIN answer} = first
  <2>1. \A c : c \in {answer[i][1] : i \in DOMAIN answer} <=> c \in first
    BY <1>5, <1>6
  <2>2. QED  BY <2>1
<1>8. Len(answer) = Cardinality(first)
  <2>1. Len(answer) \in Nat /\ DOMAIN answer = 1..Len(answer)
    BY <1>1
  <2> DEFINE heads == [i \in 1..Len(answer) |-> answer[i][1]]
  <2>2. heads \in [1..Len(answer) -> first]
    BY <2>1, <1>5
  <2>3. \A i, j \in 1..Len(answer) : heads[i] = heads[j] => i = j
    BY <2>1, <1>1
  <2>4. \A c \in first : \E i \in 1..Len(answer) : heads[i] = c
    BY <2>1, <1>6
  <2> HIDE DEF heads
  <2>5. heads \in Bijection(1..Len(answer), first)
    BY <2>2, <2>3, <2>4 DEF Bijection, Injection, Surjection, IsInjective
  <2>6. QED  BY <2>1, <2>5, FS_CountingElements DEF ExistsBijection
<1>9. QED  BY <1>3, <1>4, <1>7, <1>8

-----------------------------------------------------------------------------
WalkInv == WorkInv /\ CurrentInv /\ HistoryInv /\ CycleInv

LEMMA WalkInvariant == ASSUME SupersessionConstants PROVE SupersessionSpec => []WalkInv
<1>1. SupersessionInit => WalkInv
  BY WorkInit, CurrentInit, HistoryInit, CycleInit DEF WalkInv
<1>2. WalkInv /\ [SupersessionNext]_supersession => WalkInv'
  BY WorkNext, CurrentNext, HistoryNext, CycleNext DEF WalkInv
<1>3. QED  BY <1>1, <1>2, PTL DEF SupersessionSpec

(* An answer about what is current is a claim of the model. *)
CurrentTyped == given.ask = "current" => answer \in Seq(Order)

LEMMA CurrentTypedNext == WalkInv /\ CurrentTyped /\ [SupersessionNext]_supersession => CurrentTyped'
<1> SUFFICES ASSUME WalkInv, CurrentTyped, [SupersessionNext]_supersession, given'.ask = "current"
             PROVE  answer' \in Seq(Order')
  BY DEF CurrentTyped
<1>1. given' = given
  BY DEF SupersessionNext, supersession, CycleFound, CycleWalk, CycleLeft, CurrentFollows, CurrentEnds,
         HistoryFinds, HistorySkips, HistoryReturns, HistoryEnds
<1>2. Order' = Order /\ given.ask = "current" /\ answer \in Seq(Order)
  BY <1>1 DEF Order, CurrentTyped
<1>3. CASE CurrentEnds
  <2>1. work.at \in Order
    BY <1>3 DEF CurrentEnds, WalkInv, WorkInv, Works
  <2>2. answer' = <<work.at>> \/ answer' = <<>>
    BY <1>3 DEF CurrentEnds
  <2>3. <<work.at>> \in Seq(Order) /\ <<>> \in Seq(Order)
    <3>1. \A c \in Order : <<c>> \in Seq(Order)
      OBVIOUS
    <3>2. <<>> \in Seq(Order)
      OBVIOUS
    <3>3. QED  BY <2>1, <3>1, <3>2
  <2>4. answer' \in Seq(Order)
    BY <2>2, <2>3
  <2>5. QED  BY <1>2, <2>4
<1>4. CASE ~CurrentEnds
  <2>1. answer' = answer
    BY <1>2, <1>4 DEF SupersessionNext, supersession, CycleFound, CycleWalk, CycleLeft, CurrentFollows,
                      HistoryFinds, HistorySkips, HistoryReturns, HistoryEnds
  <2>2. QED  BY <1>2, <2>1
<1>5. QED  BY <1>3, <1>4

(* Every walk is at a claim of the model or at none, and what it answers   *)
(* with are claims of it, over models with whatever in them.               *)
THEOREM SupersessionTypes == ASSUME SupersessionConstants PROVE SupersessionSpec => []SupersessionTypeOK
<1>1. SupersessionInit => CurrentTyped
  BY DEF SupersessionInit, CurrentTyped
<1>2. WalkInv /\ CurrentTyped => SupersessionTypeOK
  <2> SUFFICES ASSUME WalkInv, CurrentTyped PROVE SupersessionTypeOK
    OBVIOUS
  <2>1. GivenInv /\ work \in Works
    BY DEF WalkInv, WorkInv
  <2>2. given \in [claims : Seq(Claims), ask : Asked, of : Nat] /\ given.of \in Order
    BY <2>1 DEF GivenInv
  <2>3. answer \in IF given.ask = "cycles" THEN Seq(Seq(Order)) ELSE Seq(Order)
    <3>1. given.ask \in {"cycles", "current", "history"}
      BY <2>2 DEF Asked
    <3>2. CASE given.ask = "cycles"  BY <3>2 DEF WalkInv, CycleInv
    <3>3. CASE given.ask = "current"  BY <3>3 DEF CurrentTyped
    <3>4. CASE given.ask = "history"  BY <3>4 DEF WalkInv, HistoryInv
    <3>5. QED  BY <3>1, <3>2, <3>3, <3>4
  <2>4. QED  BY <2>1, <2>2, <2>3 DEF SupersessionTypeOK, Works, Paths, Calls
<1>3. QED  BY WalkInvariant, <1>1, <1>2, CurrentTypedNext, PTL DEF SupersessionSpec

(* Claims.Current (supersede.go:92) hands back an asserted claim only where *)
(* replacements lead to it, and nothing only where they lead to none, over *)
(* any model, with any cycles and any ids which are not there.             *)
THEOREM CurrentIsRight == ASSUME SupersessionConstants PROVE SupersessionSpec => []CurrentIsWhereItLeads
<1>1. WorkInv /\ CurrentInv => CurrentIsWhereItLeads
  BY DEF CurrentInv, CurrentIsWhereItLeads
<1>2. QED  BY WalkInvariant, <1>1, PTL DEF WalkInv

(* A claim of a model whose retractions the load reported nothing of       *)
(* (checkRetraction, supersede.go:283) has a current claim.                *)
THEOREM LoadedIsAnswered == ASSUME SupersessionConstants PROVE SupersessionSpec => []LoadedClaimsHaveACurrent
<1>1. WorkInv /\ CurrentInv => LoadedClaimsHaveACurrent
  BY DEF CurrentInv, LoadedClaimsHaveACurrent
<1>2. QED  BY WalkInvariant, <1>1, PTL DEF WalkInv

(* Claims.History (supersede.go:133) is everything which leads to a claim, *)
(* each once, whatever cycles there are.                                   *)
THEOREM HistoryIsRight == ASSUME SupersessionConstants PROVE SupersessionSpec => []HistoryIsWhatLedHere
<1>1. WorkInv /\ HistoryInv => HistoryIsWhatLedHere
  BY HistoryFound
<1>2. QED  BY WalkInvariant, <1>1, PTL DEF WalkInv

(* What the load's walk reports (claimLoader.cycles, supersede.go:344) is every *)
(* cycle of replacements of more than one claim, once, from the claim of   *)
(* it which was written first and in the order it goes round.              *)
THEOREM CyclesAreReported == ASSUME SupersessionConstants PROVE SupersessionSpec => []EveryCycleIsReported
<1>1. WorkInv /\ CycleInv => EveryCycleIsReported
  BY CyclesFound
<1>2. QED  BY WalkInvariant, <1>1, PTL DEF WalkInv

-----------------------------------------------------------------------------
(* What answers a question.  The claims are typed. *)
ClaimsInv == claims \in Seq(Evidence) /\ Len(claims) <= MaxClaims

LEMMA ClaimsInit == ResolutionConstants /\ ResolutionInit => ClaimsInv
<1> SUFFICES ASSUME ResolutionConstants, ResolutionInit PROVE ClaimsInv
  OBVIOUS
<1>1. claims = <<>> /\ MaxClaims \in Nat
  BY DEF ResolutionInit, ResolutionConstants
<1>2. Len(<<>>) = 0 /\ <<>> \in Seq(Evidence)
  OBVIOUS
<1>3. QED  BY <1>1, <1>2 DEF ClaimsInv

LEMMA ClaimsNext == ResolutionConstants /\ ClaimsInv /\ [ResolutionNext]_claims => ClaimsInv'
<1> SUFFICES ASSUME ResolutionConstants, ClaimsInv, [ResolutionNext]_claims PROVE ClaimsInv'
  OBVIOUS
<1>0. claims \in Seq(Evidence) /\ Len(claims) \in Nat /\ MaxClaims \in Nat
  BY DEF ClaimsInv, ResolutionConstants
<1>1. CASE Record
  <2>1. PICK c \in Evidence : claims' = Append(claims, c)
    BY <1>1 DEF Record
  <2>2. Len(claims) < MaxClaims
    BY <1>1 DEF Record
  <2>3. QED  BY <2>1, <2>2, <1>0 DEF ClaimsInv
<1>2. CASE Retract
  <2>1. PICK c \in DOMAIN claims : claims' = [claims EXCEPT ![c].live = FALSE]
    BY <1>2 DEF Retract
  <2>2. claims[c] \in Evidence
    BY <1>0
  <2>3. [claims[c] EXCEPT !.live = FALSE] \in Evidence
    BY <2>2 DEF Evidence
  <2>4. QED  BY <2>1, <2>3, <1>0 DEF ClaimsInv
<1>3. CASE UNCHANGED claims
  BY <1>3 DEF ClaimsInv
<1>4. QED  BY <1>1, <1>2, <1>3 DEF ResolutionNext

LEMMA ClaimsInvariant == ASSUME ResolutionConstants PROVE ResolutionSpec => []ClaimsInv
BY ClaimsInit, ClaimsNext, PTL DEF ResolutionSpec
-----------------------------------------------------------------------------
(* A claim's fields. *)
LEMMA ClaimFields ==
    ASSUME ResolutionConstants, ClaimsInv, NEW c \in DOMAIN claims
    PROVE  /\ claims[c] \in Evidence
           /\ claims[c].figure \in Nat /\ claims[c].date \in Nat
<1>1. claims[c] \in Evidence
  BY DEF ClaimsInv
<1>2. claims[c].figure \in Figures /\ claims[c].date \in Dates
  BY <1>1 DEF Evidence
<1>3. QED  BY <1>1, <1>2 DEF ResolutionConstants

(* The claims which are live, and what is narrowed from them, are finite.  *)
LEMMA LiveIsFinite ==
    ASSUME ClaimsInv, NEW s \in SUBSET DOMAIN claims
    PROVE  IsFiniteSet(s) /\ Cardinality(s) \in Nat
<1>1. DOMAIN claims = 1..Len(claims) /\ Len(claims) \in Int
  BY DEF ClaimsInv
<1>2. IsFiniteSet(DOMAIN claims)
  BY <1>1, FS_Interval
<1>3. QED  BY <1>2, FS_Subset, FS_CardinalityType

(* One claim, or more. *)
LEMMA OneOrMore ==
    ASSUME ClaimsInv, NEW s \in SUBSET DOMAIN claims
    PROVE  /\ Cardinality(s) = 1 <=> \E c \in s : s = {c}
           /\ Cardinality(s) > 1 <=> \E c, d \in s : c # d
<1>1. IsFiniteSet(s) /\ Cardinality(s) \in Nat
  BY LiveIsFinite
<1>2. Cardinality(s) = 1 <=> \E c \in s : s = {c}
  BY <1>1, FS_Singleton
<1>3. Cardinality(s) = 0 <=> s = {}
  BY <1>1, FS_EmptySet
<1>4. QED  BY <1>1, <1>2, <1>3

(* Some claim of a question's is the most accurate in its unit. *)
LEMMA SomeSmallest ==
    ASSUME ResolutionConstants, ClaimsInv, NEW r \in SUBSET DOMAIN claims, NEW d \in r
    PROVE  \E e \in Smallest(r) : claims[e].unit = claims[d].unit
<1> DEFINE figures == {claims[e].figure : e \in {x \in r : claims[x].unit = claims[d].unit}}
<1>1. figures \subseteq Nat /\ figures # {}
  BY ClaimFields
<1>2. PICK least \in figures : \A y \in figures : ~(<<y, least>> \in OpToRel(<, Nat))
  <2>1. IsWellFoundedOn(OpToRel(<, Nat), Nat)
    BY NatLessThanWellFounded
  <2> HIDE DEF figures
  <2>2. QED  BY <1>1, <2>1, WFMin
<1>3. \A y \in figures : ~(y < least)
  BY <1>1, <1>2 DEF OpToRel
<1>4. PICK e \in r : claims[e].unit = claims[d].unit /\ claims[e].figure = least
  OBVIOUS
<1>5. e \in Smallest(r)
  BY <1>3, <1>4 DEF Smallest
<1>6. QED  BY <1>4, <1>5

LEMMA LiveIn == \A q : Live(q) \subseteq DOMAIN claims
BY DEF Live

(* Of a question nothing is asserted about, nothing answers; of the others *)
(* what does is all Narrow left, where it left one and decided.            *)
LEMMA ResolvedIs ==
    ASSUME ClaimsInv, NEW q \in Questions, NEW c \in Live(q)
    PROVE  c \in Resolved(q) <=> /\ Decided(Narrow(Live(q)).reason)
                                 /\ Narrow(Live(q)).candidates = {c}
<1> DEFINE n == Narrow(Live(q))
<1>1. Resolved(q) = IF Decided(n.reason) /\ Cardinality(n.candidates) = 1
                    THEN n.candidates ELSE {}
  BY DEF Resolved, ResolutionOf
<1>2. n.candidates \subseteq DOMAIN claims
  BY DEF Narrow, Live, Rankable, Smallest, MostRecent
<1>3. Cardinality(n.candidates) = 1 <=> \E d \in n.candidates : n.candidates = {d}
  BY <1>2, OneOrMore
<1>4. QED  BY <1>1, <1>3

(* What a claim which answers beats. *)
LEMMA ResolvedBeats ==
    ASSUME ResolutionConstants, ClaimsInv, NEW q \in Questions, NEW c \in Live(q),
           c \in Resolved(q)
    PROVE  /\ c \in Rankable(Live(q))
           /\ \A d \in Rankable(Live(q)) \ {c} : Better(c, d)
<1> DEFINE r == Rankable(Live(q))
           u == Smallest(r)
           m == MostRecent(u)
<1>1. r \subseteq DOMAIN claims /\ u \subseteq r /\ m \subseteq u
  BY DEF Rankable, Smallest, MostRecent, Live
<1>2. r # {} /\ ~MixedUnits(u) /\ m = {c}
  <2>1. Decided(Narrow(Live(q)).reason) /\ Narrow(Live(q)).candidates = {c}
    BY ResolvedIs
  <2>2. r # {} /\ ~MixedUnits(u) /\ ~(Cardinality(m) > 1)
    BY <2>1 DEF Narrow, Decided
  <2>3. QED  BY <2>1, <2>2 DEF Narrow
<1>3. ASSUME NEW d \in r, d # c PROVE Better(c, d)
  <2>1. c \in u /\ c \in r
    BY <1>1, <1>2
  <2>2. PICK e \in u : claims[e].unit = claims[d].unit
    BY <1>1, SomeSmallest
  <2>3. claims[c].unit = claims[d].unit
    BY <2>1, <2>2, <1>2 DEF MixedUnits
  <2>4. /\ claims[c].figure \in Nat /\ claims[d].figure \in Nat
        /\ claims[c].date \in Nat /\ claims[d].date \in Nat
    BY <1>1, <2>1, ClaimFields
  <2>5. ~(claims[d].figure < claims[c].figure)
    BY <2>1, <2>3 DEF Smallest
  <2>6. CASE claims[c].figure < claims[d].figure
    BY <2>3, <2>6 DEF Better
  <2>7. CASE claims[c].figure = claims[d].figure
    <3>1. d \in u
      BY <2>1, <2>3, <2>7 DEF Smallest
    <3>2. claims[d].date <= claims[c].date
      BY <1>2, <3>1 DEF MostRecent
    <3>3. claims[d].date # claims[c].date
      BY <1>2, <3>1, <1>3 DEF MostRecent
    <3>4. QED  BY <3>2, <3>3, <2>3, <2>4, <2>7 DEF Better
  <2>8. QED  BY <2>4, <2>5, <2>6, <2>7
<1>4. QED  BY <1>1, <1>2, <1>3

(* What beats every other which can be compared answers. *)
LEMMA BeatingAnswers ==
    ASSUME ResolutionConstants, ClaimsInv, NEW q \in Questions, NEW c \in Live(q),
           c \in Rankable(Live(q)), \A d \in Rankable(Live(q)) \ {c} : Better(c, d)
    PROVE  c \in Resolved(q)
<1> DEFINE r == Rankable(Live(q))
           u == Smallest(r)
           m == MostRecent(u)
<1>1. r \subseteq DOMAIN claims /\ u \subseteq r /\ m \subseteq u
  BY DEF Rankable, Smallest, MostRecent, Live
<1>2. \A d \in r : /\ claims[d].unit = claims[c].unit
                   /\ claims[d].figure \in Nat /\ claims[d].date \in Nat
  BY <1>1, ClaimFields DEF Better
<1>3. c \in u
  BY <1>2 DEF Smallest, Better
<1>4. ~MixedUnits(u)
  BY <1>1, <1>2 DEF MixedUnits
<1>5. \A d \in u \ {c} : claims[c].date > claims[d].date
  BY <1>1, <1>2, <1>3 DEF Smallest, Better
<1>6. m = {c}
  <2>1. c \in m
    BY <1>1, <1>2, <1>3, <1>5 DEF MostRecent
  <2>2. \A d \in m : d = c
    <3> SUFFICES ASSUME NEW d \in m, d # c PROVE FALSE
      OBVIOUS
    <3>1. d \in u /\ claims[c].date <= claims[d].date
      BY <1>3 DEF MostRecent
    <3>2. QED  BY <3>1, <1>1, <1>2, <1>5
  <2>3. QED  BY <2>1, <2>2
<1>7. ~(Cardinality(m) > 1)
  BY <1>1, <1>6, OneOrMore
<1>8. Decided(Narrow(Live(q)).reason) /\ Narrow(Live(q)).candidates = {c}
  <2>1. r # {}
    OBVIOUS
  <2>2. Narrow(Live(q)) =
          [candidates |-> m, reason |-> CASE Cardinality(Live(q)) = 1 -> "only"
                                          [] Cardinality(Live(q)) # 1 /\ Cardinality(u) > 1 -> "recency"
                                          [] OTHER -> "accuracy"]
    BY <2>1, <1>4, <1>7 DEF Narrow
  <2>3. QED  BY <2>2, <1>6 DEF Decided
<1>9. QED  BY <1>8, ResolvedIs

LEMMA BestAnswers == ResolutionConstants /\ ClaimsInv => TheBestAnswers
BY ResolvedBeats, BeatingAnswers DEF TheBestAnswers

LEMMA EveryDispute == ResolutionConstants /\ ClaimsInv => EveryDisputeIsRegistered
<1> SUFFICES ASSUME ResolutionConstants, ClaimsInv, NEW q \in Questions
             PROVE  LET entry == {e \in Register : e.of = q}
                    IN  /\ Cardinality(entry) <= 1
                        /\ \A e \in entry : e.claims = Live(q) /\ e.resolution.claim = Resolved(q)
                        /\ (\E c, d \in Live(q) : c # d) => entry # {}
                        /\ Refused(q) => entry # {}
                        /\ entry = {} => \A c \in Rankable(Live(q)) : Resolved(q) = {c}
  BY DEF EveryDisputeIsRegistered
<1> DEFINE mine == [of |-> q, claims |-> Live(q), resolution |-> ResolutionOf(Live(q))]
           entry == {e \in Register : e.of = q}
<1>1. entry = IF Cardinality(Live(q)) > 1 THEN {mine} ELSE {}
  <2>1. ASSUME NEW e \in entry PROVE Cardinality(Live(q)) > 1 /\ e = mine
    <3>1. PICK p \in Questions :
            /\ Cardinality(Live(p)) > 1
            /\ e = [of |-> p, claims |-> Live(p), resolution |-> ResolutionOf(Live(p))]
      BY DEF Register
    <3>2. e.of = p /\ e.of = q
      BY <3>1
    <3>3. QED  BY <3>1, <3>2
  <2>2. Cardinality(Live(q)) > 1 => mine \in entry
    BY DEF Register
  <2>3. QED
    <3> HIDE DEF mine, entry
    <3>1. QED  BY <2>1, <2>2
<1>2. Cardinality(entry) <= 1
  <2> HIDE DEF mine, entry
  <2>1. Cardinality({mine}) = 1 /\ Cardinality({}) = 0
    BY FS_Singleton, FS_EmptySet
  <2>2. QED  BY <1>1, <2>1
<1>3. \A e \in entry : e.claims = Live(q) /\ e.resolution.claim = Resolved(q)
  BY <1>1 DEF Resolved
<1>4. Live(q) \subseteq DOMAIN claims
  BY LiveIn
<1>5. (\E c, d \in Live(q) : c # d) <=> entry # {}
  <2>1. Cardinality(Live(q)) > 1 <=> \E c, d \in Live(q) : c # d
    BY <1>4, OneOrMore
  <2>2. QED  BY <1>1, <2>1
<1>6. Refused(q) => entry # {}
  <2> SUFFICES ASSUME Refused(q) PROVE \E c, d \in Live(q) : c # d
    BY <1>5
  <2>1. Live(q) # {} /\ Cardinality(Narrow(Live(q)).candidates) > 1
    <3>1. Cardinality(ResolutionOf(Live(q)).candidates) > 1
      BY DEF Refused, Ambiguous
    <3>2. ~(Cardinality({}) > 1)
      BY FS_EmptySet
    <3>3. QED  BY <3>1, <3>2 DEF ResolutionOf
  <2>2. Narrow(Live(q)).candidates \subseteq Live(q)
    BY DEF Narrow, Rankable, Smallest, MostRecent
  <2>3. QED  BY <2>1, <2>2, <1>4, OneOrMore
<1>p. Resolved(q) \subseteq Live(q)
  BY DEF Resolved, ResolutionOf, Narrow, Rankable, Smallest, MostRecent
<1>7. ASSUME entry = {}, NEW c \in Rankable(Live(q)) PROVE Resolved(q) = {c}
  <2>1. c \in Live(q) /\ Live(q) = {c} /\ Rankable(Live(q)) = {c}
    BY <1>5, <1>7 DEF Rankable
  <2>2. c \in Resolved(q)
    BY <2>1, BeatingAnswers
  <2>3. QED  BY <2>1, <2>2, <1>p
<1>8. QED  BY <1>2, <1>3, <1>5, <1>6, <1>7

-----------------------------------------------------------------------------
(* A claim which was there says after a step what it said before it, but   *)
(* whether it is asserted; and what is asserted after it was before.       *)
LEMMA StepKeeps ==
    ASSUME ClaimsInv, [ResolutionNext]_claims
    PROVE  /\ DOMAIN claims \subseteq DOMAIN claims'
           /\ \A c \in DOMAIN claims :
                 /\ claims'[c].of = claims[c].of /\ claims'[c].unit = claims[c].unit
                 /\ claims'[c].figure = claims[c].figure /\ claims'[c].date = claims[c].date
                 /\ claims'[c].live => claims[c].live
<1>0. claims \in Seq(Evidence)
  BY DEF ClaimsInv
<1>1. CASE Record
  <2>1. PICK c \in Evidence : claims' = Append(claims, c)
    BY <1>1 DEF Record
  <2>2. QED  BY <2>1, <1>0
<1>2. CASE Retract
  <2>1. PICK c \in DOMAIN claims : claims' = [claims EXCEPT ![c].live = FALSE] /\ claims[c].live
    BY <1>2 DEF Retract
  <2>2. claims[c] \in Evidence
    BY <1>0
  <2>3. /\ DOMAIN claims' = DOMAIN claims
        /\ claims'[c] = [claims[c] EXCEPT !.live = FALSE]
        /\ \A d \in DOMAIN claims \ {c} : claims'[d] = claims[d]
    BY <2>1
  <2>4. /\ claims'[c].of = claims[c].of /\ claims'[c].unit = claims[c].unit
        /\ claims'[c].figure = claims[c].figure /\ claims'[c].date = claims[c].date
    BY <2>2, <2>3 DEF Evidence
  <2>5. QED  BY <2>1, <2>3, <2>4
<1>3. CASE UNCHANGED claims
  BY <1>3
<1>4. QED  BY <1>1, <1>2, <1>3 DEF ResolutionNext

LEMMA AnswersKeep ==
    ResolutionConstants /\ ClaimsInv /\ ClaimsInv' /\ [ResolutionNext]_claims => AnswersStep
<1> SUFFICES ASSUME ResolutionConstants, ClaimsInv, ClaimsInv', [ResolutionNext]_claims,
                    NEW q \in Questions, NEW c \in Resolved(q),
                    c \in Live(q)',
                    ~ \E d \in Live(q)' \ DOMAIN claims :
                         claims'[d].unit # Unrankable /\ ~Better(c, d)'
             PROVE  c \in Resolved(q)'
  BY DEF AnswersStep
<1>1. c \in Live(q) /\ c \in DOMAIN claims
  BY DEF Resolved, ResolutionOf, Narrow, Rankable, Smallest, MostRecent, Live
<1>2. c \in Rankable(Live(q)) /\ \A d \in Rankable(Live(q)) \ {c} : Better(c, d)
  BY <1>1, ResolvedBeats
<1>3. c \in Rankable(Live(q))'
  BY <1>1, <1>2, StepKeeps DEF Rankable
<1>4. ASSUME NEW d \in Rankable(Live(q))' \ {c} PROVE Better(c, d)'
  <2>1. d \in Live(q)' /\ claims'[d].unit # Unrankable
    BY DEF Rankable
  <2>2. CASE d \in DOMAIN claims
    <3>1. d \in Rankable(Live(q))
      BY <2>1, <2>2, StepKeeps DEF Rankable, Live
    <3>2. Better(c, d)
      BY <3>1, <1>2
    <3>3. QED  BY <3>2, <2>2, <1>1, StepKeeps DEF Better
  <2>3. CASE d \notin DOMAIN claims
    BY <2>1, <2>3
  <2>4. QED  BY <2>2, <2>3
<1>5. QED
  <2>1. (ResolutionConstants /\ ClaimsInv => TheBestAnswers)'
    BY BestAnswers, PTL
  <2>2. TheBestAnswers'
    BY <2>1 DEF ResolutionConstants
  <2>3. QED  BY <2>2, <1>3, <1>4 DEF TheBestAnswers

-----------------------------------------------------------------------------
(* Resolve (resolve.go:238) answers a question with the one claim which is *)
(* better than every other it can be compared with, and with none where    *)
(* there is no such claim: no tie, and no figure in another unit, is       *)
(* settled by the order the claims were written in.                        *)
THEOREM ResolveIsRight == ASSUME ResolutionConstants PROVE ResolutionSpec => []TheBestAnswers
BY ClaimsInvariant, BestAnswers, PTL

(* The register of conflicts (conflict.go:132) holds every question more   *)
(* than one claim answers, and no question Resolve leaves open for want of *)
(* comparing is missing from it.                                           *)
THEOREM DisputesAreRegistered == ASSUME ResolutionConstants PROVE ResolutionSpec => []EveryDisputeIsRegistered
BY ClaimsInvariant, EveryDispute, PTL

(* An answer stands until it is retracted, or a claim is recorded which it *)
(* is not better than.                                                     *)
THEOREM AnswersStand == ASSUME ResolutionConstants PROVE ResolutionSpec => AnswersChangeForCause
<1>1. ResolutionConstants /\ ClaimsInv /\ ClaimsInv' /\ [ResolutionNext]_claims => [AnswersStep]_claims
  BY AnswersKeep
<1>2. QED  BY ClaimsInvariant, <1>1, PTL DEF ResolutionSpec, AnswersChangeForCause

(* What answers a question is asserted and about it, and for a reason the  *)
(* code knows.                                                             *)
THEOREM ResolutionTypes == ASSUME ResolutionConstants PROVE ResolutionSpec => []ResolutionTypeOK
<1>1. ASSUME NEW live PROVE /\ ResolutionOf(live).claim \subseteq live
                            /\ ResolutionOf(live).reason \in Reasons
  <2>1. CASE live = {}
    BY <2>1 DEF ResolutionOf, Reasons
  <2>2. CASE live # {}
    <3>1. PICK n : n = Narrow(live)
      OBVIOUS
    <3>2. n.candidates \subseteq live /\ n.reason \in Reasons
      <4> DEFINE recent == MostRecent(Smallest(Rankable(live)))
      <4>1. Smallest(Rankable(live)) \subseteq live /\ recent \subseteq live
        BY DEF Rankable, Smallest, MostRecent
      <4> HIDE DEF recent
      <4>2. \E cs \in {live, Smallest(Rankable(live)), recent}, why \in Reasons :
                n = [candidates |-> cs, reason |-> why]
        BY <3>1 DEF Narrow, Reasons, recent
      <4>3. QED  BY <4>1, <4>2
    <3>3. /\ ResolutionOf(live).claim = IF Decided(n.reason) /\ Cardinality(n.candidates) = 1
                                        THEN n.candidates ELSE {}
          /\ ResolutionOf(live).reason = n.reason
      BY <2>2, <3>1 DEF ResolutionOf
    <3>4. QED  BY <3>2, <3>3
  <2>3. QED  BY <2>1, <2>2
<1>2. ClaimsInv => ResolutionTypeOK
  BY <1>1 DEF ClaimsInv, ResolutionTypeOK, Resolved
<1>3. QED  BY ClaimsInvariant, <1>2, PTL
=============================================================================
