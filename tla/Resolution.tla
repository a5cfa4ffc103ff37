----------------------------- MODULE Resolution -----------------------------
(***************************************************************************)
(* Which claim answers a question, and which questions are disputed        *)
(* (resolve.go, conflict.go), as claims are recorded and retracted.        *)
(*                                                                         *)
(* A question is a subject and a predicate.  What is known of a claim's    *)
(* accuracy is the figure and the unit it combines to (Budgets), and how   *)
(* figures compare is all that matters of them here: Unrankable stands for *)
(* a claim which states none or whose terms are in several units.          *)
(***************************************************************************)
EXTENDS Naturals, Sequences, FiniteSets

CONSTANTS Questions,   \* pairs of a subject and a predicate
          Strict,      \* those under a predicate which tolerates no tie
          Figures,     \* combined magnitudes
          Units, Dates,
          Unrankable,
          MaxClaims    \* bound: claims recorded

(* What the constants have to be. *)
ResolutionConstants ==
    /\ Strict \subseteq Questions
    /\ Figures \subseteq Nat /\ Dates \subseteq Nat
    /\ Unrankable \notin Units
    /\ MaxClaims \in Nat

Evidence == [of : Questions, live : BOOLEAN, unit : Units \cup {Unrankable},
           figure : Figures, date : Dates]

VARIABLES claims   \* Seq(Evidence), in the order they were written

Reasons == {"unclaimed", "only", "accuracy", "recency", "unranked", "ambiguous"}
-----------------------------------------------------------------------------
(* The claims still asserted which answer a question. *)
Live(q) == {c \in DOMAIN claims : claims[c].of = q /\ claims[c].live}
(* Mutant: a claim which states no accuracy competes with the others. *)
RankableAll(live) == live
Rankable(live) == {c \in live : claims[c].unit # Unrankable}

(* Mutant: figures are compared across units. *)
SmallestOfAll(rankable) ==
    {c \in rankable : ~ \E d \in rankable : claims[d].figure < claims[c].figure}
(* Those no other of the same unit beats. *)
Smallest(rankable) ==
    {c \in rankable : ~ \E d \in rankable : /\ claims[d].unit = claims[c].unit
                                            /\ claims[d].figure < claims[c].figure}
MixedUnits(cs) == \E c, d \in cs : claims[c].unit # claims[d].unit
MostRecent(cs) == {c \in cs : \A d \in cs : claims[d].date <= claims[c].date}

(* The claims left to choose from, and why. *)
Narrow(live) ==
    LET rankable == Rankable(live)
        unbeaten == Smallest(rankable)
        recent == MostRecent(unbeaten)
        Left(cs, why) == [candidates |-> cs, reason |-> why]
    IN  CASE rankable = {} -> Left(live, IF Cardinality(live) = 1 THEN "unranked" ELSE "ambiguous")
          [] rankable # {} /\ MixedUnits(unbeaten) -> Left(unbeaten, "ambiguous")
          [] rankable # {} /\ ~MixedUnits(unbeaten) /\ Cardinality(recent) > 1 ->
                Left(recent, "ambiguous")
          [] OTHER -> Left(recent, CASE Cardinality(live) = 1 -> "only"
                                     [] Cardinality(live) # 1 /\ Cardinality(unbeaten) > 1 -> "recency"
                                     [] OTHER -> "accuracy")

Decided(reason) == reason \in {"only", "accuracy", "recency"}
(* What answers a question: claim is the set of the one claim which does,  *)
(* or of none.                                                             *)
ResolutionOf(live) ==
    IF live = {} THEN [claim |-> {}, candidates |-> {}, reason |-> "unclaimed"]
    ELSE LET n == Narrow(live)
         IN  [claim |-> IF Decided(n.reason) /\ Cardinality(n.candidates) = 1
                        THEN n.candidates ELSE {},
              candidates |-> n.candidates, reason |-> n.reason]
Resolved(q) == ResolutionOf(Live(q)).claim
Ambiguous(r) == r.claim = {} /\ Cardinality(r.candidates) > 1
(* Resolve hands an error back beside the resolution. *)
Refused(q) == Ambiguous(ResolutionOf(Live(q))) /\ q \in Strict

(* Mutant: only what stays unresolved is registered. *)
RegisterUnresolved ==
    {[of |-> q, claims |-> Live(q), resolution |-> ResolutionOf(Live(q))] :
        q \in {p \in Questions : Cardinality(Live(p)) > 1 /\ Resolved(p) = {}}}
(* The register of conflicts: every question with competing claims. *)
Register ==
    {[of |-> q, claims |-> Live(q), resolution |-> ResolutionOf(Live(q))] :
        q \in {p \in Questions : Cardinality(Live(p)) > 1}}
-----------------------------------------------------------------------------
ResolutionInit == claims = <<>>
Record ==
    /\ Len(claims) < MaxClaims
    /\ \E c \in Evidence : c.live /\ claims' = Append(claims, c)
Retract ==
    \E c \in DOMAIN claims : claims[c].live /\ claims' = [claims EXCEPT ![c].live = FALSE]
ResolutionNext == Record \/ Retract
ResolutionSpec == ResolutionInit /\ [][ResolutionNext]_claims
-----------------------------------------------------------------------------
ResolutionTypeOK ==
    /\ claims \in Seq(Evidence) /\ Len(claims) <= MaxClaims
    /\ \A q \in Questions : /\ Resolved(q) \subseteq Live(q)
                            /\ ResolutionOf(Live(q)).reason \in Reasons

(* c is better evidence than d: more accurate, or as accurate and later. *)
Better(c, d) ==
    /\ claims[c].unit = claims[d].unit
    /\ \/ claims[c].figure < claims[d].figure
       \/ claims[c].figure = claims[d].figure /\ claims[c].date > claims[d].date

(* A claim answers a question exactly where it is better than every other  *)
(* which can be compared, and every other can: neither two figures in two  *)
(* units nor a tie is ever settled by the order claims were written in.    *)
TheBestAnswers ==
    \A q \in Questions : \A c \in Live(q) :
        c \in Resolved(q) <=> /\ c \in Rankable(Live(q))
                              /\ \A d \in Rankable(Live(q)) \ {c} : Better(c, d)

(* A question two claims answer is registered, with what Resolve answers;  *)
(* and where Resolve answers nothing of a question something is asserted   *)
(* about, it is registered too, or holds the one claim nobody can rank.    *)
EveryDisputeIsRegistered ==
    \A q \in Questions :
        LET entry == {e \in Register : e.of = q}
        IN  /\ Cardinality(entry) <= 1
            /\ \A e \in entry : e.claims = Live(q) /\ e.resolution.claim = Resolved(q)
            /\ (\E c, d \in Live(q) : c # d) => entry # {}
            /\ Refused(q) => entry # {}
            /\ entry = {} => \A c \in Rankable(Live(q)) : Resolved(q) = {c}

(* What answers a question answers it until it is retracted or evidence    *)
(* arrives which is not worse: recording what nobody can rank, and         *)
(* retracting what did not answer, change no answer.                       *)
AnswersStep ==
    \A q \in Questions : \A c \in Resolved(q) :
        \/ c \in Resolved(q)'
        \/ c \notin Live(q)'
        \/ \E d \in Live(q)' \ DOMAIN claims :
              claims'[d].unit # Unrankable /\ ~Better(c, d)'
AnswersChangeForCause == [][AnswersStep]_claims
=============================================================================
