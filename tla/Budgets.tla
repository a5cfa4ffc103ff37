------------------------------ MODULE Budgets -------------------------------
(***************************************************************************)
(* The accuracy budget of a computed answer (budget.go): the error of each *)
(* claim read along the way, each error once however often it was read.    *)
(* Magnitudes are naturals and what is combined is left squared, so no     *)
(* rounding is modelled.                                                   *)
(***************************************************************************)
EXTENDS Naturals, Sequences, FiniteSets, SequencesExt

CONSTANTS Claim,     \* claims, by the id they wrote
          Terms,     \* [Claim -> Seq(Term)]: its usable accuracy, or none
          Sources,   \* the ids systematic terms name
          NoSource,  \* an independent term, or a systematic one naming none
          Unit,
          Magnitudes

Term == [kind : {"independent", "systematic"}, source : Sources \cup {NoSource},
         unit : Unit, magnitude : Magnitudes]

(* What the constants have to be. *)
BudgetConstants ==
    /\ NoSource \notin Sources /\ Magnitudes \subseteq Nat
    /\ Terms \in [Claim -> Seq(Term)]

(* A term of a budget also says which claims contributed to it. *)
BudgetTerm ==
    [kind : {"independent", "systematic"}, source : Sources \cup {NoSource},
     unit : Unit, magnitude : Magnitudes, contributors : SUBSET Claim]
Budget == [terms : Seq(BudgetTerm), inputs : Seq(Claim), unknown : Seq(Claim)]
Empty == [terms |-> <<>>, inputs |-> <<>>, unknown |-> <<>>]

(* The place of the systematic term of a budget a term is the same as: it  *)
(* names the same source, in the same unit.                                *)
SameTerm(terms, term) ==
    {i \in DOMAIN terms : /\ term.kind = "systematic" /\ term.source # NoSource
                          /\ terms[i].kind = "systematic"
                          /\ terms[i].source = term.source /\ terms[i].unit = term.unit}
NewTerm(claim, term) ==
    [kind |-> term.kind, source |-> term.source, unit |-> term.unit,
     magnitude |-> term.magnitude, contributors |-> {claim}]

(* Mutant: a shared term keeps the magnitude it was first met with. *)
ContributeFirst(claim, terms, term) ==
    IF SameTerm(terms, term) = {} THEN Append(terms, NewTerm(claim, term))
    ELSE [i \in DOMAIN terms |-> IF i \in SameTerm(terms, term)
             THEN [terms[i] EXCEPT !.contributors = @ \cup {claim}] ELSE terms[i]]
Contribute(claim, terms, term) ==
    IF SameTerm(terms, term) = {} THEN Append(terms, NewTerm(claim, term))
    ELSE [i \in DOMAIN terms |-> IF i \in SameTerm(terms, term)
             THEN [terms[i] EXCEPT !.contributors = @ \cup {claim},
                                   !.magnitude = IF term.magnitude > @ THEN term.magnitude ELSE @]
             ELSE terms[i]]

(* Reading a claim again adds nothing. *)
Added(budget, claim) ==
    IF claim \in ToSet(budget.inputs) THEN budget
    ELSE [terms |-> FoldLeft(LAMBDA terms, term : Contribute(claim, terms, term),
                             budget.terms, Terms[claim]),
          inputs |-> Append(budget.inputs, claim),
          unknown |-> IF Terms[claim] = <<>> THEN Append(budget.unknown, claim) ELSE budget.unknown]
AddedAll(budget, claims) == FoldLeft(Added, budget, claims)
Merged(budget, other) == AddedAll(budget, other.inputs)

(* Independent terms join in quadrature, systematic ones add up, and the   *)
(* two join in quadrature.                                                 *)
Squares(terms) ==
    FoldLeft(LAMBDA sum, term :
                (IF term.kind = "independent" THEN term.magnitude * term.magnitude ELSE 0) + sum,
             0, terms)
Shared(terms) ==
    FoldLeft(LAMBDA sum, term : (IF term.kind = "systematic" THEN term.magnitude ELSE 0) + sum,
             0, terms)
Usable(budget) ==
    IF budget.unknown # <<>> THEN "unknown"
    ELSE IF budget.terms = <<>> THEN "empty"
    ELSE IF \E t, u \in ToSet(budget.terms) : t.unit # u.unit THEN "mixed"
    ELSE "known"
Combined(budget) ==
    [why |-> Usable(budget),
     squared |-> IF Usable(budget) # "known" THEN 0
                 ELSE Squares(budget.terms) + Shared(budget.terms) * Shared(budget.terms)]
=============================================================================
