------------------------------ MODULE MCReview ------------------------------
(* A wall between two corners, one of which was measured, by a claim which *)
(* wrote no id, under the policy the program begins with.                  *)
EXTENDS Review, TLC

NoneWritten == "none"
Measurement(id, value) ==
    [id |-> id, subject |-> "v", predicate |-> "position", print |-> 1, value |-> value,
     rank |-> "normal", by |-> NoReviewId]
Wall(claims) ==
    [held |-> [e \in {"n", "v", "w"} |-> "live"], corners |-> [n \in {"n"} |-> <<"v", "w">>],
     claims |-> claims]

MCNodes == {"n"}
MCVertices == {"v", "w"}
MCPredicates == {"position"}
MCNames == {"a"}
MCRevisions == {Wall(<<Measurement(NoReviewId, 1)>>)}
MCPolicies ==
    {("boundary-moved-without-claim" :> "warning")
     @@ ("claim-deprecated-without-replacement" :> "failure")
     @@ ("id-disappeared-without-supersession" :> "failure")}
=============================================================================
