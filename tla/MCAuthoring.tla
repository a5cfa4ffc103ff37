---------------------------- MODULE MCAuthoring -----------------------------
(* A few things, a frame and one predicate, from two models: one nothing   *)
(* was corrected in, and one with a correction and a retirement behind it. *)
EXTENDS AuthoringLedger

CONSTANTS A, B, C, E, N, F

MCNames == {A, B, C, E}
MCChosen == {N, <<A, "at", 1>>}
MCPredicates == {"at"}

LOCAL Node == [Blank EXCEPT !.tag = "node"]
LOCAL Edge == [Blank EXCEPT !.tag = "edge"]
LOCAL Claim(id, by) == [id |-> id, pred |-> "at", by |-> by]
LOCAL Fit == [Blank EXCEPT !.tag = "frame", !.transform = <<F, "at", 1>>,
                           !.claims = <<Claim(<<F, "at", 1>>, <<>>)>>]
LOCAL Model(a, b, c, e, f) ==
    [i \in Ids |-> CASE i = A -> a [] i = B -> b [] i = C -> c
                 [] i = E -> e [] i = F -> f [] OTHER -> Blank]

MCGenesis == {
    Model([Node EXCEPT !.claims = <<Claim(NoId, <<>>)>>],
          [Node EXCEPT !.within = A],
          Blank,
          [Edge EXCEPT !.backing = <<A>>],
          Fit),
    Model([Node EXCEPT !.claims = <<Claim(<<A, "at", 1>>, <<<<A, "at", 2>>>>),
                                    Claim(<<A, "at", 2>>, <<>>)>>],
          [Node EXCEPT !.retired = <<A>>],
          Node,
          Blank,
          [Fit EXCEPT !.claims = Append(@, Claim(<<F, "at", 2>>, <<>>))])}
=============================================================================
