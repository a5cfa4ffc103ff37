----------------------------- MODULE MCAnswers ------------------------------
(***************************************************************************)
(* The questions a model is asked, each of small models of its own: one    *)
(* behaviour is about one of them, and about says which; the others stay   *)
(* as they begin.                                                          *)
(***************************************************************************)
EXTENDS Supersession, Resolution, Publishing, Drawing, ObservationLog, Review, Frames, Rings,
        LineDiff

CONSTANTS p1, p2

VARIABLE about
vars == <<about, supersession, claims, publishing, drawing, files, reviewing, frames, rings, comparing>>

None == "none"
-----------------------------------------------------------------------------
(* Three claims of two ids, and an id nobody wrote: every way they may be  *)
(* retracted in favour of one another, and two claims of one id.           *)
ClaimNames == {"a", "b", "c", "x"}
Written(id) ==
    {[id |-> id, rank |-> "normal", by |-> by] : by \in {None, "a"}}
    \cup {[id |-> id, rank |-> "deprecated", by |-> by] : by \in ClaimNames \cup {None}}
Chains ==
    (Written("a") \X Written("b") \X Written("c"))
    \cup (Written("a") \X Written("a") \X Written(None))

(* One question whose predicate tolerates ties and one whose does not. *)
MCQuestions == {1, 2}
MCStrict == {2}

(* Four frames in every arrangement, some measured by one claim, some with *)
(* an error in common, one by no transform, one by a claim of no accuracy. *)
Fitted(kind, source, magnitude, unit) ==
    [kind |-> kind, source |-> source, unit |-> unit, magnitude |-> magnitude]
FitClaims == {"p", "q", "r", "u", "other"}
FitTerms ==
    [c \in FitClaims |->
        CASE c = "p" -> <<Fitted("independent", None, 1, "mm"), Fitted("systematic", "base", 1, "mm")>>
          [] c = "q" -> <<Fitted("systematic", "base", 3, "mm")>>
          [] c = "r" -> <<Fitted("independent", None, 2, "mm"), Fitted("systematic", None, 1, "mm")>>
          [] c = "u" -> <<>>
          [] c = "other" -> <<Fitted("independent", None, 1, "ft")>>]
FrameIds == {"f", "g", "h", "i"}
MCRegistries == [FrameIds -> FrameIds \cup {None, "undeclared"}]
MCFits ==
    {[f \in FrameIds |-> CASE f = "f" -> "p" [] f = "g" -> "q" [] f = "h" -> "r" [] f = "i" -> "p"],
     [f \in FrameIds |-> CASE f = "f" -> "p" [] f = "g" -> "q" [] f = "h" -> "u" [] f = "i" -> "r"],
     [f \in FrameIds |-> CASE f = "f" -> "p" [] f = "g" -> None [] f = "h" -> "other" [] f = "i" -> "q"]}

(* Loops of four edges over four corners, and smaller ones whose corners   *)
(* are close to one another, whose edges repeat or do not resolve.         *)
Pairs(s) == {pair \in s \X s : pair[1] # pair[2]}
Outline(edges, ends, near, open) == [edges |-> edges, ends |-> ends, near |-> near, open |-> open]
SmallLoops ==
    {Outline(<<1, 2, 3, 4>>, <<<<1, 2>>, e, f, g>>, {}, open) :
        e \in Pairs(1..4), f \in Pairs(1..4), g \in Pairs(1..4), open \in BOOLEAN}
    \cup {Outline(<<1, 2, 3>>, <<e, f, g, g>>, near, open) :
        e \in Pairs(1..3), f \in Pairs(1..3), g \in Pairs(1..3), open \in BOOLEAN,
        near \in {{}, {{1, 2}}, {{1, 2}, {2, 3}}}}
    \cup {Outline(edges, <<<<1, 2>>, <<2, 1>>, e, e>>, {}, open) :
        edges \in {<<>>, <<1>>, <<1, 2>>, <<1, 1>>, <<1, 2, 1>>, <<3, 1>>},
        e \in Pairs(0..2), open \in BOOLEAN}
MCVertexIds == 1..4
MCEdgeIds == 1..4

(* A wall between two corners, surveyed under an id, or with and without.   *)
Corner(vertex, id) ==
    [id |-> id, subject |-> vertex, predicate |-> "position", print |-> 1, value |-> 1,
     rank |-> "normal", by |-> None]
Wall4(said) ==
    [held |-> [e \in {"n", "v", "w", "x"} |-> "live"], corners |-> [n \in {"n"} |-> <<"v", "w">>],
     claims |-> said]
MCRevisions == {Wall4(<<Corner("v", "a")>>), Wall4(<<Corner("v", "a"), Corner("v", None)>>)}
Ruled(moved) == ("boundary-moved-without-claim" :> moved)
                @@ ("claim-deprecated-without-replacement" :> "failure")
                @@ ("id-disappeared-without-supersession" :> "failure")
MCPolicies == {Ruled("warning"), Ruled("failure")}

(* Two shots, one of which may be written two ways, and three decisions. *)
Shot(id, says) == [kind |-> "obs", id |-> id, names |-> None, says |-> says]
Decision(id, of) == [kind |-> "retire", id |-> id, names |-> of, says |-> 1]
MCRecords ==
    {Shot("a", 1), Shot("a", 2), Shot("b", 1),
     Decision("r", "a"), Decision("s", "a"), Decision("s", "r")}

(* Corners along a line, three of which are close to the next; a model     *)
(* nobody drew in, and one with a wall, and with a corner nobody surveyed. *)
Unmarked == [batch |-> 0, done |-> 0, snap |-> FALSE]
WithAWall ==
    [vertices |-> <<[id |-> 1, at |-> 1, by |-> Unmarked], [id |-> 3, at |-> NoPoint, by |-> Unmarked],
                    [id |-> 4, at |-> 10, by |-> Unmarked]>>,
     edges |-> <<[id |-> 5, ends |-> <<1, 4>>, scaffolded |-> FALSE]>>,
     loops |-> <<[id |-> 6, edges |-> <<5>>, corners |-> <<>>]>>]
MCGap ==
    [pair \in Point \X Point |->
        IF pair[1] > pair[2] THEN pair[1] - pair[2] ELSE pair[2] - pair[1]]
MCRooms ==
    {<<0, 10, 20, 1>>, <<10, 0, 2, 10>>, <<20, NoPoint, 2, 20>>}
MCPlans == {NoForms, WithAWall}

(* Two exports of a tree of one file. *)
MCRun == {p1, p2}
MCDrawings == {"plain"}

ASSUME
    /\ SupersessionConstants /\ ResolutionConstants /\ PublishingConstants
    /\ BudgetConstants /\ FrameConstants
    /\ RingConstants /\ DiffConstants
    /\ ReviewConstants /\ ObservationConstants /\ DrawingConstants
-----------------------------------------------------------------------------
(* No claim is walked from, nothing is exported or reviewed, nobody draws,  *)
(* no loop is assembled, and no texts are compared.                        *)
NoWalk == [at |-> 0, start |-> 0, path |-> <<>>, seen |-> {}]
NotWalking ==
    given = [claims |-> <<>>, ask |-> "nothing", of |-> 0] /\ work = NoWalk /\ answer = <<>>
NotExporting == PublishingInit /\ tree = [f \in 1..NumFiles |-> 1]
NotDrawing == DrawingInit /\ graph = NoForms
NotAssembling ==
    /\ loop = Outline(<<>>, <<<<1, 2>>, <<1, 2>>, <<1, 2>>, <<1, 2>>>>, {}, FALSE)
    /\ assembling = [phase |-> "begun", steps |-> <<>>, breaks |-> 0]
    /\ assembly = [closed |-> FALSE, found |-> "none"]
NotTravelling ==
    /\ journey = [parent |-> [f \in FrameIds |-> None], fit |-> [f \in FrameIds |-> None],
                   from |-> "f", to |-> "f"]
    /\ routed = Unasked
NotComparing ==
    /\ sides = [a |-> <<>>, b |-> <<>>] /\ search = [stage |-> "trim"]
    /\ diff = [script |-> <<>>, hunks |-> <<>>]
NotReviewing ==
    /\ base = Wall4(<<>>) /\ head = base
    /\ change = [edits |-> 0, ordinary |-> FALSE, policy |-> Ruled("failure")]

Init ==
    /\ about \in {"history", "exports", "resolution", "drawing", "observations", "review", "frames",
                  "rings", "diff"}
    /\ IF about = "history" THEN SupersessionInit ELSE NotWalking
    /\ IF about = "exports" THEN PublishingInit ELSE NotExporting
    /\ IF about = "drawing" THEN DrawingInit ELSE NotDrawing
    /\ IF about = "review" THEN ReviewInit ELSE NotReviewing
    /\ IF about = "frames" THEN FramesInit ELSE NotTravelling
    /\ IF about = "rings" THEN RingsInit ELSE NotAssembling
    /\ IF about = "diff" THEN DiffInit ELSE NotComparing
    /\ ResolutionInit /\ ObservationInit

Walk ==
    /\ about = "history" /\ SupersessionNext
    /\ UNCHANGED <<about, claims, publishing, drawing, files, reviewing, frames, rings, comparing>>
Others ==
    \/ about = "resolution" /\ ResolutionNext
       /\ UNCHANGED <<supersession, publishing, drawing, files, reviewing, frames, rings, comparing>>
    \/ about = "exports" /\ PublishingNext
       /\ UNCHANGED <<supersession, claims, drawing, files, reviewing, frames, rings, comparing>>
    \/ about = "drawing" /\ DrawingNext
       /\ UNCHANGED <<supersession, claims, publishing, files, reviewing, frames, rings, comparing>>
    \/ about = "observations" /\ ObservationNext
       /\ UNCHANGED <<supersession, claims, publishing, drawing, reviewing, frames, rings, comparing>>
    \/ about = "review" /\ ReviewNext
       /\ UNCHANGED <<supersession, claims, publishing, drawing, files, frames, rings, comparing>>
    \/ about = "frames" /\ FramesNext
       /\ UNCHANGED <<supersession, claims, publishing, drawing, files, reviewing, rings, comparing>>
    \/ about = "rings" /\ RingsNext
       /\ UNCHANGED <<supersession, claims, publishing, drawing, files, reviewing, frames, comparing>>
    \/ about = "diff" /\ DiffNext
       /\ UNCHANGED <<supersession, claims, publishing, drawing, files, reviewing, frames, rings>>
Next == Walk \/ (Others /\ UNCHANGED about)
(* A walk of one process over a model in memory carries on. *)
Spec == Init /\ [][Next]_vars /\ WF_vars(Walk)
-----------------------------------------------------------------------------
(* Each component's state has its type. *)
TypeOK ==
    CASE about = "history" -> SupersessionTypeOK
      [] about = "resolution" -> ResolutionTypeOK
      [] about = "frames" -> FramesTypeOK
      [] about = "rings" -> RingsTypeOK
      [] about = "diff" -> DiffTypeOK
      [] about = "review" -> ReviewTypeOK
      [] about = "observations" -> ObservationTypeOK
      [] about = "drawing" -> DrawingTypeOK
      [] about = "exports" -> PublishingTypeOK
=============================================================================
