------------------------------- MODULE Frames -------------------------------
(***************************************************************************)
(* Coordinate frames and the way from one to another (frame.go).  A frame  *)
(* names its parent and the claim which measured the transform to it; what *)
(* is declared need be neither rooted nor free of cycles, nor measured.    *)
(* The budget of a route is a budget of the claims of its steps.           *)
(*                                                                         *)
(* One behaviour asks one question of one registry.                        *)
(***************************************************************************)
EXTENDS Budgets

CONSTANTS Frame,       \* the declared frames
          Undeclared,  \* an id no frame declares
          NoFrame, NoClaim,
          Transforms,  \* the claims whose value is a transform
          Registries,  \* the registries asked about
          Fits         \* which claims the frames name, likewise

(* What the constants have to be. *)
FrameConstants ==
    /\ IsFiniteSet(Frame)
    /\ Undeclared \notin Frame /\ NoFrame \notin Frame \cup {Undeclared}
    /\ NoClaim \notin Claim /\ Transforms \subseteq Claim
    /\ Registries \subseteq [Frame -> Frame \cup {NoFrame, Undeclared}]
    /\ Fits \subseteq [Frame -> Claim \cup {NoClaim}]

VARIABLES journey,   \* [parent, fit, from, to]
          routed     \* [error, route, budget], or unasked
frames == <<journey, routed>>
-----------------------------------------------------------------------------
(* The walk from a frame towards its root, which stops at a frame it has   *)
(* passed and at one nobody declared.                                      *)
Climbed(walk) ==
    IF walk.at = NoFrame \/ walk.error # "none" THEN walk
    ELSE IF walk.at \in ToSet(walk.chain) THEN [walk EXCEPT !.error = "cycle"]
    ELSE IF walk.at \notin Frame THEN [walk EXCEPT !.error = "undeclared"]
    ELSE [at |-> journey.parent[walk.at], chain |-> Append(walk.chain, walk.at), error |-> "none"]
Ancestry(frame) ==
    LET walk[k \in Nat] == IF k = 0 THEN [at |-> frame, chain |-> <<>>, error |-> "none"]
                           ELSE Climbed(walk[k - 1])
    IN  walk[Cardinality(Frame) + 1]
(* The frames enclosing a frame, as far as they can be followed. *)
Chain(frame) == Ancestry(frame).chain

(* Mutant: every route passes through the root. *)
RouteByRoot(from, to) ==
    LET up == Ancestry(from)
        down == Ancestry(to)
        Fails(error) == [error |-> error, climb |-> <<>>, descend |-> <<>>]
    IN  IF from = to THEN Fails("none")
        ELSE IF up.error # "none" THEN Fails(up.error)
        ELSE IF down.error # "none" THEN Fails(down.error)
        ELSE IF Last(up.chain) # Last(down.chain) THEN Fails("unrelated")
        ELSE [error |-> "none", climb |-> Front(up.chain), descend |-> Reverse(Front(down.chain))]
(* The steps up from one frame to where the two meet, and down to the other. *)
Route(from, to) ==
    LET up == Ancestry(from)
        down == Ancestry(to)
        met == {i \in DOMAIN up.chain : up.chain[i] \in ToSet(down.chain)}
        Fails(error) == [error |-> error, climb |-> <<>>, descend |-> <<>>]
    IN  IF from = to THEN Fails("none")
        ELSE IF up.error # "none" THEN Fails(up.error)
        ELSE IF down.error # "none" THEN Fails(down.error)
        ELSE IF met = {} THEN Fails("unrelated")
        ELSE LET meet == CHOOSE i \in met : \A j \in met : i <= j
                 arrival == CHOOSE j \in DOMAIN down.chain : down.chain[j] = up.chain[meet]
             IN  [error |-> "none", climb |-> SubSeq(up.chain, 1, meet - 1),
                  descend |-> Reverse(SubSeq(down.chain, 1, arrival - 1))]
(* The claim which measured a frame: the one it names, where that is a     *)
(* transform.                                                              *)
Measured(frame) ==
    journey.fit[frame] # NoClaim /\ journey.fit[frame] \in Transforms

TransformBudget(from, to) ==
    LET route == Route(from, to)
        steps == route.climb \o route.descend
        Fails(error) == [error |-> error, route |-> <<>>, budget |-> Empty]
    IN  IF ~({from, to} \subseteq Frame) THEN Fails("undeclared")
        ELSE IF route.error # "none" THEN Fails(route.error)
        ELSE IF ~ \A i \in DOMAIN steps : Measured(steps[i]) THEN Fails("unmeasured")
        ELSE [error |-> "none", route |-> steps,
              budget |-> AddedAll(Empty, [i \in DOMAIN steps |-> journey.fit[steps[i]]])]
-----------------------------------------------------------------------------
Unasked == [error |-> "unasked", route |-> <<>>, budget |-> Empty]
FramesInit ==
    /\ journey \in [parent : Registries, fit : Fits, from : Frame \cup {Undeclared}, to : Frame]
    /\ routed = Unasked
Ask ==
    /\ routed = Unasked
    /\ routed' = TransformBudget(journey.from, journey.to) /\ UNCHANGED journey
FramesNext == Ask
FramesSpec == FramesInit /\ [][FramesNext]_frames
-----------------------------------------------------------------------------
RouteErrors == {"none", "cycle", "undeclared", "unrelated", "unmeasured", "unasked"}
FramesTypeOK ==
    /\ journey.parent \in Registries /\ journey.fit \in Fits
    /\ routed.error \in RouteErrors /\ routed.route \in Seq(Frame)
    /\ routed.budget.inputs \in Seq(Claim) /\ routed.budget.unknown \in Seq(Claim)
    /\ routed.budget.terms \in Seq(BudgetTerm)

(* What every set which holds a frame and its members' parents holds. *)
Above(frame) ==
    {f \in Frame : \A s \in SUBSET Frame :
        frame \in s /\ (\A g \in s : journey.parent[g] \in Frame => journey.parent[g] \in s) => f \in s}
Rooted(frame) ==
    /\ \A f \in Above(frame) : journey.parent[f] # Undeclared
    /\ \E f \in Above(frame) : journey.parent[f] = NoFrame

(* A route passes once through each frame above one of its ends and not    *)
(* above the other, and through no other: an error both frames share above *)
(* where they meet is in no answer about the two.  There is a route exactly*)
(* where both are rooted and share a frame, and a measured one where every *)
(* step of it was.                                                         *)
RoutesPassWhatDiffers ==
    LET from == journey.from
        to == journey.to
        differs == (Above(from) \ Above(to)) \cup (Above(to) \ Above(from))
        related == from = to \/ (Rooted(from) /\ Rooted(to) /\ Above(from) \cap Above(to) # {})
    IN  routed # Unasked =>
        /\ routed.error = "none" <=>
              from \in Frame /\ related /\ (from = to \/ \A f \in differs : Measured(f))
        /\ routed.error = "none" =>
              /\ ToSet(routed.route) = IF from = to THEN {} ELSE differs
              /\ Len(routed.route) = Cardinality(ToSet(routed.route))

(* What the errors of some claims come to: every independent term of every *)
(* claim, and every source once, at the greatest it is stated to be.       *)
Places(claims) == UNION {{c} \X DOMAIN Terms[c] : c \in claims}
Said(place) == Terms[place[1]][place[2]]
Systematic(places, source) ==
    {p \in places : Said(p).kind = "systematic" /\ Said(p).source = source}
Greatest(places, source) ==
    CHOOSE m \in {Said(p).magnitude : p \in Systematic(places, source)} :
        \A p \in Systematic(places, source) : Said(p).magnitude <= m
Reference(claims) ==
    LET places == Places(claims)
        single == {p \in places : Said(p).kind = "independent"}
        shared == MapThenSumSet(LAMBDA s : Greatest(places, s),
                                {s \in Sources : Systematic(places, s) # {}})
                  + MapThenSumSet(LAMBDA p : Said(p).magnitude, Systematic(places, NoSource))
    IN  MapThenSumSet(LAMBDA p : Said(p).magnitude * Said(p).magnitude, single) + shared * shared

(* An error is counted once, however many frames of a route were measured  *)
(* with it and whichever way round it is asked; and what is known of two   *)
(* routes end to end is at least what is known of one.                     *)
ErrorsCountOnce ==
    routed # Unasked /\ routed.error = "none" =>
        LET known == Combined(routed.budget)
            back == TransformBudget(journey.to, journey.from).budget
        IN  /\ known.why = "known" => known.squared = Reference(ToSet(routed.budget.inputs))
            /\ known = Combined(back)
            /\ \A via \in Frame :
                  LET there == TransformBudget(journey.from, via)
                      on == TransformBudget(via, journey.to)
                      both == Combined(Merged(there.budget, on.budget))
                  IN  there.error = "none" /\ on.error = "none" /\ both.why = "known"
                          /\ known.why = "known"
                        => known.squared <= both.squared
=============================================================================
