---------------------------- MODULE Supersession ----------------------------
(***************************************************************************)
(* Walking what replaced what (supersede.go), in both directions, over a   *)
(* model which need not have loaded: a claim may name nothing, an id no    *)
(* claim holds, one which two claims wrote, or a claim which leads back to *)
(* it, and every walk has to end all the same.                             *)
(*                                                                         *)
(* One behaviour is one question asked of one model: what the load's walk  *)
(* for cycles reports, which claim is current, or the history of one.  A   *)
(* claim is its place in the order the load read them.                     *)
(***************************************************************************)
EXTENDS Naturals, Sequences, FiniteSets, SequencesExt

CONSTANTS Names,    \* the ids a claim may hold or name
          NoId,     \* none was written
          Models    \* the sequences of claims asked about

Ranks == {"normal", "deprecated"}
Claims == [id : Names \cup {NoId}, rank : Ranks, by : Names \cup {NoId}]

(* What the constants have to be. *)
SupersessionConstants == NoId \notin Names /\ Models \subseteq Seq(Claims)

VARIABLES given,    \* [claims, ask, of]: the model, the question, the claim
          work,     \* [at, start, path, seen]: how far the walk has come
          answer    \* rings for "cycles", claims for "current", "history"
supersession == <<given, work, answer>>

Asked == {"cycles", "current", "history"}
Order == DOMAIN given.claims

-----------------------------------------------------------------------------
(* A claim with a replacement is retracted and says what stands for it. *)
Replaced(c) == given.claims[c].rank = "deprecated" /\ given.claims[c].by # NoId

(* The claim an id names: the first which wrote it, 0 where none did. *)
First(cs) == IF cs = {} THEN 0 ELSE CHOOSE c \in cs : \A d \in cs : c <= d
Holder(id) == First({d \in Order : given.claims[d].id = id /\ id # NoId})

Replacement(c) == IF Replaced(c) THEN Holder(given.claims[c].by) ELSE 0

(* The claims which named c. *)
Replacing(c) ==
    {d \in Order : /\ Replaced(d) /\ d # c
                   /\ given.claims[c].id # NoId
                   /\ given.claims[d].by = given.claims[c].id}

(* What the load says of one retraction, its cycles apart.                 *)
(* Mutant: a deprecation which names nothing is let through.               *)
MisretractedQuietly(c) ==
    \/ given.claims[c].rank # "deprecated" /\ given.claims[c].by # NoId
    \/ given.claims[c].by # NoId /\ given.claims[c].by = given.claims[c].id
Misretracted(c) ==
    \/ given.claims[c].rank = "deprecated" /\ given.claims[c].by = NoId
    \/ given.claims[c].rank # "deprecated" /\ given.claims[c].by # NoId
    \/ given.claims[c].by # NoId /\ given.claims[c].by = given.claims[c].id

-----------------------------------------------------------------------------
(* The load's search for cycles.                                           *)

(* Mutant: a ring begins where the walk happened to meet it. *)
RingAsMet(cycle) == cycle
(* A cycle, turned to begin at the claim of it which was written first. *)
Ring(cycle) ==
    LET first == CHOOSE i \in DOMAIN cycle : \A j \in DOMAIN cycle : cycle[i] <= cycle[j]
    IN  SubSeq(cycle, first, Len(cycle)) \o SubSeq(cycle, 1, first - 1)

(* The claim the next walk begins at, once those in seen were walked. *)
NextStart(from, seen) == First({c \in Order : c >= from /\ c \notin seen})

Walked(path) ==
    LET seen == work.seen \cup ToSet(path)
        start == NextStart(work.start + 1, seen)
    IN  work' = [at |-> start, start |-> start, path |-> <<>>, seen |-> seen]

CycleFound ==
    /\ given.ask = "cycles" /\ work.at # 0
    /\ work.at \notin work.seen /\ work.at \in ToSet(work.path)
    /\ LET met == CHOOSE i \in DOMAIN work.path : work.path[i] = work.at
       IN  answer' = Append(answer, Ring(SubSeq(work.path, met, Len(work.path))))
    /\ Walked(work.path)
    /\ UNCHANGED given
CycleWalk ==
    LET path == Append(work.path, work.at)
        next == Replacement(work.at)
    IN  /\ given.ask = "cycles" /\ work.at # 0
        /\ work.at \notin work.seen /\ work.at \notin ToSet(work.path)
        /\ IF next # 0 /\ next # work.at
           THEN work' = [work EXCEPT !.at = next, !.path = path] ELSE Walked(path)
        /\ UNCHANGED <<given, answer>>
CycleLeft ==
    /\ given.ask = "cycles" /\ work.at # 0 /\ work.at \in work.seen
    /\ Walked(work.path)
    /\ UNCHANGED <<given, answer>>

-----------------------------------------------------------------------------
Passed(c) == c \in work.seen

(* Mutant: nothing remembers which claims the walk has passed. *)
CurrentFollowsAlways ==
    /\ given.ask = "current" /\ work.at # 0 /\ Replacement(work.at) # 0
    /\ work' = [work EXCEPT !.at = Replacement(work.at), !.seen = @ \cup {work.at}]
    /\ UNCHANGED <<given, answer>>
(* The claim at the end of the chain which begins at the one asked about. *)
CurrentFollows ==
    /\ given.ask = "current" /\ work.at # 0
    /\ ~Passed(work.at) /\ Replacement(work.at) # 0
    /\ work' = [work EXCEPT !.at = Replacement(work.at), !.seen = @ \cup {work.at}]
    /\ UNCHANGED <<given, answer>>
(* Mutant: whatever the chain ended in is handed back. *)
StandsWhatever(c) == TRUE
Stands(c) == given.claims[c].rank # "deprecated"
(* Mutant: what comes after the end of the chain is handed back. *)
CurrentEndsBeyond ==
    /\ given.ask = "current" /\ work.at # 0
    /\ Passed(work.at) \/ Replacement(work.at) = 0
    /\ answer' = IF ~Passed(work.at) /\ Stands(work.at) THEN <<Replacement(work.at)>> ELSE <<>>
    /\ work' = [work EXCEPT !.at = 0]
    /\ UNCHANGED given
CurrentEnds ==
    /\ given.ask = "current" /\ work.at # 0
    /\ Passed(work.at) \/ Replacement(work.at) = 0
    /\ answer' = IF ~Passed(work.at) /\ Stands(work.at) THEN <<work.at>> ELSE <<>>
    /\ work' = [work EXCEPT !.at = 0]
    /\ UNCHANGED given

(* Everything the claim asked about replaced, depth first: path holds the  *)
(* calls under way, the innermost last, and how far each has looked along  *)
(* the claims which named its own.                                         *)
Called(c) == [of |-> c, looked |-> 0]
Call == work.path[Len(work.path)]
Ahead == First({d \in Replacing(Call.of) : d > Call.looked})
Looked == [work.path EXCEPT ![Len(work.path)].looked = Ahead]
(* Mutant: only what the claim replaced itself. *)
FurtherNowhere(calls, c) == calls
Further(calls, c) == Append(calls, Called(c))
HistoryFinds ==
    /\ given.ask = "history" /\ work.path # <<>> /\ Ahead # 0 /\ ~Passed(Ahead)
    /\ answer' = Append(answer, Ahead)
    /\ work' = [work EXCEPT !.seen = @ \cup {Ahead}, !.path = Further(Looked, Ahead)]
    /\ UNCHANGED given
HistorySkips ==
    /\ given.ask = "history" /\ work.path # <<>> /\ Ahead # 0 /\ Passed(Ahead)
    /\ work' = [work EXCEPT !.path = Looked]
    /\ UNCHANGED <<given, answer>>
HistoryReturns ==
    /\ given.ask = "history" /\ work.path # <<>> /\ Ahead = 0
    /\ work' = [work EXCEPT !.path = SubSeq(@, 1, Len(@) - 1)]
    /\ UNCHANGED <<given, answer>>
HistoryEnds ==
    /\ given.ask = "history" /\ work.path = <<>> /\ work.at # 0
    /\ work' = [work EXCEPT !.at = 0]
    /\ UNCHANGED <<given, answer>>

SupersessionInit ==
    /\ \E m \in Models, ask \in Asked : \E c \in DOMAIN m :
            /\ ask = "cycles" => c = 1
            /\ given = [claims |-> m, ask |-> ask, of |-> c]
    /\ work = [at |-> given.of, start |-> given.of,
               path |-> IF given.ask = "history" THEN <<Called(given.of)>> ELSE <<>>,
               seen |-> IF given.ask = "history" THEN {given.of} ELSE {}]
    /\ answer = <<>>
SupersessionNext ==
    \/ CycleFound \/ CycleWalk \/ CycleLeft
    \/ CurrentFollows \/ CurrentEnds
    \/ HistoryFinds \/ HistorySkips \/ HistoryReturns \/ HistoryEnds
SupersessionSpec == SupersessionInit /\ [][SupersessionNext]_supersession /\ WF_supersession(SupersessionNext)
-----------------------------------------------------------------------------
Finished == work.at = 0

(* The claims replacements lead to from c: what every set which holds c    *)
(* and what replaces its members holds.                                    *)
Closed(s) == \A c \in s : Replacement(c) # 0 => Replacement(c) \in s
Leads(c, d) == \A s \in SUBSET Order : c \in s /\ Closed(s) => d \in s

(* No two claims wrote one id. *)
OneEach ==
    \A c, d \in Order : given.claims[c].id = given.claims[d].id /\ c # d
        => given.claims[c].id = NoId

SupersessionTypeOK ==
    /\ given \in [claims : Seq(Claims), ask : Asked, of : Nat] /\ given.of \in Order
    /\ work \in [at : Order \cup {0}, start : Order \cup {0}, seen : SUBSET Order,
                 path : IF given.ask = "history" THEN Seq([of : Order, looked : Order \cup {0}])
                                                 ELSE Seq(Order)]
    /\ answer \in IF given.ask = "cycles" THEN Seq(Seq(Order)) ELSE Seq(Order)

(* Every cycle of replacements longer than one claim is reported, once,    *)
(* from the claim of it which was written first, and nothing else is.      *)
EveryCycleIsReported ==
    given.ask = "cycles" /\ Finished =>
        LET circular == {c \in Order : /\ Replacement(c) \notin {0, c}
                                       /\ Leads(Replacement(c), c)}
            first == {c \in circular : \A d \in circular : Leads(c, d) => c <= d}
        IN  /\ Len(answer) = Cardinality(first)
            /\ {answer[i][1] : i \in DOMAIN answer} = first
            /\ \A i \in DOMAIN answer :
                  /\ ToSet(answer[i]) = {d \in circular : Leads(answer[i][1], d)}
                  /\ \A j \in DOMAIN answer[i] :
                        Replacement(answer[i][j]) =
                            answer[i][IF j = Len(answer[i]) THEN 1 ELSE j + 1]

(* What is current is the asserted claim the replacements of a claim lead  *)
(* to, and where none is handed back they lead to no such claim.           *)
CurrentIsWhereItLeads ==
    given.ask = "current" /\ Finished =>
        /\ \A i \in DOMAIN answer :
              given.claims[answer[i]].rank = "normal" /\ Leads(given.of, answer[i])
        /\ answer = <<>> => \A c \in Order :
              given.claims[c].rank = "normal" => ~Leads(given.of, c)

(* A model whose retractions load without a report answers of each of its  *)
(* claims which one is current (what Current's doc promises its callers).  *)
LoadedClaimsHaveACurrent ==
    LET loads == /\ OneEach
                 /\ \A c \in Order : ~Misretracted(c) /\ (Replaced(c) => Replacement(c) # 0)
                 /\ ~ \E c \in Order : Replacement(c) # 0 /\ Leads(Replacement(c), c)
    IN  given.ask = "current" /\ Finished /\ loads => answer # <<>>

(* The history of a claim is every other claim its replacements lead to it *)
(* from, each once, whatever cycles there are.                             *)
HistoryIsWhatLedHere ==
    given.ask = "history" /\ Finished /\ OneEach =>
        /\ ToSet(answer) = {c \in Order \ {given.of} : Leads(c, given.of)}
        /\ Len(answer) = Cardinality(ToSet(answer))

(* Every walk ends, and the loops of the code with it. *)
WalksEnd == <>Finished
=============================================================================
