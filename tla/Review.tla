------------------------------- MODULE Review -------------------------------
(***************************************************************************)
(* Reviewing a change against its merge base (review.go): two revisions of *)
(* one model are compared, and each change of the three kinds a merge      *)
(* should not make silently is found.  A change is any sequence of edits,  *)
(* made with the write path or by hand in the files, and a revision is     *)
(* merged, and becomes the next base, where no finding is a failure.       *)
(*                                                                         *)
(* A claim's print is the source, method and date it wrote.                *)
(***************************************************************************)
EXTENDS Naturals, Sequences, SequencesExt

CONSTANTS Nodes, Vertices,
          Predicates, Prints, Values,
          ReviewIds, NoReviewId,
          Policies,    \* for each kind of finding, what it means
          Surveyable,  \* bound: the entities surveys are of
          Revisions,   \* the revisions the first review is against
          MaxStated,   \* bound: claims of a revision
          MaxEdits     \* bound: edits of all the changes

FindingKinds == {"boundary-moved-without-claim", "claim-deprecated-without-replacement",
          "id-disappeared-without-supersession"}
Rulings == {"failure", "warning", "ignored"}
Entities == Nodes \cup Vertices
StatedClaims == [id : ReviewIds \cup {NoReviewId}, subject : Entities, predicate : Predicates,
           print : Prints, value : Values, rank : {"normal", "deprecated"},
           by : ReviewIds \cup {NoReviewId}]
(* held says of each entity whether it is there and, if retired, how. *)
Revised == [held : [Entities -> {"live", "retired", "superseded", "absent"}],
           corners : [Nodes -> Seq(Vertices)], claims : Seq(StatedClaims)]

(* No id is written twice, which the load sees to (claimLoader.taken).     *)
IdsOnce(model) ==
    \A c, d \in DOMAIN model.claims :
        model.claims[c].id = model.claims[d].id /\ model.claims[c].id # NoReviewId => c = d

(* What the constants have to be. *)
ReviewConstants ==
    /\ NoReviewId \notin ReviewIds /\ Nodes \cap Vertices = {}
    /\ Policies \subseteq [FindingKinds -> Rulings]
    /\ Revisions \subseteq Revised /\ \A model \in Revisions : IdsOnce(model)
    /\ Surveyable \subseteq Entities /\ MaxStated \in Nat /\ MaxEdits \in Nat

VARIABLES base, head,
          change    \* [edits, ordinary, policy]: the edits so far, whether the write path
                    \* made those since the base, and what findings will mean
reviewing == <<base, head, change>>
-----------------------------------------------------------------------------
(* Which claim of one revision is which of the other.                      *)
(* Mutant: a claim which wrote no id is told apart by what it is about.    *)
FingerprintBySubject(claim) ==
    IF claim.id # NoReviewId THEN <<claim.id>> ELSE <<claim.subject, claim.predicate>>
Fingerprint(claim) ==
    IF claim.id # NoReviewId THEN <<claim.id>>
    ELSE <<claim.subject, claim.predicate, claim.print>>

(* The claim indexed under a fingerprint: the last with it, 0 for none. *)
Index(model, print) ==
    LET same == {c \in DOMAIN model.claims : Fingerprint(model.claims[c]) = print}
    IN  IF same = {} THEN 0 ELSE CHOOSE c \in same : \A d \in same : d <= c
Was(c) == Index(base, Fingerprint(head.claims[c]))

Holds(model, id) == id # NoReviewId /\ \E c \in DOMAIN model.claims : model.claims[c].id = id
(* Mutant: what is retracted still answers. *)
AnsweringEver(model, subject, predicate) ==
    {c \in DOMAIN model.claims : /\ model.claims[c].subject = subject
                                 /\ model.claims[c].predicate = predicate}
Answering(model, subject, predicate) ==
    {c \in DOMAIN model.claims : /\ model.claims[c].subject = subject
                                 /\ model.claims[c].predicate = predicate
                                 /\ model.claims[c].rank # "deprecated"}

Finding(kind, subject, claim) == [kind |-> kind, subject |-> subject, claim |-> claim]

(* A claim of the head which says something else of a corner than the base *)
(* said in it.                                                             *)
Rewritten(vertex) ==
    {c \in DOMAIN head.claims : /\ head.claims[c].subject = vertex /\ Was(c) # 0
                                /\ base.claims[Was(c)].value # head.claims[c].value}
MeasuredAgain(vertex) ==
    \E c \in DOMAIN head.claims : head.claims[c].subject = vertex /\ Was(c) = 0
Moved(node) ==
    LET before == base.corners[node]
        now == head.corners[node]
        stayed == ToSet(now) \cap ToSet(before)
    IN  IF now = <<>> \/ head.held[node] = "absent" \/ base.held[node] = "absent" THEN {}
        ELSE {Finding("boundary-moved-without-claim", node, c) :
                  c \in UNION {Rewritten(v) : v \in stayed}}
             \cup {Finding("boundary-moved-without-claim", node, 0) :
                  n \in {n \in {node} : /\ before # now
                                        /\ ~ \E v \in ToSet(now) : MeasuredAgain(v)}}

(* A claim this change retracted. *)
Retracted ==
    {c \in DOMAIN head.claims :
        /\ head.claims[c].rank = "deprecated"
        /\ ~(Was(c) # 0 /\ base.claims[Was(c)].rank = "deprecated")}
Unreplaced ==
    {c \in Retracted : ~Holds(head, head.claims[c].by)
                       \/ Answering(head, head.claims[c].subject, head.claims[c].predicate) = {}}

GoneEntities ==
    {e \in Entities : /\ base.held[e] \notin {"absent", "superseded"} /\ head.held[e] = "absent"}
GoneClaims ==
    {c \in DOMAIN base.claims : base.claims[c].id # NoReviewId /\ ~Holds(head, base.claims[c].id)}

Findings ==
    (UNION {Moved(n) : n \in Nodes})
    \cup {Finding("claim-deprecated-without-replacement", head.claims[c].subject, c) :
              c \in Unreplaced}
    \cup {Finding("id-disappeared-without-supersession", e, 0) : e \in GoneEntities}
    \cup {Finding("id-disappeared-without-supersession", base.claims[c].id, c) :
              c \in GoneClaims}
Failures == {f \in Findings : change.policy[f.kind] = "failure"}
-----------------------------------------------------------------------------
Edited(model, ordinary) ==
    /\ change.edits < MaxEdits
    /\ head' = model /\ model # head
    /\ change' = [change EXCEPT !.edits = @ + 1, !.ordinary = @ /\ ordinary]
    /\ UNCHANGED base

(* The ids neither revision wrote. *)
Fresh == {i \in ReviewIds : ~Holds(head, i) /\ ~Holds(base, i)}
Surveyed(subject, predicate, id, print, value) ==
    [id |-> id, subject |-> subject, predicate |-> predicate, print |-> print,
     value |-> value, rank |-> "normal", by |-> NoReviewId]

(* What the write path does. *)
Survey ==
    /\ Len(head.claims) < MaxStated
    /\ \E s \in {e \in Surveyable : head.held[e] # "absent"}, p \in Predicates,
          i \in Fresh \cup {NoReviewId}, print \in Prints, v \in Values :
          Edited([head EXCEPT !.claims = Append(@, Surveyed(s, p, i, print, v))], TRUE)
Supersede ==
    /\ Len(head.claims) < MaxStated
    /\ \E c \in DOMAIN head.claims, i \in Fresh, print \in Prints, v \in Values :
          LET old == head.claims[c]
              new == Surveyed(old.subject, old.predicate, i, print, v)
          IN  /\ old.rank = "normal"
              /\ Edited([head EXCEPT !.claims =
                            Append([@ EXCEPT ![c].rank = "deprecated", ![c].by = i], new)], TRUE)
(* Somewhere replacements lead round: the load looks for it (claims.cycles). *)
Circles(model) ==
    \E ids \in SUBSET ReviewIds :
        /\ ids # {}
        /\ \A i \in ids : \E c \in DOMAIN model.claims :
              LET claim == model.claims[c]
              IN  claim.id = i /\ claim.rank = "deprecated" /\ claim.by \in ids
(* In favour of any claim there is, of whatever question and rank. *)
DeprecateClaim ==
    \E c \in DOMAIN head.claims, by \in ReviewIds :
        LET model == [head EXCEPT !.claims[c].rank = "deprecated", !.claims[c].by = by]
            old == head.claims[c]
        IN  /\ old.rank = "normal" /\ old.id \notin {NoReviewId, by} /\ Holds(head, by)
            /\ ~Circles(model)
            /\ Edited(model, TRUE)
RetireNode ==
    \E n \in Nodes, how \in {"retired", "superseded"} :
        head.held[n] = "live" /\ Edited([head EXCEPT !.held[n] = how], TRUE)
(* What only an editor does. *)
RewriteByHand ==
    \E c \in DOMAIN head.claims, v \in Values :
        Edited([head EXCEPT !.claims[c].value = v], FALSE)
(* Also where the write path refuses: a claim which wrote no id, in favour *)
(* of nothing or of what nobody wrote, or so that replacements lead round. *)
RetractByHand ==
    \E c \in DOMAIN head.claims, by \in ReviewIds \cup {NoReviewId} :
        /\ head.claims[c].rank = "normal" /\ by # head.claims[c].id
        /\ Edited([head EXCEPT !.claims[c].rank = "deprecated", !.claims[c].by = by], FALSE)
DeleteByHand ==
    \/ \E c \in DOMAIN head.claims : Edited([head EXCEPT !.claims = RemoveAt(@, c)], FALSE)
    \/ \E e \in Entities : Edited([head EXCEPT !.held[e] = "absent"], FALSE)
(* A boundary is drawn round other corners: as a resurvey draws it where a *)
(* corner of it was measured in this change.                               *)
Recorner ==
    \E n \in Nodes, a, b \in Vertices :
        LET drawn == [head EXCEPT !.corners[n] = <<a, b>>]
        IN  /\ head.held[n] = "live" /\ a # b /\ {head.held[a], head.held[b]} = {"live"}
            /\ Edited(drawn, MeasuredAgain(a) \/ MeasuredAgain(b))

(* A change without failures is merged. *)
Merge ==
    /\ base # head /\ Failures = {}
    /\ base' = head /\ UNCHANGED head
    /\ change' = [change EXCEPT !.ordinary = TRUE]

ReviewInit ==
    /\ base \in Revisions /\ head = base
    /\ \E p \in Policies : change = [edits |-> 0, ordinary |-> TRUE, policy |-> p]
ReviewNext ==
    \/ Survey \/ Supersede \/ DeprecateClaim \/ RetireNode
    \/ RewriteByHand \/ RetractByHand \/ DeleteByHand \/ Recorner
    \/ Merge
ReviewSpec == ReviewInit /\ [][ReviewNext]_reviewing
-----------------------------------------------------------------------------
ReviewTypeOK ==
    /\ base \in Revised /\ head \in Revised
    /\ Len(base.claims) <= MaxStated /\ Len(head.claims) <= MaxStated
    /\ change \in [edits : 0..MaxEdits, ordinary : BOOLEAN, policy : Policies]

(* No two claims of a revision share an id, and no two without one share a *)
(* question and a print.  The load asks the first and nothing the second.  *)
Distinct(model) ==
    \A c, d \in DOMAIN model.claims :
        LET one == model.claims[c]
            other == model.claims[d]
        IN  /\ one.id = other.id
            /\ one.id = NoReviewId => /\ one.subject = other.subject
                                /\ one.predicate = other.predicate /\ one.print = other.print
            => c = d
About(model, subject, predicate) ==
    {c \in DOMAIN model.claims : /\ model.claims[c].subject = subject
                                 /\ model.claims[c].predicate = predicate}
Answered(model, subject, predicate) ==
    \E c \in DOMAIN model.claims : /\ model.claims[c].subject = subject
                                   /\ model.claims[c].predicate = predicate
                                   /\ model.claims[c].rank = "normal"

(* Where the write path did all of a change, what is found are retractions *)
(* which left a question without an answer, and every such one: recording, *)
(* correcting, retiring, retracting in favour of what answers, and a       *)
(* boundary redrawn after a corner of it was measured, are never to be     *)
(* explained; and a retraction which may be made though nothing is left    *)
(* asserted (DeprecateClaim, record.go:1081) is always told of, by whatever *)
(* sequence of edits the question came to it.                              *)
Silenced(subject, predicate) ==
    /\ ~Answered(head, subject, predicate)
    /\ \/ Answered(base, subject, predicate)
       \/ About(head, subject, predicate) # About(base, subject, predicate)
OrdinaryWorkOnlySilences ==
    change.ordinary /\ Distinct(base) /\ Distinct(head) =>
        /\ \A f \in Findings : f.kind = "claim-deprecated-without-replacement"
        /\ \A s \in Entities, p \in Predicates :
              Silenced(s, p) <=> \E f \in Findings : f.claim \in About(head, s, p)

(* A claim written under one id of both revisions, about the same question.*)
SameClaim(was, now) ==
    /\ was.id # NoReviewId /\ was.id = now.id
    /\ was.subject = now.subject /\ was.predicate = now.predicate

(* However a change came about, and whatever was done after, merging it    *)
(* loses nothing its policy rules a failure to lose (Review,               *)
(* review.go:406): every id of a claim is written, and no entity is gone   *)
(* which was not retired in favour of another; a question a claim with an  *)
(* id answered is answered; and no corner which stays one says another     *)
(* number under an id.                                                     *)
MergedStep ==
    LET Fails(kind) == change.policy[kind] = "failure"
    IN  /\ Fails("id-disappeared-without-supersession") =>
              /\ \A e \in Entities : base.held[e] \in {"live", "retired"} => head.held[e] # "absent"
              /\ \A c \in DOMAIN base.claims :
                    base.claims[c].id # NoReviewId => Holds(head, base.claims[c].id)
        /\ \A c \in DOMAIN base.claims, d \in DOMAIN head.claims :
              SameClaim(base.claims[c], head.claims[d]) =>
                 /\ /\ Fails("claim-deprecated-without-replacement")
                    /\ base.claims[c].rank = "normal"
                    => Answered(head, base.claims[c].subject, base.claims[c].predicate)
                 /\ Fails("boundary-moved-without-claim") =>
                       \A n \in Nodes :
                          /\ "absent" \notin {base.held[n], head.held[n]}
                          /\ base.claims[c].subject
                                \in ToSet(base.corners[n]) \cap ToSet(head.corners[n])
                          => head.claims[d].value = base.claims[c].value
MergesLoseNothing == [][base' # base => MergedStep]_reviewing

(* What review.go:391-395 says of every finding: it is about a difference, *)
(* so a revision compared with itself has none.                            *)
UnchangedIsSilent == base = head => Findings = {}
=============================================================================
