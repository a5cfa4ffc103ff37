------------------------------- MODULE Ledger -------------------------------
(***************************************************************************)
(* What authoring promises a reader of the model, with none of how it is   *)
(* done: a ledger.  An id is issued once and for ever, a thing which       *)
(* stopped existing keeps its id, a claim is never edited or removed, and  *)
(* what replaced a retracted claim is written beside it, once.             *)
(***************************************************************************)
EXTENDS Naturals

VARIABLES entities,   \* set of <<id, family>>
          retired,    \* the ids of the nodes which stopped existing
          claims,     \* set of [at, id, pred]: where it stands is who it is
          retracted   \* set of [at, by]: what replaced the claim standing there
ledger == <<entities, retired, claims, retracted>>

(* No two things hold one id. *)
Distinct(es, cs, none) ==
    /\ \A e1, e2 \in es : e1[1] = e2[1] => e1 = e2
    /\ \A c1, c2 \in cs : c1.id = c2.id /\ c1.id # none => c1 = c2
    /\ \A e \in es, c \in cs : e[1] # c.id

(* A claim is retracted once. *)
Once(rs) == \A r1, r2 \in rs : r1.at = r2.at => r1 = r2

(* The claims a retraction of at leads to. *)
Asserted(cs, rs) == {c \in cs : \A r \in rs : r.at # c.at}

(* Following replacements from any claim reaches one which is still        *)
(* asserted: the claims with such an end are the least set which holds     *)
(* the asserted ones and whatever was retracted in favour of a member, so  *)
(* no set of retracted claims is closed under replacement.                 *)
Ends(cs, rs) ==
    \A loop \in SUBSET (cs \ Asserted(cs, rs)) :
        loop = {} \/ \E c \in loop : \E r \in rs :
                        r.at = c.at /\ ~ \E d \in loop : d.id = r.by

(* What is retracted was written, and what replaced it was written too. *)
Named(cs, rs) ==
    \A r \in rs : (\E c \in cs : c.at = r.at) /\ (\E c \in cs : c.id = r.by)

CONSTANT None
Sound(es, cs, rs) ==
    Distinct(es, cs, None) /\ Once(rs) /\ Named(cs, rs) /\ Ends(cs, rs)

Init == Sound(entities, claims, retracted)

(* A change writes things down.  It removes none and reissues no id. *)
Record ==
    /\ ledger' # ledger
    /\ entities \subseteq entities' /\ retired \subseteq retired'
    /\ claims \subseteq claims' /\ retracted \subseteq retracted'
    /\ Sound(entities', claims', retracted')

Spec == Init /\ [][Record]_ledger
=============================================================================
