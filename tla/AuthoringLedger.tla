-------------------------- MODULE AuthoringLedger ---------------------------
(***************************************************************************)
(* Authoring keeps a ledger: what a committed model says, read as Ledger's *)
(* entities, retirements, claims and retractions, only grows.              *)
(***************************************************************************)
EXTENDS Authoring

L == INSTANCE Ledger WITH
        None <- NoId,
        entities <- {<<i, graph[i].tag>> : i \in Written(graph)},
        retired <- {i \in Ids : Retired(graph, i)},
        claims <- {[at |-> at, id |-> At(graph, at).id, pred |-> At(graph, at).pred] :
                      at \in Places(graph)},
        retracted <- UNION {{[at |-> at, by |-> At(graph, at).by[k]] :
                                k \in DOMAIN At(graph, at).by} : at \in Places(graph)}

(* Every change any batch makes is one a ledger permits: whatever the      *)
(* operations assumed of one another, no id, claim, retraction or          *)
(* retirement which was once committed is changed, reissued or lost.       *)
KeepsALedger == L!Spec
=============================================================================
