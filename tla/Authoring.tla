----------------------------- MODULE Authoring ------------------------------
(***************************************************************************)
(* Batches of authoring operations over one transaction (author.go,        *)
(* record.go, geometry.go, relate.go, backing.go, batch.go).               *)
(*                                                                         *)
(* Begin loads the model into a graph and holds its forms.  An operation   *)
(* asks some of its questions of that graph, which no operation changes,   *)
(* and the others of the forms, which every earlier operation of the batch *)
(* has changed; Commit writes the forms when a load of them would report   *)
(* no error.  What is true of a committed model is therefore the work of   *)
(* checks made against two different models and of the rules of the load,  *)
(* and no one of the three is enough.                                      *)
(*                                                                         *)
(* The lock keeps other writers away while a batch is applied (ModelTx),   *)
(* so the files on disk and the graph Begin loaded are one variable here.  *)
(*                                                                         *)
(* All nodes are Elements, which nest in one another and back edges, so    *)
(* the rules about kinds refuse nothing.  Of the seven relations redirect  *)
(* rewrites, within, backed-by and superseded-by are kept: one which holds *)
(* one id, one which holds many, one which a retirement writes.            *)
(***************************************************************************)
EXTENDS Naturals, FiniteSets, Sequences

CONSTANTS Names,          \* ids of the nodes and edges of the models begun with
          Chosen,         \* ids an author gives to new nodes, edges and claims
          Frame,          \* the one frame which has a parent
          Predicates,     \* the predicates claims are written under
          Transforms,     \* those of them whose shape is a transform
          NoId,           \* no id was written
          Genesis,        \* the models on disk to begin with
          MaxOrdinal,     \* bound: the ordinals a minted id may carry
          MaxOperations   \* bound: operations in all batches together

Minted == (Names \cup {Frame}) \X Predicates \X (1..MaxOrdinal)
Ids == Names \cup Chosen \cup {Frame} \cup Minted

(* A claim as written: by holds the argument of each superseded-by child,  *)
(* beside each of which a rank of deprecated is written.                   *)
Claims == [id : Ids \cup {NoId}, pred : Predicates, by : Seq(Ids)]

(* A top-level form, with the children the rules here read. *)
Forms == [tag : {"none", "node", "edge", "frame"},
          within : Ids \cup {NoId}, backing : Seq(Ids),
          transform : Ids \cup {NoId},
          retired : Seq(Ids \cup {NoId}), claims : Seq(Claims)]
Blank == [tag |-> "none", within |-> NoId, backing |-> <<>>,
          transform |-> NoId, retired |-> <<>>, claims |-> <<>>]

ASSUME ConstantsOK ==
    /\ NoId \notin Ids
    /\ Frame \notin Names
    /\ Frame \notin Chosen
    /\ Transforms \subseteq Predicates
    /\ MaxOrdinal \in Nat /\ MaxOperations \in Nat
    /\ Genesis \subseteq [Ids -> Forms]
    /\ \A g \in Genesis : /\ g[Frame].tag = "frame"
                         /\ \A i \in Ids : g[i].tag = "none" => g[i] = Blank

VARIABLES graph,       \* [Ids -> Forms]: the files, and what Begin loaded
          forms,       \* [Ids -> Forms]: what the transaction holds
          phase,       \* "idle", "open", "refused"
          operations,  \* operations applied so far, by this batch and others
          kinds        \* the kinds of operation the open batch has applied
vars == <<graph, forms, phase, operations, kinds>>

Kinds == {"AddNode", "AddEdge", "Relate", "SetBacking", "Annotate", "AddClaim",
          "Supersede", "MintAndSupersede", "DeprecateClaim", "Retire"}

-----------------------------------------------------------------------------
(* Questions asked of a model f, which is the graph or the forms.          *)

Entities(f) == {i \in Ids : f[i].tag \in {"node", "edge"}}
NodesOf(f) == {i \in Ids : f[i].tag = "node"}
Written(f) == {i \in Ids : f[i].tag # "none"}
Places(f) == UNION {{i} \X DOMAIN f[i].claims : i \in {j \in Ids : f[j].claims # <<>>}}
At(f, at) == f[at[1]].claims[at[2]]
ClaimIds(f) == {At(f, at).id : at \in Places(f)} \ {NoId}
Deprecated(claim) == claim.by # <<>>
Retired(f, i) == f[i].retired # <<>>
Live(f, s, p) ==
    {at \in Places(f) : at[1] = s /\ At(f, at).pred = p /\ ~Deprecated(At(f, at))}
ClaimOf(f, id) == CHOOSE at \in Places(f) : At(f, at).id = id

(* The forms of f which name the node id, its own left out. *)
Naming(form, id) ==
    form.within = id \/ id \in {form.backing[k] : k \in DOMAIN form.backing}
    \/ id \in {form.retired[k] : k \in DOMAIN form.retired}
References(f, id) == {i \in Entities(f) \ {id} : Naming(f[i], id)}

(* free: nothing of the graph holds the id.  unheld: nor any form of the   *)
(* change.  claimWritten: a claim of the change holds it.                  *)
Free(id) == id \notin Written(graph) \cup ClaimIds(graph)
Unheld(id) == Free(id) /\ id \notin Written(forms)
ClaimWritten(id) == id \in ClaimIds(forms)
Subject(s) == s \in Entities(graph) \cup {Frame} \cup Entities(forms)
Refers(id, tag) ==
    IF id \in Entities(graph) THEN graph[id].tag = tag ELSE forms[id].tag = tag

(* Mutant: the forms the batch added are not asked.                        *)
MintUnasked(s, p) ==
    {<<s, p, n>> : n \in {m \in 1..MaxOrdinal :
        LET Taken(k) == ClaimWritten(<<s, p, k>>) \/ ~Free(<<s, p, k>>)
        IN  ~Taken(m) /\ \A k \in 1..(m - 1) : Taken(k)}}
(* The lowest ordinal nothing holds.  A name with an ordinal past the bound *)
(* is not minted, and the batch goes no further.                           *)
Mint(s, p) ==
    {<<s, p, n>> : n \in {m \in 1..MaxOrdinal :
        LET Taken(k) == \/ ClaimWritten(<<s, p, k>>)
                        \/ <<s, p, k>> \in Written(forms)
                        \/ ~Free(<<s, p, k>>)
        IN  ~Taken(m) /\ \A k \in 1..(m - 1) : Taken(k)}}

-----------------------------------------------------------------------------
(* What a load of f refuses.                                               *)

(* Somewhere next leads round and never out: the load walks it from every  *)
(* id until it comes back to one (claims.cycles, spaces.cycles).           *)
Cyclic(next) == \E s \in SUBSET DOMAIN next : s # {} /\ \A id \in s : next[id] \in s

Replacements(f) ==
    [id \in {At(f, at).id : at \in {w \in Places(f) : Deprecated(At(f, w))}} \ {NoId} |->
        At(f, ClaimOf(f, id)).by[1]]
Parents(f) == [id \in {i \in Ids : f[i].within # NoId} |-> f[id].within]

OneIdEach(f) ==
    /\ Written(f) \cap ClaimIds(f) = {}
    /\ \A a, b \in Places(f) : At(f, a).id = At(f, b).id /\ At(f, a).id # NoId => a = b
(* Mutant: a claim may carry more than one superseded-by.                  *)
WrittenOnceEach(f) == \A i \in Ids : Len(f[i].retired) <= 1
WrittenOnce(f) ==
    /\ \A i \in Ids : Len(f[i].retired) <= 1
    /\ \A at \in Places(f) : Len(At(f, at).by) <= 1
    /\ \A i \in Ids : \A j, k \in DOMAIN f[i].backing :
            f[i].backing[j] = f[i].backing[k] => j = k
NodesResolve(f) ==
    \A i \in Entities(f) :
        /\ f[i].within # NoId => f[i].within \in NodesOf(f)
        /\ \A k \in DOMAIN f[i].backing : f[i].backing[k] \in NodesOf(f)
        /\ \A k \in DOMAIN f[i].retired :
              f[i].retired[k] # NoId => f[i].retired[k] \in NodesOf(f) \ {i}
ClaimsResolve(f) ==
    \A at \in Places(f) : \A k \in DOMAIN At(f, at).by : At(f, at).by[k] \in ClaimIds(f)
FrameResolves(f) ==
    f[Frame].transform # NoId =>
        /\ f[Frame].transform \in ClaimIds(f)
        /\ At(f, ClaimOf(f, f[Frame].transform)).pred \in Transforms
(* Mutant: nothing looks for a supersession which comes back to itself.    *)
LoadsCircles(f) ==
    /\ OneIdEach(f) /\ WrittenOnce(f)
    /\ NodesResolve(f) /\ ClaimsResolve(f) /\ FrameResolves(f) /\ ~Cyclic(Parents(f))
Loads(f) ==
    /\ OneIdEach(f) /\ WrittenOnce(f)
    /\ NodesResolve(f) /\ ClaimsResolve(f) /\ FrameResolves(f)
    /\ ~Cyclic(Replacements(f)) /\ ~Cyclic(Parents(f))

-----------------------------------------------------------------------------
(* What each operation refuses, and the forms it leaves.                   *)

AddNodeAllowed(id) == Unheld(id)
NodeAdded(id) == [forms EXCEPT ![id] = [Blank EXCEPT !.tag = "node"]]

AddEdgeAllowed(id, backing) == Unheld(id) /\ (backing # NoId => Refers(backing, "node"))
EdgeAdded(id, backing) ==
    [forms EXCEPT ![id] = [Blank EXCEPT !.tag = "edge",
                              !.backing = IF backing = NoId THEN <<>> ELSE <<backing>>]]

(* What is related to is not looked at: Commit is what refuses it. *)
RelateAllowed(id) == Refers(id, "node")
Related(id, within) == [forms EXCEPT ![id].within = within]

SetBackingAllowed(id) == Refers(id, "edge")
BackedAs(id, backing) ==
    [forms EXCEPT ![id].backing = IF backing = NoId THEN <<>> ELSE <<backing>>]

AnnotateAllowed(id) == id \in Entities(graph) \cup Entities(forms)

(* Record refuses an id something of the graph, or a claim of the change,  *)
(* holds; one a form the change added holds is left to Commit.             *)
RecordAllowed(s, id) ==
    Subject(s) /\ (id # NoId => Free(id) /\ ~ClaimWritten(id))
Recorded(s, p, id) ==
    [forms EXCEPT ![s].claims = Append(@, [id |-> id, pred |-> p, by |-> <<>>])]

(* Mutant: what was retracted and what replaced it change places.          *)
RetractedBackwards(f, at, by) ==
    [f EXCEPT ![at[1]].claims[at[2]].by = Append(@, At(graph, at).id)]
(* Mutant: the frame is pointed at the newest claim, whichever it named.   *)
RetractedAnyFrame(f, at, by) ==
    LET marked == [f EXCEPT ![at[1]].claims[at[2]].by = Append(@, by)]
    IN  [marked EXCEPT ![Frame].transform = by]
(* The claim standing at a place of f is retracted in favour of by, and a  *)
(* frame which names it is pointed at by.                                  *)
Retracted(f, at, by) ==
    LET claim == At(graph, at)
        marked == [f EXCEPT ![at[1]].claims[at[2]].by = Append(@, by)]
    IN  IF claim.id # NoId /\ f[Frame].transform = claim.id
        THEN [marked EXCEPT ![Frame].transform = by] ELSE marked

SupersedeAllowed(s, p, id) ==
    /\ Cardinality(Live(graph, s, p)) = 1
    /\ RecordAllowed(s, id)
Superseded(s, p, id) ==
    Retracted(Recorded(s, p, id), CHOOSE at \in Live(graph, s, p) : TRUE, id)

DeprecateAllowed(id, by) ==
    /\ id \in ClaimIds(graph) /\ ~Deprecated(At(graph, ClaimOf(graph, id)))
    /\ by # id
    /\ by \in ClaimIds(graph) \/ ClaimWritten(by)

RetireAllowed(id, by) ==
    /\ id \in NodesOf(graph) /\ ~Retired(graph, id)
    /\ by # NoId => by # id /\ by \in NodesOf(graph) /\ ~Retired(graph, by)
    /\ by = NoId => References(graph, id) = {}

(* Every reference to id which a form makes is made to by. *)
Repointed(list, id, by) == [k \in DOMAIN list |-> IF list[k] = id THEN by ELSE list[k]]
(* Mutant: what a retirement names is not a reference.                     *)
RedirectedRelations(form, id, by) ==
    [form EXCEPT !.within = IF @ = id THEN by ELSE @, !.backing = Repointed(@, id, by)]
Redirected(form, id, by) ==
    [form EXCEPT !.within = IF @ = id THEN by ELSE @,
                 !.backing = Repointed(@, id, by),
                 !.retired = Repointed(@, id, by)]
RetiredAs(id, by) ==
    LET redirected == [i \in Ids |->
            IF i \in References(graph, id) THEN Redirected(forms[i], id, by) ELSE forms[i]]
    IN  [redirected EXCEPT ![id].retired = Append(@, by)]
-----------------------------------------------------------------------------
(* Begin loads the model and holds its forms. *)
Begin ==
    /\ phase = "idle" /\ phase' = "open"
    /\ UNCHANGED <<graph, forms, operations, kinds>>

(* An operation which is not refused leaves the forms it wrote. *)
Operation(kind, allowed, after) ==
    /\ phase = "open" /\ operations < MaxOperations
    /\ allowed
    /\ forms' = after /\ operations' = operations + 1 /\ kinds' = kinds \cup {kind}
    /\ UNCHANGED <<graph, phase>>

AddNode == \E id \in Chosen : Operation("AddNode", AddNodeAllowed(id), NodeAdded(id))
AddEdge ==
    \E id \in Chosen, backing \in Names \cup {NoId} :
        Operation("AddEdge", AddEdgeAllowed(id, backing), EdgeAdded(id, backing))
Relate ==
    \E id, within \in Names :
        Operation("Relate", RelateAllowed(id), Related(id, within))
SetBacking ==
    \E id \in Names, backing \in Names \cup {NoId} :
        Operation("SetBacking", SetBackingAllowed(id), BackedAs(id, backing))
Annotate ==
    \E id \in Names : Operation("Annotate", AnnotateAllowed(id), forms)
AddClaim ==
    \E s \in Names \cup {Frame}, p \in Predicates, id \in Chosen \cup {NoId} :
        Operation("AddClaim", RecordAllowed(s, id), Recorded(s, p, id))
Supersede ==
    \E s \in Names \cup {Frame}, p \in Predicates, id \in Chosen :
        Operation("Supersede", SupersedeAllowed(s, p, id), Superseded(s, p, id))
MintAndSupersede ==
    \E s \in Names \cup {Frame}, p \in Predicates : \E id \in Mint(s, p) :
        Operation("MintAndSupersede", SupersedeAllowed(s, p, id), Superseded(s, p, id))
DeprecateClaim ==
    \E id \in ClaimIds(graph), by \in ClaimIds(graph) \cup ClaimIds(forms) :
        Operation("DeprecateClaim", DeprecateAllowed(id, by),
                  Retracted(forms, ClaimOf(graph, id), by))
Retire ==
    \E id \in Names, by \in Names \cup {NoId} :
        Operation("Retire", RetireAllowed(id, by), RetiredAs(id, by))

(* The first operation which is refused ends the batch: Apply returns, the *)
(* forms the earlier ones wrote are as they left them, and the command     *)
(* closes the transaction.                                                 *)
Refuse ==
    /\ phase = "open" /\ operations < MaxOperations
    /\ \/ \E id \in Chosen : ~AddNodeAllowed(id)
       \/ \E id \in Chosen, backing \in Names : ~AddEdgeAllowed(id, backing)
       \/ \E id \in Names : ~RelateAllowed(id) \/ ~SetBackingAllowed(id) \/ ~AnnotateAllowed(id)
       \/ \E s \in Names, id \in Chosen \cup {NoId} : ~RecordAllowed(s, id)
       \/ \E s \in Names, p \in Predicates, id \in Chosen : ~SupersedeAllowed(s, p, id)
       \/ \E id \in ClaimIds(graph), by \in ClaimIds(forms) : ~DeprecateAllowed(id, by)
       \/ \E id \in Names, by \in Names \cup {NoId} : ~RetireAllowed(id, by)
    /\ phase' = "refused"
    /\ UNCHANGED <<graph, forms, operations, kinds>>

Done(found) ==
    /\ phase' = "idle" /\ kinds' = {}
    /\ graph' = found /\ forms' = found
    /\ UNCHANGED operations
Close == phase # "idle" /\ Done(graph)
Commit == phase = "open" /\ Loads(forms) /\ Done(forms)

Init ==
    /\ graph \in Genesis /\ Loads(graph) /\ forms = graph
    /\ phase = "idle" /\ operations = 0 /\ kinds = {}
Next ==
    \/ Begin \/ AddNode \/ AddEdge \/ Relate \/ SetBacking \/ Annotate
    \/ AddClaim \/ Supersede \/ MintAndSupersede \/ DeprecateClaim \/ Retire
    \/ Refuse \/ Close \/ Commit
Spec == Init /\ [][Next]_vars
-----------------------------------------------------------------------------
TypeOK ==
    /\ graph \in [Ids -> Forms] /\ forms \in [Ids -> Forms]
    /\ phase \in {"idle", "open", "refused"}
    /\ operations \in 0..MaxOperations
    /\ kinds \subseteq Kinds

(* A correction under a minted id spoils nothing.  It gives no id a second *)
(* time, whatever an author or an earlier correction of the batch took     *)
(* (MintClaimID, record.go:1421); and a batch which would have been taken  *)
(* still is: what it names resolves, the frame is on a transform, and no   *)
(* claim is its own replacement.  All but one: what the batch retracted    *)
(* before is found once more in the graph, and Commit refuses it.  (What   *)
(* the action does to operations and kinds is asked first, being cheaper.) *)
CorrectionsSpoilNothing ==
    [][operations' # operations /\ "MintAndSupersede" \in kinds' /\ MintAndSupersede =>
        /\ OneIdEach(forms) => OneIdEach(forms')
        /\ WrittenOnce(forms') /\ Loads(forms) => Loads(forms')]_vars

(* A frame is moved along the history of the claim it names and nowhere    *)
(* else: every set of claims which holds the one a frame named and is      *)
(* closed under what replaced what holds the one it names now, in whatever *)
(* order a batch retracted them.                                           *)
Closed(f, ids) ==
    \A at \in Places(f) : At(f, at).id \in ids =>
        \A k \in DOMAIN At(f, at).by : At(f, at).by[k] \in ids
FramesFollowTheirClaims ==
    [][graph' # graph => \A ids \in SUBSET ClaimIds(graph') :
        graph[Frame].transform \in ids /\ Closed(graph', ids) =>
            graph'[Frame].transform \in ids]_vars

(* A correction replaces: a batch which wrote claims by superseding alone  *)
(* leaves as many asserted under every subject and predicate as it found,  *)
(* though each correction looked for the claim to replace in the graph.    *)
CorrectionsReplace ==
    [][graph' # graph /\ kinds \cap {"AddClaim", "DeprecateClaim"} = {} =>
        \A s \in Ids, p \in Predicates :
            Cardinality(Live(graph', s, p)) = Cardinality(Live(graph, s, p))]_vars

(* A change which retires one node, and relates nothing itself, leaves no  *)
(* reference to it anywhere: nested in a retirement, in a form with other  *)
(* references to redirect, or made by a node retired long before.          *)
RetiringRedirects ==
    [][LET gone == {i \in Ids : Retired(graph', i) /\ ~Retired(graph, i)}
           related == kinds \cap {"AddEdge", "Relate", "SetBacking"} # {}
       IN  graph' # graph /\ Cardinality(gone) = 1 /\ ~related =>
               \A i \in gone : References(graph', i) = {}]_vars

(* What retransform (record.go) is for: at rest no frame reads a claim the *)
(* model says is wrong.                                                    *)
FramesNameAssertedClaims ==
    phase = "idle" =>
        ~\E at \in Places(graph) :
            At(graph, at).id = graph[Frame].transform /\ Deprecated(At(graph, at))
=============================================================================
