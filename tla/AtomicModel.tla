---------------------------- MODULE AtomicModel ----------------------------
(***************************************************************************)
(* What the write path promises, with nothing of how it does it: one call  *)
(* at a time holds the model, and a call either turns a tree which loads   *)
(* into another tree which loads, in one step, or does nothing.  The two   *)
(* ways out of that promise are steps of their own: a call which reports   *)
(* that it could not put everything back, and a call which was killed.     *)
(***************************************************************************)

CONSTANTS
    Proc,       \* who can call
    Path,       \* the files of a tree
    OnDisk,     \* what can be at a path
    Loads(_),   \* whether a tree loads
    Hands,      \* whether the tree is also edited by hand
    NoOne,      \* nobody holds the model
    NoIntent    \* no change is being made

VARIABLES
    tree,       \* the model: Path -> OnDisk
    holder,     \* who holds it
    intent,     \* the tree the holder is turning it into
    told        \* what the holder's call is about to report

avars == <<tree, holder, intent, told>>

Trees == [Path -> OnDisk]

\* Some of a change and not the rest of it.
Mixture(old, new) == {t \in Trees : \A p \in Path : t[p] \in {old[p], new[p]}}

Init ==
    /\ tree \in Trees
    /\ Loads(tree)
    /\ holder = NoOne
    /\ intent = NoIntent
    /\ told = "nothing"

Take(t) ==
    /\ holder = NoOne
    /\ holder' = t
    /\ UNCHANGED <<tree, intent, told>>

\* Only a tree which loads is changed, and only into one which does.
Intend ==
    /\ holder # NoOne
    /\ intent = NoIntent
    /\ told = "nothing"
    /\ Loads(tree)
    /\ intent' \in Trees
    /\ Loads(intent')
    /\ UNCHANGED <<tree, holder, told>>

\* The whole change, at once.
Land ==
    /\ intent # NoIntent
    /\ tree' = intent
    /\ intent' = NoIntent
    /\ told' = "landed"
    /\ UNCHANGED holder

\* Refused, dry, given up or failed: not a byte of the tree is different.
Decline ==
    /\ holder # NoOne
    /\ told = "nothing"
    /\ intent' = NoIntent
    /\ told' = "unchanged"
    /\ UNCHANGED <<tree, holder>>

\* The change failed, and what it had done could not all be undone.
Tear ==
    /\ intent # NoIntent
    /\ tree' \in Mixture(tree, intent)
    /\ intent' = NoIntent
    /\ told' = "torn"
    /\ UNCHANGED holder

\* The holder is killed, and keeps the model until somebody takes it away.
Kill ==
    /\ holder # NoOne
    /\ tree' \in (IF intent = NoIntent THEN {tree} ELSE Mixture(tree, intent))
    /\ intent' = NoIntent
    /\ told' = "nothing"
    /\ UNCHANGED holder

\* The call returns, and the model is let go of, unless that failed.
Return ==
    /\ holder # NoOne
    /\ intent = NoIntent
    /\ holder' \in {holder, NoOne}
    /\ told' = "nothing"
    /\ UNCHANGED <<tree, intent>>

Edit ==
    /\ Hands
    /\ intent = NoIntent
    /\ told = "nothing"
    /\ \E p \in Path, c \in OnDisk : tree' = [tree EXCEPT ![p] = c]
    /\ UNCHANGED <<holder, intent, told>>

Next ==
    \/ \E t \in Proc : Take(t)
    \/ Intend \/ Land \/ Decline \/ Tear \/ Kill \/ Return \/ Edit

Spec == Init /\ [][Next]_avars
=============================================================================
