------------------------- MODULE ModelTxRefinement -------------------------
(***************************************************************************)
(* ModelTx implements AtomicModel, where no formatter runs beside it.      *)
(* While a transaction is between its first rename and the end of its      *)
(* renames or of its rollback, the abstract tree is the one it began with: *)
(* a change lands when the last file has, and not before.                  *)
(***************************************************************************)
EXTENDS ModelTx

CONSTANT NoIntent

ASSUME IntentAssumption == NoIntent \notin Trees

InFlux(t) == pc[t] \in {"renaming", "rollback"}
Writing(t) == pc[t] \in {"staging", "renaming", "rollback"}

AbstractTree == IF lock \in Proc /\ InFlux(lock) THEN base[lock] ELSE disk

AbstractIntent == IF lock \in Proc /\ Writing(lock) THEN After(lock) ELSE NoIntent

AbstractTold ==
    IF lock \in Proc /\ pc[lock] = "releasing"
    THEN CASE outcome[lock] = "committed" -> "landed"
           [] outcome[lock] = "rollbackError" -> "torn"
           [] OTHER -> "unchanged"
    ELSE "nothing"

Atomic == INSTANCE AtomicModel
            WITH tree <- AbstractTree, holder <- lock,
                 intent <- AbstractIntent, told <- AbstractTold

\* Every step of the write path is a step of the promise, or changes nothing
\* the promise speaks of.
WritesAreAtomic == Atomic!Spec
=============================================================================
