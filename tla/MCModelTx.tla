----------------------------- MODULE MCModelTx -----------------------------
(***************************************************************************)
(* ModelTx over files which can define one thing and refer to it:          *)
(*   "def"   defines the thing, in canonical form,                         *)
(*   "Def"   defines it, written some other way,                           *)
(*   "use"   refers to it,                                                 *)
(*   "bad"   is in error whatever is beside it, and "empty" holds no form. *)
(* A tree loads when no file is bad, at most one defines the thing, and    *)
(* one does where some file refers to it.  Moving the definition from one  *)
(* file to the other is a change to both of them, and half of it is a tree *)
(* with two definitions or with none.                                      *)
(***************************************************************************)
EXTENDS ModelTx, FiniteSets, TLC

CONSTANTS t1, t2, f1

Procs == {t1, t2}
OneProc == {t1}
Formatters == {f1}
NoFormatters == {}

Contents == {"empty", "def", "Def", "use", "bad"}
SoundContents == {"empty", "def", "Def", "use"}

MCPrinted(c) == IF c = "Def" THEN "def" ELSE c

Definers(t) == {p \in DOMAIN t : t[p] \in {"def", "Def"}}
Users(t) == {p \in DOMAIN t : t[p] = "use"}

MCLoads(t) ==
    /\ \A p \in DOMAIN t : t[p] # "bad"
    /\ Cardinality(Definers(t)) <= 1
    /\ Users(t) # {} => Definers(t) # {}

Symmetry == Permutations(Procs)
=============================================================================
