---------------------------- MODULE MCRefinement ----------------------------
(***************************************************************************)
(* The instance of MCModelTx's model for the refinement of AtomicModel.    *)
(***************************************************************************)
EXTENDS MCModelTx, ModelTxRefinement
=============================================================================
