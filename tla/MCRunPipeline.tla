--------------------------- MODULE MCRunPipeline ---------------------------
(***************************************************************************)
(* Instances of RunPipeline for TLC.                                       *)
(***************************************************************************)
EXTENDS RunPipelineInv, TLC

FileSymmetry == Permutations(Files)
=============================================================================
