----------------------- MODULE MCExecutionBackend -----------------------
(***************************************************************************)
(* Instances of ExecutionBackend for TLC; the configurations give the      *)
(* runs, the keys and the sizes.                                           *)
(***************************************************************************)
EXTENDS ExecutionBackend
=============================================================================
