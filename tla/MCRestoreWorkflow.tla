-------------------------- MODULE MCRestoreWorkflow --------------------------
(***************************************************************************)
(* RestoreWorkflow is finite as it stands: both products, both versions,   *)
(* any sequence of runs on one phone.                                       *)
(***************************************************************************)
EXTENDS RestoreWorkflow
=============================================================================
