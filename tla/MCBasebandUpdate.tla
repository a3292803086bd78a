-------------------------- MODULE MCBasebandUpdate --------------------------
(***************************************************************************)
(* BasebandUpdate needs no bounds: every counter is bounded by the program. *)
(***************************************************************************)
EXTENDS BasebandUpdate
=============================================================================
