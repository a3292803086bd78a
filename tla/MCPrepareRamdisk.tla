---------------------------- MODULE MCPrepareRamdisk ----------------------------
(***************************************************************************)
(* PrepareRamdisk is finite as it stands.                                   *)
(***************************************************************************)
EXTENDS PrepareRamdisk
=============================================================================
