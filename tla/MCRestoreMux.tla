----------------------------- MODULE MCRestoreMux -----------------------------
(***************************************************************************)
(* RestoreMux with the three attempts of the source.  Four process IDs:     *)
(* two for muxes that earlier runs have left behind, one for the mux of     *)
(* this run and one for a successor that starts too early.                  *)
(***************************************************************************)
EXTENDS RestoreMux
=============================================================================
