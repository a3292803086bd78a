--------------------------- MODULE MCBasebandErase ---------------------------
(***************************************************************************)
(* BasebandErase with two prompts and two polls.  The start-up takes up to  *)
(* a second and the alarm is set one second beyond the longest run, as      *)
(* tight as BudgetAssumption allows.                                        *)
(***************************************************************************)
EXTENDS BasebandErase
=============================================================================
