------------------------------ MODULE MCLockdown ------------------------------
(***************************************************************************)
(* Lockdown with the attempts of activate-ios1.sh and enter_recovery, and   *)
(* faults enough to spoil them all.                                         *)
(***************************************************************************)
EXTENDS Lockdown

Tries == [activate |-> 2, enterRecovery |-> 5]
=============================================================================
