----------------------------- MODULE MCResultPoll -----------------------------
(***************************************************************************)
(* ResultPoll with the numbers of the code, and times of the phone that use *)
(* up all the slack they leave: 60 seconds for each stage.                  *)
(***************************************************************************)
EXTENDS ResultPoll

Window == [erase |-> 240, update |-> 360]
Alarm  == [erase |-> 180, update |-> 300]
=============================================================================
