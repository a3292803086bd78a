------------------------------ MODULE ResultPoll ------------------------------
(***************************************************************************)
(* The seconds of a maintenance boot: restore-ios1.sh polls for the result  *)
(* a limited number of times, while the phone boots the ramdisk, works      *)
(* under its watchdog, writes its result and resets into recovery.  Neither *)
(* side knows how far the other one is.                                     *)
(*                                                                         *)
(* BasebandErase and BasebandUpdate show what a payload does before its     *)
(* watchdog ends, ConsoleReader how many answers of the console are missed  *)
(* before the result is seen, RestoreWorkflow what is believed of it.       *)
(*                                                                         *)
(* External: how long the phone takes to boot, to write NVRAM and to reset. *)
(***************************************************************************)
EXTENDS Naturals

Stage == {"erase", "update"}

CONSTANTS Polls,     \* of the script: 240 for the erase, 360 for the update
          Watchdog,  \* of the payload: 180 and 300 seconds
          Boot,      \* longest time from bootx to main
          Finish,    \* and from the end of the work to the reset
          Reset,     \* and from the reset to the recovery console
          Misses,    \* answers that may miss a result that is there
          Slow       \* longest time a printenv takes

ASSUME BoundsAssumption ==
  /\ Polls \in [Stage -> Nat] /\ Watchdog \in [Stage -> Nat]
  /\ {Boot, Finish, Reset, Misses, Slow} \subseteq Nat

\* The window of the script leaves room for what the phone does outside the watchdog.
ASSUME SlackAssumption ==
  \A s \in Stage : Boot + Watchdog[s] + Finish + Reset + Misses + 2 <= Polls[s]

VARIABLES
  stage,
  phase,  \* "boot" | "work" | "finish" | "reset" | "recovery" | "iOS"
  age,    \* seconds in this phase
  pc,     \* "poll" | "seen" | "gaveUp"
  polls,  \* iterations of the loop so far
  wait,   \* seconds until the next one
  misses

payload == <<phase, age>>
host    == <<pc, polls, wait, misses>>
vars    == <<stage, payload, host>>
-----------------------------------------------------------------------------
\* The phases with an end, and how long they last at most.
Limit(p) ==
  CASE p = "boot" -> Boot [] p = "work" -> Watchdog[stage]
    [] p = "finish" -> Finish [] p = "reset" -> Reset

Timed == {"boot", "work", "finish", "reset"}

TypeOK ==
  /\ stage \in Stage /\ phase \in Timed \cup {"recovery", "iOS"}
  /\ age \in Nat /\ (phase \in Timed => age <= Limit(phase))
  /\ pc \in {"poll", "seen", "gaveUp"}
  /\ polls \in 0..Polls[stage] /\ wait \in 0..(Slow + 1) /\ misses \in 0..Misses

Init ==
  /\ stage \in Stage /\ phase = "boot" /\ age = 0
  /\ pc = "poll" /\ polls = 0 /\ wait = 0 /\ misses = 0

-----------------------------------------------------------------------------
(* The phone.                                                              *)

Enter(from, to) ==
  phase = from /\ phase' = to /\ age' = 0 /\ UNCHANGED <<stage, host>>

Start == Enter("boot", "work")

\* The work is done, and the alarm is off.
Succeed == Enter("work", "finish")

\* reboot(0).
Restart == Enter("finish", "reset")

PowerUp == Enter("reset", "recovery")

\* It fails, or is cut short at any time before the result is in NVRAM.
FallBack == phase # "recovery" /\ Enter(phase, "iOS")

-----------------------------------------------------------------------------
(* The script.                                                             *)

\* Mutants: no more polls than the watchdog has seconds; polls without end.
ExhaustedWithWatchdog == polls >= Watchdog[stage]
ExhaustedNever == FALSE

Exhausted == polls = Polls[stage]

\* The loop ends without the result.
GiveUp ==
  /\ pc = "poll" /\ wait = 0 /\ Exhausted
  /\ pc' = "gaveUp"
  /\ UNCHANGED <<stage, payload, polls, wait, misses>>

\* has_pid finds no console: sleep 1.
NoConsole ==
  /\ pc = "poll" /\ wait = 0 /\ ~Exhausted /\ phase # "recovery"
  /\ polls' = polls + 1 /\ wait' = 1
  /\ UNCHANGED <<stage, payload, pc, misses>>

\* There is a console, and its answer has no result: iBoot has not yet started the
\* kernel, or the result is missed.  printenv takes its time.
NoResult ==
  /\ pc = "poll" /\ wait = 0 /\ ~Exhausted
  /\ \/ phase = "boot" /\ UNCHANGED misses
     \/ phase = "recovery" /\ misses < Misses /\ misses' = misses + 1
  /\ polls' = polls + 1 /\ wait' \in 1..(Slow + 1)
  /\ UNCHANGED <<stage, payload, pc>>

SeeResult ==
  /\ pc = "poll" /\ wait = 0 /\ ~Exhausted /\ phase = "recovery"
  /\ pc' = "seen" /\ polls' = polls + 1
  /\ UNCHANGED <<stage, payload, wait, misses>>

\* A second passes for both.  A phase with an end does not outlast it.
Tick ==
  /\ pc = "poll" /\ wait > 0
  /\ phase \in Timed => age < Limit(phase)
  /\ wait' = wait - 1
  /\ age' = IF phase \in Timed THEN age + 1 ELSE age
  /\ UNCHANGED <<stage, phase, pc, polls, misses>>

Phone  == Start \/ Succeed \/ Restart \/ PowerUp \/ FallBack
Script == GiveUp \/ NoConsole \/ NoResult \/ SeeResult

Next == Phone \/ Script \/ Tick

Spec == Init /\ [][Next]_vars
-----------------------------------------------------------------------------
(* Properties.                                                             *)

\* The script does not give up on a payload that succeeds: it has polls left when the
\* phone is back in recovery, however slowly every part of the way went
\* (restore-ios1.sh, the loops of 240 and 360 polls, against PROCESS_TIMEOUT).
SuccessIsSeen == pc = "gaveUp" => phase = "iOS"
=============================================================================
