------------------------------ MODULE RestoreMux ------------------------------
(***************************************************************************)
(* The private USB mux of restore-ios1.sh: start_restore_mux,               *)
(* stop_restore_mux, cleanup, the traps, and the loop that waits for the    *)
(* restore ramdisk to attach.                                               *)
(*                                                                         *)
(* Every mux listens on the same address, and only one mux can hold the     *)
(* phone.  A mux that is still there when the next one starts, or when      *)
(* idevicerestore goes through the mux of the system, takes the phone away  *)
(* from it.  The script, the muxes it has put into the background and the   *)
(* signals a user sends run concurrently.                                   *)
(*                                                                         *)
(* One behaviour is any sequence of runs: a bootstrap restore is a run that *)
(* ends before its parent starts a mux, and the partition retry is the same *)
(* process that starts over.  The polls of one attempt are one step.        *)
(***************************************************************************)
EXTENDS FiniteSets, Naturals

CONSTANTS Pid,       \* process IDs
          NoPid,     \* an empty MUX_PID
          Attempts   \* how often the script waits for its mux: 3

ASSUME PidAssumption == NoPid \notin Pid
ASSUME AttemptsAssumption == Attempts \in Nat \ {0}

VARIABLES
  pc,        \* the script
  MUX_PID,
  lastPid,   \* $!
  attempt,   \* mux_attempt
  retried,   \* IOS1_PARTITION_RETRY
  via,       \* the mux idevicerestore is started with
  abrupt,    \* the run was ended in a way the script does not clean up after
  alive,     \* the muxes that run
  dying,     \* those of them that have been sent SIGTERM
  left       \* those of them that an earlier run has left behind

script == <<pc, MUX_PID, lastPid, attempt, retried, via, abrupt>>
muxes  == <<alive, dying, left>>
vars   == <<script, muxes>>
-----------------------------------------------------------------------------
\* The muxes of the present run.
Own == alive \ left

\* From trap to `trap -', INT and TERM make the script exit, and so run cleanup.
Trapped ==
  {"prepare", "start", "spawned", "boot", "attach", "stopRetry", "stopFallback",
   "fallback", "restore", "finish", "retryCleanup", "retryWait"}

TypeOK ==
  /\ pc \in Trapped \cup {"untrapped", "exiting", "cleaning", "gone"}
  /\ MUX_PID \in Pid \cup {NoPid} /\ lastPid \in Pid \cup {NoPid}
  /\ attempt \in 1..Attempts
  /\ retried \in BOOLEAN /\ abrupt \in BOOLEAN
  /\ via \in {"none", "private", "system"}
  /\ alive \subseteq Pid /\ dying \subseteq alive /\ left \subseteq alive

Init ==
  /\ pc = "gone" /\ MUX_PID = NoPid /\ lastPid = NoPid
  /\ attempt = 1 /\ retried = FALSE /\ via = "none" /\ abrupt = FALSE
  /\ alive = {} /\ dying = {} /\ left = {}

-----------------------------------------------------------------------------
(* The script.                                                             *)

Goto(from, to) ==
  pc = from /\ pc' = to /\ UNCHANGED <<MUX_PID, lastPid, attempt, retried, via, abrupt>>

\* A new image of the script starts, in a new process or by exec.
Begin ==
  /\ pc' = "prepare" /\ MUX_PID' = NoPid /\ lastPid' = NoPid
  /\ attempt' = 1 /\ via' = "none"

\* The next run, if there are process IDs left for its mux and one more.
Launch ==
  /\ pc = "gone" /\ Cardinality(Pid \ alive) >= 2
  /\ Begin /\ retried' = FALSE /\ abrupt' = FALSE
  /\ left' = alive /\ UNCHANGED <<alive, dying>>

\* Everything up to the stock boot, the bootstrap restore included.
Prepare == Goto("prepare", "start") /\ UNCHANGED muxes

Spawn ==
  /\ pc = "start"
  /\ \E p \in Pid \ alive : lastPid' = p /\ alive' = alive \cup {p}
  /\ pc' = "spawned"
  /\ UNCHANGED <<MUX_PID, attempt, retried, via, abrupt, dying, left>>

\* MUX_PID=$!; only the first mux is started before the ramdisk boots, and not
\* with --resume.
Record ==
  /\ pc = "spawned" /\ MUX_PID' = lastPid
  /\ pc' \in IF attempt = 1 THEN {"boot", "attach"} ELSE {"attach"}
  /\ UNCHANGED <<lastPid, attempt, retried, via, abrupt, muxes>>

BootStock == Goto("boot", "attach") /\ UNCHANGED muxes

\* kill "$MUX_PID".
Kill == dying' = dying \cup ({MUX_PID} \cap alive) /\ UNCHANGED <<alive, left>>

\* Mutant: the script does not wait for its mux to end.
WaitedNot == TRUE

\* wait "$MUX_PID": it returns when the mux has ended.
Waited == MUX_PID \notin alive

\* idevice_id finds the phone on the address, whoever listens there.
Attach ==
  /\ pc = "attach" /\ alive # {}
  /\ pc' = "restore" /\ via' = "private"
  /\ UNCHANGED <<MUX_PID, lastPid, attempt, retried, abrupt, muxes>>

\* Mutant: one attempt too many.
AttachFailsOnceMore ==
  /\ pc = "attach"
  /\ pc' = IF attempt <= Attempts THEN "stopRetry" ELSE "stopFallback"
  /\ Kill
  /\ UNCHANGED <<MUX_PID, lastPid, attempt, retried, via, abrupt>>

AttachFails ==
  /\ pc = "attach"
  /\ pc' = IF attempt < Attempts THEN "stopRetry" ELSE "stopFallback"
  /\ Kill
  /\ UNCHANGED <<MUX_PID, lastPid, attempt, retried, via, abrupt>>

Stopped ==
  /\ pc \in {"stopRetry", "stopFallback"} /\ Waited
  /\ MUX_PID' = NoPid
  /\ IF pc = "stopRetry"
     THEN pc' = "start" /\ attempt' = attempt + 1
     ELSE pc' = "fallback" /\ UNCHANGED attempt
  /\ UNCHANGED <<lastPid, retried, via, abrupt, muxes>>

\* The mux of the system has the phone.
Fallback ==
  /\ pc = "fallback"
  /\ pc' = "restore" /\ via' = "system"
  /\ UNCHANGED <<MUX_PID, lastPid, attempt, retried, abrupt, muxes>>

RestoreSucceeds == Goto("restore", "finish") /\ UNCHANGED muxes

\* Mutant: the retry does not remember that it is one.
CanRetryAlways == TRUE

CanRetry == ~retried

\* The restore failed in the partition step: cleanup is called, which does not
\* clear MUX_PID.
PartitionFails == Goto("restore", "retryCleanup") /\ CanRetry /\ Kill

RetryCleaned == Goto("retryCleanup", "retryWait") /\ Waited /\ UNCHANGED muxes

\* The phone is back in recovery: `trap -' and, one command later, exec.
Untrap == Goto("retryWait", "untrapped") /\ UNCHANGED muxes

Exec ==
  /\ pc = "untrapped" /\ Begin
  /\ retried' = TRUE /\ UNCHANGED <<abrupt, muxes>>

\* A command fails under set -e, a wait times out, no mux finds the phone,
\* idevicerestore fails, or the run is complete.
Exits ==
  /\ pc \in {"prepare", "boot", "fallback", "restore", "finish", "retryWait"}
  /\ Goto(pc, "exiting") /\ UNCHANGED muxes

\* The EXIT trap: cleanup.
CleanupKill == Goto("exiting", "cleaning") /\ Kill

CleanupDone == Goto("cleaning", "gone") /\ Waited /\ UNCHANGED muxes
-----------------------------------------------------------------------------
(* Signals and muxes.                                                      *)

\* Mutant: the traps are missing, a signal ends the script where it stands.
SignalUntrapped ==
  /\ pc # "gone" /\ pc' = "gone"
  /\ UNCHANGED <<MUX_PID, lastPid, attempt, retried, via, abrupt, muxes>>

\* INT or TERM.  The first makes the script exit.  It comes in vain before MUX_PID
\* is set, and a second one may end cleanup where it stands.  Without traps the
\* script ends at once.
Signal ==
  /\ \/ pc \in Trapped /\ pc' = "exiting" /\ abrupt' = (pc = "spawned")
     \/ pc = "untrapped" /\ pc' = "gone" /\ UNCHANGED abrupt
     \/ pc \in {"exiting", "cleaning"} /\ pc' = "gone" /\ abrupt' = TRUE
  /\ UNCHANGED <<MUX_PID, lastPid, attempt, retried, via, muxes>>

\* KILL, or HUP, for which there is no trap.
Killed ==
  /\ pc # "gone" /\ pc' = "gone" /\ abrupt' = TRUE
  /\ UNCHANGED <<MUX_PID, lastPid, attempt, retried, via, muxes>>

\* A mux ends when it is told to, when it finds the address taken, or by a
\* fault of its own.
MuxEnds(p) ==
  /\ p \in alive
  /\ alive' = alive \ {p} /\ dying' = dying \ {p} /\ left' = left \ {p}
  /\ UNCHANGED script

-----------------------------------------------------------------------------
ScriptStep ==
  \/ Prepare \/ Spawn \/ Record \/ BootStock
  \/ Attach \/ AttachFails \/ Stopped \/ Fallback
  \/ RestoreSucceeds \/ PartitionFails \/ RetryCleaned \/ Untrap \/ Exec
  \/ Exits \/ CleanupKill \/ CleanupDone

Next ==
  \/ Launch \/ ScriptStep \/ Signal \/ Killed
  \/ \E p \in Pid : MuxEnds(p)

Fairness ==
  /\ WF_vars(ScriptStep)
  /\ \A p \in Pid : WF_vars(p \in dying /\ MuxEnds(p))

Spec == Init /\ [][Next]_vars /\ Fairness
-----------------------------------------------------------------------------
(* Properties.                                                             *)

\* A run never has two muxes at a time (start_restore_mux, stop_restore_mux,
\* cleanup before exec): the second would find the address taken by the first,
\* and the polls would ask one that is about to end.  Nor does it have one beside
\* the system's when idevicerestore goes through that (the stop_restore_mux before
\* the fallback): they would compete for the phone.
AtMostOneMux ==
  /\ \A p, q \in Own : p = q
  /\ pc = "restore" /\ via = "system" => Own = {}

\* A run that fails, completes or is interrupted by one signal leaves no mux
\* behind to hold the phone and the address (cleanup and the traps), also when
\* the signal comes while a mux is being stopped, replaced or given up for the
\* retry.  What the script does not clean up after is named by abrupt.
NoMuxLeftBehind == pc = "gone" /\ ~abrupt => Own = {}

\* Every run comes to its end (the three attempts, the waits in stop and cleanup,
\* the retry): no wait is for a mux that has not been told to end.
RunEnds == pc # "gone" ~> pc = "gone"
=============================================================================
