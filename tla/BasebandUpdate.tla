--------------------------- MODULE BasebandUpdate ---------------------------
(***************************************************************************)
(* ios1-baseband-update.c: the process that runs on the phone in place of   *)
(* the restore daemon, runs Apple's bbupdater on the firmware of the        *)
(* ramdisk and reports the result in NVRAM.                                 *)
(*                                                                         *)
(* bbupdater is external: it writes the baseband for as long as it likes,   *)
(* and the model assumes only that it does not exit with status 0 unless    *)
(* the firmware it was given is the one installed.                          *)
(***************************************************************************)
EXTENDS Nvram, Integers, Sequences

VARIABLES
  pc,
  count,    \* assignments attempted by finish_run
  child,    \* bbupdater: "none", "running", or how it ended
  result,   \* what run_process returned
  baseband,
  nvram

vars == <<pc, count, child, result, baseband, nvram>>
-----------------------------------------------------------------------------
\* Between alarm(PROCESS_TIMEOUT) and alarm(0).
Armed == {"mark", "fork", "wait", "finish"}

ChildState ==
  {"none", "running", "exit0", "exit1", "exit127", "signal", "lost"}

Init ==
  /\ pc = "mark"
  /\ count = 0
  /\ child = "none"
  /\ result = -1
  /\ baseband \in {"newer", "erased", "damaged", "target"}
  /\ nvram \in [EnvName -> {"", "true", "pending", "success"}]
  /\ nvram["boot-args"] = ""
  /\ nvram["auto-boot"] = "true"
  /\ nvram[EraseResult] = "success"
  /\ nvram[UpdateResult] = "pending"

Kept == <<child, result, baseband, nvram>>

MarkPending ==
  /\ pc = "mark"
  /\ pc' = "fork"
  /\ nvram' \in {nvram, Put(nvram, UpdateResult, "pending")}
  /\ UNCHANGED <<count, child, result, baseband>>

\* run_process; a child that cannot exec leaves with 127 (UpdaterEnds).
Fork ==
  /\ pc = "fork"
  /\ \/ pc' = "wait" /\ child' = "running" /\ UNCHANGED result
     \/ pc' = "finish" /\ result' = -1 /\ UNCHANGED child
  /\ UNCHANGED <<count, baseband, nvram>>

\* Mutant: WEXITSTATUS of a status that is not an exit status.
ExitStatusOfAny(ended) ==
  CASE ended = "exit1" -> 1 [] ended = "exit127" -> 127
    [] ended = "lost"   -> -1 [] OTHER -> 0

\* The value of run_process: -1 when the child was killed by a signal or
\* could not be waited for.
ExitStatus(ended) ==
  CASE ended = "exit0" -> 0 [] ended = "exit1" -> 1
    [] ended = "exit127" -> 127 [] OTHER -> -1

Wait ==
  /\ pc = "wait" /\ child # "running"
  /\ result' = ExitStatus(child)
  /\ pc' = "finish"
  /\ UNCHANGED <<count, child, baseband, nvram>>

\* waitpid fails with an error other than EINTR; bbupdater may go on.
WaitFails ==
  /\ pc = "wait"
  /\ result' = ExitStatus("lost")
  /\ pc' = "finish"
  /\ UNCHANGED <<count, child, baseband, nvram>>

\* alarm(0) and the call of finish_run.
Finish ==
  /\ pc = "finish"
  /\ pc' = "assign"
  /\ UNCHANGED <<count, Kept>>

\* Mutants: the value `nvram' gets is misspelt; the result goes first.
AssignmentsMisspelt ==
  << <<"boot-args", "">>, <<"auto-boot", "False">>,
     <<UpdateResult, IF result = 0 THEN "success" ELSE "failed">> >>

AssignmentsResultFirst ==
  << <<UpdateResult, IF result = 0 THEN "success" ELSE "failed">>,
     <<"boot-args", "">>, <<"auto-boot", "false">> >>

\* Unlike the erase, the update holds the phone in recovery either way.
FinalAssignments ==
  << <<"boot-args", "">>, <<"auto-boot", "false">>,
     <<UpdateResult, IF result = 0 THEN "success" ELSE "failed">> >>

\* finish_run, one child at a time; a child that fails is ignored.
SetNvramAssignment ==
  /\ pc = "assign" /\ count < Len(FinalAssignments)
  /\ LET assignment == FinalAssignments[count + 1]
     IN  nvram' \in {nvram, Put(nvram, assignment[1], assignment[2])}
  /\ count' = count + 1
  /\ UNCHANGED <<pc, child, result, baseband>>

Reboot ==
  /\ pc = "assign" /\ count = Len(FinalAssignments)
  /\ pc' = "rebooted"
  /\ UNCHANGED <<count, Kept>>

\* Mutant: a handler that returns to the call it interrupted.
AlarmReturns ==
  /\ pc \in Armed
  /\ UNCHANGED vars

\* process_timeout.  How long bbupdater takes is not known, so the 300
\* seconds may be over at any step before alarm(0).
Alarm ==
  /\ pc \in Armed
  /\ pc' = "rebooted"
  /\ UNCHANGED <<count, Kept>>

-----------------------------------------------------------------------------
\* bbupdater: a write is cut short or completes the target firmware.
UpdaterWrites ==
  /\ child = "running" /\ pc # "rebooted"
  /\ baseband' \in {"damaged", "target"}
  /\ UNCHANGED <<pc, count, child, result, nvram>>

UpdaterEnds ==
  /\ child = "running" /\ pc # "rebooted"
  /\ child' \in {"exit0", "exit1", "exit127", "signal"}
  /\ child' = "exit0" => baseband = "target"
  /\ UNCHANGED <<pc, count, result, baseband, nvram>>

-----------------------------------------------------------------------------
Step ==
  MarkPending \/ Fork \/ Wait \/ Finish \/ SetNvramAssignment \/ Reboot

Next == Step \/ WaitFails \/ Alarm \/ UpdaterWrites \/ UpdaterEnds

\* The kernel schedules the process and delivers SIGALRM.  bbupdater may hang.
Fairness == WF_vars(Step) /\ WF_vars(Alarm)

Spec == Init /\ [][Next]_vars /\ Fairness

-----------------------------------------------------------------------------
\* The values main, run_process and finish_run can give to their variables.
TypeOK ==
  /\ pc \in Armed \cup {"assign", "rebooted"}
  /\ count \in 0..3
  /\ child \in ChildState
  /\ result \in {-1, 0, 1, 127}
  /\ baseband \in {"newer", "erased", "damaged", "target"}
  /\ nvram \in Environment

\* The host goes on to the restore when it reads "success": the firmware of
\* the IPSW is then installed, whatever became of bbupdater, of the call that
\* waits for it and of the assignments.
NoFalseUpdate == nvram[UpdateResult] = "success" => baseband = "target"

\* The payload ends even if bbupdater does not.
Ends == <>(pc = "rebooted")

\* What the host relies on (MaintenancePayload).
phaseBar ==
  CASE pc \in Armed    -> "working"
    [] pc = "rebooted" -> "idle"
    [] OTHER           -> IF result = 0 THEN "succeeded" ELSE "failed"

Payload == INSTANCE MaintenancePayload WITH
  phase <- phaseBar, written <- count,
  Result <- UpdateResult, Done <- "target", Touched <- {"damaged", "target"},
  FailAutoBoot <- "false"

\* Every run of this program is a run of the payload the host was written for.
ImplementsPayload == Payload!Spec

=============================================================================
