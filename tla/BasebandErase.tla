--------------------------- MODULE BasebandErase ---------------------------
(***************************************************************************)
(* ios1-baseband-erase.c: the process that runs on the phone in place of   *)
(* the restore daemon, erases the firmware header of the baseband over a   *)
(* serial line and reports the result in NVRAM.                            *)
(*                                                                         *)
(* One step of the model is one call of the program: every serial exchange *)
(* is a write followed by a window of exactly one second in which          *)
(* read_response collects whatever the baseband has to say, so a step of   *)
(* the protocol costs one second of the alarm that guards the process.     *)
(*                                                                         *)
(* The baseband is external.  It answers in order, late, or not at all: a  *)
(* reply it owes stays on the line and is read in a later window, as the   *)
(* answer to another command.  Replies are told apart only as far as the   *)
(* program tells them apart, by the bytes it looks at:                     *)
(*   "ready"     first byte 0x0B                                           *)
(*   "complete"  seven bytes or more, the seventh 1                        *)
(*   "other"     anything else                                             *)
(* A window that holds several replies is judged by the first.  The model  *)
(* assumes that only a status poll is answered with "complete", and only   *)
(* when the sector is erased.                                              *)
(***************************************************************************)
EXTENDS Nvram, Naturals, Sequences

CONSTANTS
  CommandAttempts,  \* 30 in enter_command_mode
  ErasePolls,       \* ERASE_POLLS
  ProcessTimeout,   \* PROCESS_TIMEOUT, seconds
  StartupSeconds,   \* seconds until the serial line is open, when nothing hangs
  MaxInFlight       \* bound: replies on the line

VARIABLES
  automatic,  \* started with --automatic, by the ramdisk's launchd
  pc,
  count,      \* loop counter of the current stage
  clock,      \* seconds since alarm(PROCESS_TIMEOUT)
  hung,       \* blocked in a call that does not return
  result,     \* main's result, 0 is success; 124 after the alarm
  line,       \* replies sent by the baseband and not yet read
  erasing,    \* the baseband has accepted the erase command
  baseband,
  nvram

vars == <<automatic, pc, count, clock, hung, result, line, erasing, baseband, nvram>>
-----------------------------------------------------------------------------
\* The commands of erase_firmware_sector before it starts to poll.
EraseCommands ==
  <<"read flash ID", "CFI stage 1", "CFI stage 2", "authenticate secpack",
    "set address", "read header", "start erase">>

\* Between alarm(PROCESS_TIMEOUT) and alarm(0).
Armed == {"secpack", "restart", "open", "query", "prompt", "flash", "poll", "finish"}

\* Where the process can block on the baseband or its driver.
Blocking == {"restart", "open", "query", "prompt", "flash", "poll"}

Ended == {"rebooted", "exited"}

Reply == {"ready", "complete", "other"}

\* Every step of a slowest run that is not hung: start-up, the query that
\* wakes the flash, the prompts, the commands and the polls.
LongestRun ==
  StartupSeconds + 1 + CommandAttempts + Len(EraseCommands) + ErasePolls

ASSUME BoundsAssumption ==
  /\ CommandAttempts \in Nat \ {0}
  /\ ErasePolls \in Nat \ {0}
  /\ ProcessTimeout \in Nat
  /\ StartupSeconds \in Nat
  /\ MaxInFlight \in Nat

\* With 30, 120 and 180 this leaves 21 seconds for start-up.
ASSUME BudgetAssumption == LongestRun < ProcessTimeout

Running == ~hung /\ (pc \in Armed => clock < ProcessTimeout)

Answer == Reply \cup {"silence"}

Init ==
  /\ automatic \in BOOLEAN
  /\ pc = "secpack"
  /\ count = 0
  /\ clock = 0
  /\ hung = FALSE
  /\ result = 1
  /\ line = <<>>
  /\ erasing = FALSE
  /\ baseband \in {"newer", "target", "erased", "damaged"}
  /\ nvram \in [EnvName -> {"", "true", "pending", "success", "failed"}]
  /\ nvram["boot-args"] = ""
  /\ nvram["auto-boot"] = "true"
  /\ nvram[EraseResult] = "pending"

-----------------------------------------------------------------------------
\* One command and the second that read_response waits for its reply.  The
\* baseband owes one of `replies' and may send it now or never; the window
\* takes what has arrived by then and `answer' is what the program looks at.
Exchange(replies, answer) ==
  /\ \E owed \in {line} \cup {Append(line, r) : r \in replies} :
       \E n \in 0..Len(owed) :
         /\ Len(owed) <= MaxInFlight
         /\ answer = IF n = 0 THEN "silence" ELSE owed[1]
         /\ line' = SubSeq(owed, n + 1, Len(owed))
  /\ clock' = clock + 1
  /\ UNCHANGED <<automatic, hung, baseband, nvram>>

Goto(next) == pc' = next /\ count' = 0

\* Mutant: a loop that runs while attempt <= limit, from 0.
LastRoundLate(limit) == count + 1 > limit

\* This is the last of `limit' rounds of a loop.
LastRound(limit) == count + 1 >= limit

Outside == <<automatic, clock, hung, line, erasing, baseband, nvram>>

ReadSecpack ==
  /\ Running /\ pc = "secpack"
  /\ \E next \in {"restart", "finish"} : Goto(next)
  /\ UNCHANGED <<result, Outside>>

\* "Continuing after baseband restart error": main goes on either way.
RestartBaseband ==
  /\ Running /\ pc = "restart"
  /\ clock' \in clock..StartupSeconds
  /\ Goto("open")
  /\ UNCHANGED <<automatic, hung, result, line, erasing, baseband, nvram>>

OpenBaseband ==
  /\ Running /\ pc = "open"
  /\ clock' \in clock..StartupSeconds
  /\ \E next \in {"query", "finish"} : Goto(next)
  /\ UNCHANGED <<automatic, hung, result, line, erasing, baseband, nvram>>

\* The initial query only wakes the flash; main ignores how it went.
InitialQuery ==
  /\ Running /\ pc = "query"
  /\ \/ \E answer \in Answer : Exchange({"other"}, answer)
     \/ UNCHANGED <<automatic, clock, hung, line, baseband, nvram>>
  /\ Goto("prompt")
  /\ UNCHANGED <<result, erasing>>

\* enter_command_mode: an answer that does not begin with 0x0B costs an
\* attempt, as silence does.
Prompt ==
  /\ Running /\ pc = "prompt"
  /\ \E answer \in Answer :
       /\ Exchange({"ready", "other"}, answer)
       /\ \/ answer = "ready" /\ Goto("flash")
          \/ answer # "ready" /\ LastRound(CommandAttempts) /\ Goto("finish")
          \/ answer # "ready" /\ ~LastRound(CommandAttempts)
                              /\ count' = count + 1 /\ UNCHANGED pc
  /\ UNCHANGED <<result, erasing>>

\* erase_firmware_sector up to the polls.  No reply is not an error, and what
\* a reply says is not looked at.
FlashCommand ==
  /\ Running /\ pc = "flash"
  /\ \E answer \in Answer : Exchange({"other"}, answer)
  /\ IF LastRound(Len(EraseCommands))
       THEN Goto("poll") /\ erasing' \in {erasing, TRUE}
       ELSE count' = count + 1 /\ UNCHANGED <<pc, erasing>>
  /\ UNCHANGED result

\* What the baseband says to a status poll.
EraseStatus == IF baseband = "erased" THEN "complete" ELSE "other"

\* Mutant: any reply to a poll counts.
EraseReportedByAnyReply(answer) == answer # "silence"

\* size >= 7 && response[6] == 1, whatever command the reply belongs to.
EraseReported(answer) == answer = "complete"

PollErase ==
  /\ Running /\ pc = "poll"
  /\ \E answer \in Answer :
       /\ Exchange({EraseStatus}, answer)
       /\ \/ EraseReported(answer) /\ result' = 0 /\ Goto("finish")
          \/ /\ ~EraseReported(answer)
             /\ IF LastRound(ErasePolls)
                  THEN Goto("finish")
                  ELSE count' = count + 1 /\ UNCHANGED pc
             /\ UNCHANGED result
  /\ UNCHANGED erasing

\* A write, a select or a read fails, or the response buffer is full.
SerialError ==
  /\ Running /\ pc \in {"prompt", "flash", "poll"}
  /\ Goto("finish")
  /\ UNCHANGED <<result, Outside>>

\* The chip finishes erasing, whether or not anyone still asks.  The reset of
\* the phone resets the baseband as well.
ChipErases ==
  /\ erasing /\ pc # "rebooted" /\ baseband # "erased"
  /\ baseband' = "erased"
  /\ UNCHANGED <<automatic, pc, count, clock, hung, result, line, erasing, nvram>>

\* From the label `finish' to alarm(0).
Finish ==
  /\ Running /\ pc = "finish"
  /\ Goto(IF automatic THEN "assign" ELSE "exited")
  /\ UNCHANGED <<result, Outside>>

\* Mutants: recovery mode after a failure too; a value iBoot does not know;
\* the result before the boot variables.
AssignmentsRecoveryAlways ==
  << <<"boot-args", "">>,
     <<"auto-boot", "false">>,
     <<EraseResult, IF result = 0 THEN "success" ELSE "failed">> >>

AssignmentsNumeric ==
  << <<"boot-args", "">>,
     <<"auto-boot", IF result = 0 THEN "0" ELSE "1">>,
     <<EraseResult, IF result = 0 THEN "success" ELSE "failed">> >>

AssignmentsResultFirst ==
  << <<EraseResult, IF result = 0 THEN "success" ELSE "failed">>,
     <<"boot-args", "">>,
     <<"auto-boot", IF result = 0 THEN "false" ELSE "true">> >>

FinalAssignments ==
  << <<"boot-args", "">>,
     <<"auto-boot", IF result = 0 THEN "false" ELSE "true">>,
     <<EraseResult, IF result = 0 THEN "success" ELSE "failed">> >>

\* finish_automatic_run, one child at a time; a child that fails is ignored.
SetNvramAssignment ==
  /\ pc = "assign" /\ count < Len(FinalAssignments)
  /\ LET assignment == FinalAssignments[count + 1]
     IN  nvram' \in {nvram, Put(nvram, assignment[1], assignment[2])}
  /\ count' = count + 1
  /\ UNCHANGED <<automatic, pc, clock, hung, result, line, erasing, baseband>>

Reboot ==
  /\ pc = "assign" /\ count = Len(FinalAssignments)
  /\ pc' = "rebooted"
  /\ UNCHANGED <<count, result, Outside>>

\* Mutant: a handler that returns to the call it interrupted.
AlarmReturns ==
  /\ pc \in Armed /\ clock >= ProcessTimeout
  /\ UNCHANGED vars

\* process_timeout, the handler of SIGALRM.
Alarm ==
  /\ pc \in Armed /\ clock >= ProcessTimeout
  /\ Goto(IF automatic THEN "rebooted" ELSE "exited")
  /\ result' = IF automatic THEN result ELSE 124
  /\ UNCHANGED Outside

\* A call into the baseband's driver does not return.
Hang ==
  /\ Running /\ pc \in Blocking
  /\ hung' = TRUE
  /\ UNCHANGED <<automatic, pc, count, clock, result, line, erasing, baseband, nvram>>

Tick ==
  /\ hung /\ pc \in Armed /\ clock < ProcessTimeout
  /\ clock' = clock + 1
  /\ UNCHANGED <<automatic, pc, count, hung, result, line, erasing, baseband, nvram>>

-----------------------------------------------------------------------------
Step ==
  \/ ReadSecpack \/ RestartBaseband \/ OpenBaseband \/ InitialQuery \/ Prompt
  \/ FlashCommand \/ PollErase \/ SerialError \/ Finish \/ SetNvramAssignment
  \/ Reboot

Next == Step \/ ChipErases \/ Alarm \/ Hang \/ Tick

\* The kernel schedules the process, time passes and signals are delivered.
\* Nothing is assumed of the baseband.
Fairness == WF_vars(Step) /\ WF_vars(Tick) /\ WF_vars(Alarm)

Spec == Init /\ [][Next]_vars /\ Fairness

-----------------------------------------------------------------------------
\* The values main and its helpers can give to their variables; the clock stops
\* at the alarm.
TypeOK ==
  /\ automatic \in BOOLEAN
  /\ pc \in Armed \cup {"assign"} \cup Ended
  /\ count \in Nat
  /\ clock \in 0..ProcessTimeout
  /\ hung \in BOOLEAN
  /\ result \in {0, 1, 124}
  /\ line \in Seq(Reply)
  /\ erasing \in BOOLEAN
  /\ baseband \in {"newer", "target", "erased", "damaged"}
  /\ nvram \in Environment

\* Whoever is told that the erase succeeded, the host through NVRAM or the
\* user through the exit status, has a baseband whose firmware header is
\* gone, however late, lost or misattributed the replies were.
NoFalseErase ==
  \/ nvram[EraseResult] = "success"
  \/ pc = "exited" /\ result = 0
  => baseband = "erased"

\* The phone is held in recovery mode, where the host goes on with the
\* downgrade, only when the erase is complete; any other end of the process,
\* the watchdog and half-done assignments included, leads back to iOS.
RecoveryOnlyAfterErase == nvram["auto-boot"] = "false" => baseband = "erased"

\* The watchdog never cuts a run that makes progress, not even one in which
\* every prompt and every poll waits out its second: were the alarm to fire
\* between the erase and its report, the host would see a failure of an
\* erased phone.
WatchdogSparesWork == ~hung /\ pc \in Armed => clock < ProcessTimeout

\* The process ends, whatever call it blocks in: the phone is never stranded
\* in the ramdisk.
Ends == <>(pc \in Ended)

\* What the host relies on (MaintenancePayload).
phaseBar ==
  CASE pc \in Armed                    -> "working"
    [] pc = "rebooted"                 -> "idle"
    [] OTHER                           -> IF result = 0 THEN "succeeded" ELSE "failed"

writtenBar == IF pc \in {"assign", "rebooted"} THEN count ELSE 0

Payload == INSTANCE MaintenancePayload WITH
  phase <- phaseBar, written <- writtenBar,
  Result <- EraseResult, Done <- "erased", Touched <- {"erased"},
  FailAutoBoot <- "true"

\* Every run of this program is a run of the payload the host was written
\* for: the result goes last, and success is only claimed of a finished erase.
ImplementsPayload == Payload!Spec

=============================================================================
