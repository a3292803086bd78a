--------------------------- MODULE RestoreWorkflow ---------------------------
(***************************************************************************)
(* restore-ios1.sh and the host tools it calls, together with the phone.    *)
(*                                                                         *)
(* The script drives the phone through a chain of boots: the recovery       *)
(* console of iBoot, a ramdisk that erases the baseband, one that updates   *)
(* it, the stock restore ramdisk.  It learns how a boot went only by the    *)
(* USB product ID the phone comes back with and by the environment that     *)
(* iBoot prints; everything else it believes about the phone it remembers.  *)
(*                                                                         *)
(* One step of the host is one command of the script, or one command sent   *)
(* to the recovery console.  A run may fail at any of them: a tool exits    *)
(* with an error, a wait times out, the user interrupts it (Fail).  The     *)
(* user may then reset the phone, put it in DFU mode and start over, with   *)
(* any options, on whatever the earlier run left behind.                    *)
(*                                                                         *)
(* External: the phone's boot loader, iOS, the restore daemon and           *)
(* idevicerestore.  The model assumes that iBoot executes the `setenv' and  *)
(* `saveenv' it has been sent, though not always `go' and `bootx', and that *)
(* a phone in recovery mode is not reset or unplugged while a run talks to  *)
(* it.                                                                      *)
(***************************************************************************)
EXTENDS Nvram, Naturals

VARIABLES
  \* The IPSW of all runs.
  product,   \* "iPhone" | "iPod"
  version,   \* "1.0" | "1.1"
  \* The phone.
  mode,      \* what it runs, or "off" while it resets
  nor,       \* the boot chain it starts from: "modern" (2.x, 3.x) or "ios1"
  env,       \* environment in the memory of iBoot
  nvram,     \* environment in NVRAM
  baseband,
  phase, written,  \* the baseband payload (MaintenancePayload)
  \* The script.
  pc,
  stage,     \* which ramdisk is next: "erase" | "update" | "restore"
  request,   \* the options the user gave
  child,     \* inside the bootstrap restore (IOS1_BOOTSTRAP_RESTORE)
  retried,   \* after the partition retry (IOS1_PARTITION_RETRY)
  status     \* of the last run: "none" | "ok" | "failed"

ipsw  == <<product, version>>
phone == <<mode, nor, env, nvram, baseband, phase, written>>
host  == <<pc, stage, request, child, retried, status>>
vars  == <<ipsw, phone, host>>
-----------------------------------------------------------------------------
Mode ==
  {"off", "normal", "recovery", "modernRecovery", "dfu", "erase", "update", "stock"}

Stage == {"erase", "update", "restore"}

Options == [downgrade : BOOLEAN, eraseOnly : BOOLEAN, resume : BOOLEAN]

\* What the argument loop accepts: --erase-baseband-only implies the
\* downgrade, --resume excludes it, and both are for the iPhone.
Requests ==
  {o \in Options : /\ o.eraseOnly => o.downgrade
                   /\ ~(o.resume /\ o.downgrade)
                   /\ o.downgrade => product = "iPhone"}

Plain == [downgrade |-> FALSE, eraseOnly |-> FALSE, resume |-> FALSE]

\* The bootstrap restore and the retry are started with --yes alone.
options == IF child \/ retried THEN Plain ELSE request

\* RAM holds no environment while iBoot does not run.
NoEnvironment == [n \in EnvName |-> ""]

ResultOf(s) == IF s = "erase" THEN EraseResult ELSE UpdateResult

Erase == INSTANCE MaintenancePayload WITH
  Result <- EraseResult, Done <- "erased", Touched <- {"erased"},
  FailAutoBoot <- "true"

Update == INSTANCE MaintenancePayload WITH
  Result <- UpdateResult, Done <- "target", Touched <- {"damaged", "target"},
  FailAutoBoot <- "false"

\* Any phone, with what earlier runs have left in NVRAM and in its baseband.
Init ==
  /\ product \in {"iPhone", "iPod"} /\ version \in {"1.0", "1.1"}
  /\ mode \in {"normal", "recovery", "modernRecovery", "dfu"}
  /\ nor \in {"modern", "ios1"}
  /\ mode = "recovery" => nor = "ios1"
  /\ mode = "modernRecovery" => nor = "modern"
  /\ nvram \in [EnvName -> {"", "rd=md0", "true", "false", "success"}]
  /\ nvram["boot-args"] \in {"", "rd=md0"}
  /\ nvram["auto-boot"] = IF mode \in {"recovery", "modernRecovery"} THEN "false" ELSE "true"
  /\ {nvram[EraseResult], nvram[UpdateResult]} \subseteq {"", "success"}
  /\ env = IF mode = "recovery" THEN nvram ELSE NoEnvironment
  /\ baseband \in {"newer", "erased", "damaged", "target"}
  /\ phase = "idle" /\ written = 0
  /\ pc = "exit" /\ stage = "erase" /\ request = Plain
  /\ child = FALSE /\ retried = FALSE /\ status = "none"

-----------------------------------------------------------------------------
(* Steps of the script: helpers.                                           *)

Goto(next) ==
  pc' = next /\ UNCHANGED <<stage, request, child, retried, status>>

Exit(outcome) ==
  /\ pc' = "exit" /\ status' = outcome
  /\ stage' = "erase" /\ child' = FALSE /\ retried' = FALSE
  /\ UNCHANGED request

\* A step that only looks at the phone.
Look(at, modes, next) ==
  /\ pc = at /\ mode \in modes
  /\ Goto(next)
  /\ UNCHANGED <<ipsw, phone>>

\* `setenv' on the recovery console.
SetEnv(at, name, value, next) ==
  /\ pc = at /\ mode = "recovery"
  /\ env' = Put(env, name, value)
  /\ Goto(next)
  /\ UNCHANGED <<ipsw, mode, nor, nvram, baseband, phase, written>>

\* `saveenv' on the recovery console.
SaveEnv(at, next) ==
  /\ pc = at /\ mode = "recovery"
  /\ nvram' = env
  /\ Goto(next)
  /\ UNCHANGED <<ipsw, mode, nor, env, baseband, phase, written>>

-----------------------------------------------------------------------------
(* From the start of a run to the recovery console.                        *)

Launch ==
  /\ pc = "exit"
  /\ request' \in Requests
  /\ pc' = IF request'.resume THEN "restoring" ELSE "checkDfu"
  /\ status' = "none"
  /\ UNCHANGED <<ipsw, phone, stage, child, retried>>

CheckDfu ==
  \/ product = "iPhone" /\ options.downgrade /\ Look("checkDfu", {"dfu"}, "sendWtf")
  \/ Look("checkDfu", Mode \ {"dfu"}, "checkMode")

SendWtf == Look("sendWtf", {"dfu"}, "sendIbss")

\* The iBSS of the IPSW starts from RAM: the NOR is still the old one.
SendIbss ==
  /\ pc = "sendIbss" /\ mode = "dfu"
  /\ mode' = "recovery" /\ env' = nvram
  /\ Goto("launchChild")
  /\ UNCHANGED <<ipsw, nor, nvram, baseband, phase, written>>

LaunchChild ==
  /\ pc = "launchChild"
  /\ child' = TRUE /\ pc' = "checkDfu"
  /\ UNCHANGED <<ipsw, phone, stage, request, retried, status>>

\* No other mode is accepted: the run fails.  restored and iOS show the same
\* product ID.
CheckMode ==
  \/ Look("checkMode", {"normal", "stock"}, "enterRecovery")
  \/ /\ pc = "checkMode" /\ mode = "recovery"
     /\ pc' = "load"
     /\ stage' = IF options.downgrade THEN "erase" ELSE "restore"
     /\ UNCHANGED <<ipsw, phone, request, child, retried, status>>

\* ios1-enter-recovery, up to five times.  Only iOS 1 understands it.  The
\* request is carried out, but its answer may be lost.
EnterRecovery ==
  /\ pc \in {"enterRecovery", "rejoin"} /\ mode = "normal" /\ nor = "ios1"
  /\ nvram' = Put(nvram, "auto-boot", "false")
  /\ mode' = "off"
  /\ \E next \in {pc, IF pc = "rejoin" THEN "waitRejoin" ELSE "waitRecovery"} : Goto(next)
  /\ UNCHANGED <<ipsw, nor, env, baseband, phase, written>>

WaitRecovery ==
  /\ pc = "waitRecovery" /\ mode = "recovery"
  /\ pc' = "load"
  /\ stage' = IF options.downgrade THEN "erase" ELSE "restore"
  /\ UNCHANGED <<ipsw, phone, request, child, retried, status>>

\* enter_recovery_after_bootstrap, back in the parent.
Rejoin ==
  \/ Look("rejoin", {"recovery"}, "checkMode")
  \/ Look("waitRejoin", {"recovery"}, "checkMode")

-----------------------------------------------------------------------------
(* Booting a ramdisk from the recovery console.                            *)

\* load_target_recovery_image: `go' starts an iBoot that reads NVRAM afresh.  No
\* answer to it is read and the script only sleeps: an iBoot that has refused it
\* is taken for the new one, with all that was set on it before.
LoadImage ==
  /\ pc = "load" /\ mode = "recovery"
  /\ env' \in {nvram, env}
  /\ Goto(IF stage = "restore" THEN "stockAutoBoot" ELSE "mark")
  /\ UNCHANGED <<ipsw, mode, nor, nvram, baseband, phase, written>>

\* Mutant: the result of an earlier run stays in place.
MarkPendingNot == Look("mark", {"recovery"}, "saveMark")

MarkPending == SetEnv("mark", ResultOf(stage), "pending", "saveMark")
SaveMark == SaveEnv("saveMark", "autoBoot")

\* Mutants: a value iBoot does not know; arguments set before saveenv; those of
\* an earlier attempt not cleared; the variables of the maintenance boot not saved.
AutoBootNumeric == SetEnv("autoBoot", "auto-boot", "1", "clearArgs")
ClearBootArgsNot == SetEnv("clearArgs", "boot-args", "rd=md0", "saveBoot")
ClearBootArgsSkipped == Look("clearArgs", {"recovery"}, "saveBoot")
SaveBootNot == Look("saveBoot", {"recovery"}, "setArgs")

\* legacy-boot-restore --raw: what it saves brings the phone back to iOS should
\* the ramdisk fail; the arguments that boot the ramdisk are set after that.
AutoBoot == SetEnv("autoBoot", "auto-boot", "true", "clearArgs")
ClearBootArgs == SetEnv("clearArgs", "boot-args", "", "saveBoot")
SaveBoot == SaveEnv("saveBoot", "setArgs")
SetBootArgs == SetEnv("setArgs", "boot-args", "rd=md0", "bootx")

\* bootx; the tool does not notice when iBoot refuses it.
BootPayload ==
  /\ pc = "bootx" /\ mode = "recovery"
  /\ \/ mode' = stage /\ env' = NoEnvironment /\ phase' = "working" /\ written' = 0
     \/ UNCHANGED <<mode, env, phase, written>>
  /\ Goto("poll")
  /\ UNCHANGED <<ipsw, nor, nvram, baseband>>

\* Mutants: any answer of the payload will do; the update is skipped.
ReportsSuccessOrFailure(value) == value \notin {"", "pending"}
NextStageNoUpdate(s) == "restore"

ReportsSuccess(value) == value = "success"
NextStage(s) == IF s = "erase" THEN "update" ELSE "restore"

\* printenv shows the environment of the iBoot that runs.
PollSuccess ==
  /\ pc = "poll" /\ mode = "recovery"
  /\ ReportsSuccess(env[ResultOf(stage)])
  /\ \/ options.eraseOnly /\ Exit("ok")
     \/ /\ ~options.eraseOnly
        /\ stage' = NextStage(stage) /\ pc' = "load"
        /\ UNCHANGED <<request, child, retried, status>>
  /\ UNCHANGED <<ipsw, phone>>

\* legacy-boot-restore without --raw: nothing is saved.
StockAutoBoot == SetEnv("stockAutoBoot", "auto-boot", "false", "stockArgs")
StockBootArgs == SetEnv("stockArgs", "boot-args", "rd=md0", "stockBootx")

BootStock ==
  /\ pc = "stockBootx" /\ mode = "recovery"
  /\ \/ mode' = "stock" /\ env' = NoEnvironment
     \/ UNCHANGED <<mode, env>>
  /\ Goto("waitRestored")
  /\ UNCHANGED <<ipsw, nor, nvram, baseband, phase, written>>

\* The product ID is that of iOS as well.
WaitRestored == Look("waitRestored", {"stock", "normal"}, "restoring")

-----------------------------------------------------------------------------
(* idevicerestore, and what the script makes of its exit status and log.   *)

\* Mutant: only the version decides.
ExcludedByVersion == version = "1.0" /\ ~options.downgrade

\* RESTORE_OPTIONS gets -x: idevicerestore does not update the baseband.
Excluded == child \/ (~options.downgrade /\ product = "iPhone" /\ version = "1.0")

UpdatesBaseband == product = "iPhone" /\ ~Excluded

\* Mutant: the retry is not remembered across exec.
CanRetryAlways == product = "iPhone" /\ version = "1.0"

CanRetry == product = "iPhone" /\ version = "1.0" /\ ~retried

\* Status 0.  restored sets auto-boot when it gets that far; -x may end the
\* session earlier.
RestoreSucceeds ==
  /\ pc = "restoring" /\ mode = "stock"
  /\ UpdatesBaseband => baseband # "newer"
  /\ baseband' = IF UpdatesBaseband THEN "target" ELSE baseband
  /\ nor' = "ios1" /\ mode' = "off"
  /\ nvram' \in {nvram, Put(nvram, "auto-boot", "true")}
  /\ Goto("complete")
  /\ UNCHANGED <<ipsw, env, phase, written>>

\* Status 0, and Apple's updater refused to roll the baseband back.
RestoreRefused ==
  /\ pc = "restoring" /\ mode = "stock"
  /\ UpdatesBaseband /\ baseband = "newer"
  /\ nor' = "ios1" /\ mode' = "off"
  /\ IF options.downgrade THEN Exit("failed") ELSE Goto("waitRefused")
  /\ UNCHANGED <<ipsw, env, nvram, baseband, phase, written>>

\* Any other status.  The log may or may not show the partition map failing
\* with status 2: idevicerestore tries again once by itself, and the trace of
\* that stays in the log of a restore that fails later on.
RestoreFails ==
  /\ pc = "restoring" /\ mode = "stock"
  /\ baseband' \in {baseband} \cup
       (IF UpdatesBaseband /\ baseband # "newer" THEN {"damaged", "target"} ELSE {})
  /\ nor' \in {nor, "ios1"}
  /\ mode' \in {"stock", "off"}
  /\ \/ Exit("failed")
     \/ CanRetry /\ Goto("leaveRestored")
  /\ UNCHANGED <<ipsw, env, nvram, phase, written>>

WaitRetry ==
  \/ Look("leaveRestored", Mode \ {"normal", "stock"}, "waitRetry")
  \/ Look("waitRetry", {"recovery"}, "retry")

\* exec "$0" --yes "$IPSW"
Retry ==
  /\ pc = "retry"
  /\ retried' = TRUE /\ pc' = "checkDfu" /\ stage' = "erase"
  /\ UNCHANGED <<ipsw, phone, request, child, status>>

\* ios1-exit-recovery boots the restored system.
WaitRefused == Look("waitRefused", {"recovery"}, "exitAutoBoot")
ExitAutoBoot == SetEnv("exitAutoBoot", "auto-boot", "true", "exitSave")
ExitSave == SaveEnv("exitSave", "exitReboot")

ExitReboot ==
  /\ pc = "exitReboot" /\ mode = "recovery"
  /\ mode' = "off" /\ env' = NoEnvironment
  /\ Goto("waitNormal")
  /\ UNCHANGED <<ipsw, nor, nvram, baseband, phase, written>>

WaitNormal == Look("waitNormal", {"normal", "stock"}, "complete")

\* "Restore complete" ends the run, "Bootstrap restore complete" the child.
Complete ==
  /\ pc = "complete"
  /\ IF child
       THEN /\ child' = FALSE /\ retried' = FALSE /\ pc' = "rejoin"
            /\ UNCHANGED <<stage, request, status>>
       ELSE Exit("ok")
  /\ UNCHANGED <<ipsw, phone>>

\* A command fails, a wait times out, a signal arrives: `set -e' and the traps
\* end the run, and a child's failure ends its parent.
Fail ==
  /\ pc # "exit"
  /\ Exit("failed")
  /\ UNCHANGED <<ipsw, phone>>

-----------------------------------------------------------------------------
(* The phone and its user.                                                 *)

Host == <<ipsw, pc, stage, request, child, retried, status>>

\* iBoot starts iOS or waits in recovery, also when iOS cannot be started.
PowerUp ==
  /\ mode = "off"
  /\ \/ nvram["auto-boot"] = "true" /\ mode' = "normal"
     \/ mode' = IF nor = "ios1" THEN "recovery" ELSE "modernRecovery"
  /\ env' = IF mode' = "recovery" THEN nvram ELSE NoEnvironment
  /\ UNCHANGED <<Host, nor, nvram, baseband, phase, written>>

PayloadStep ==
  /\ \/ mode = "erase" /\ (Erase!Work \/ Erase!Succeed \/ Erase!GiveUp \/ Erase!Assign)
     \/ mode = "update" /\ (Update!Work \/ Update!Succeed \/ Update!GiveUp \/ Update!Assign)
  /\ UNCHANGED <<Host, mode, nor, env>>

PayloadEnds ==
  /\ \/ mode = "erase" /\ (Erase!Reset \/ Erase!Cut)
     \/ mode = "update" /\ (Update!Reset \/ Update!Cut)
  /\ mode' = "off"
  /\ UNCHANGED <<Host, nor, env>>

\* restored gives up, the kernel panics, the battery is empty.
StockResets ==
  /\ mode = "stock"
  /\ mode' = "off"
  /\ UNCHANGED <<Host, nor, env, nvram, baseband, phase, written>>

\* Between two runs: the reset and the DFU key combinations.
UserResets ==
  /\ pc = "exit"
  /\ \/ mode' = "off"
     \/ product = "iPhone" /\ mode' = "dfu"
  /\ env' = NoEnvironment /\ phase' = "idle"
  /\ UNCHANGED <<Host, nor, nvram, baseband, written>>

-----------------------------------------------------------------------------
ToConsole ==
  CheckDfu \/ SendWtf \/ SendIbss \/ LaunchChild \/ CheckMode \/ EnterRecovery
  \/ WaitRecovery \/ Rejoin

Boots ==
  LoadImage \/ MarkPending \/ SaveMark \/ AutoBoot \/ ClearBootArgs \/ SaveBoot
  \/ SetBootArgs \/ BootPayload \/ PollSuccess \/ StockAutoBoot \/ StockBootArgs
  \/ BootStock \/ WaitRestored

Restores ==
  RestoreSucceeds \/ RestoreRefused \/ RestoreFails \/ WaitRetry \/ Retry
  \/ WaitRefused \/ ExitAutoBoot \/ ExitSave \/ ExitReboot \/ WaitNormal \/ Complete

Script == ToConsole \/ Boots \/ Restores \/ Fail

Phone == PowerUp \/ PayloadStep \/ PayloadEnds \/ StockResets

Next == Script \/ Launch \/ Phone \/ UserResets

\* ios1-enter-recovery has sent its request and reads from a socket of the system's
\* mux until something answers on the port of lockdownd: the one wait of the script's
\* own tools that has no timeout.
Blocked == pc \in {"enterRecovery", "rejoin"} /\ mode \in {"normal", "stock"}

\* Every other wait has one, so that the run goes on, if only by failing.  Nothing
\* is assumed of the phone or the user.
Spec == Init /\ [][Next]_vars /\ WF_vars(Script /\ ~Blocked)

-----------------------------------------------------------------------------
PCs ==
  {"exit", "checkDfu", "sendWtf", "sendIbss", "launchChild", "checkMode",
   "enterRecovery", "waitRecovery", "rejoin", "waitRejoin", "load", "mark",
   "saveMark", "autoBoot", "clearArgs", "saveBoot", "setArgs", "bootx", "poll",
   "stockAutoBoot", "stockArgs", "stockBootx", "waitRestored", "restoring",
   "leaveRestored", "waitRetry", "retry", "waitRefused", "exitAutoBoot",
   "exitSave", "exitReboot", "waitNormal", "complete"}

\* The values the script, the tools and the phone can give to their variables:
\* every string that reaches the environment is one that iBoot and the script know.
TypeOK ==
  /\ product \in {"iPhone", "iPod"} /\ version \in {"1.0", "1.1"}
  /\ mode \in Mode /\ nor \in {"modern", "ios1"}
  /\ env \in Environment /\ nvram \in Environment
  /\ baseband \in {"newer", "erased", "damaged", "target"}
  /\ phase \in {"idle", "working", "succeeded", "failed"} /\ written \in 0..3
  /\ pc \in PCs /\ stage \in Stage /\ request \in Options
  /\ child \in BOOLEAN /\ retried \in BOOLEAN
  /\ status \in {"none", "ok", "failed"}

\* The steps that lead from the load of an image to the boot of a ramdisk.
Preparing ==
  {"load", "mark", "saveMark", "autoBoot", "clearArgs", "saveBoot", "setArgs",
   "bootx", "stockAutoBoot", "stockArgs", "stockBootx"}

\* A maintenance ramdisk only ever starts on the NVRAM its payload counts on:
\* no result of an earlier run, no boot arguments, and auto-boot set so that a
\* payload that is cut short leads back to iOS.
PayloadStartsClean ==
  \A s \in {"erase", "update"} :
    mode = s /\ phase = "working" =>
      /\ nvram[ResultOf(s)] = "pending"
      /\ nvram["auto-boot"] = "true"
      /\ nvram["boot-args"] = ""

\* When the script goes on from the erase to the update, the firmware header
\* is erased: whatever crashed, was reset or reported earlier, "success" is
\* never a stale answer.
EraseBelief == stage = "update" /\ pc \in Preparing => baseband = "erased"

\* When a downgrade goes on to the restore, the baseband is the target's: the
\* stock updater finds nothing to roll back.
UpdateBelief ==
  stage = "restore" /\ options.downgrade /\ pc \in Preparing => baseband = "target"

\* The arguments that boot a ramdisk get into NVRAM, where they would make every
\* later boot of the phone look for a ramdisk that is not there, in one way only:
\* bootx was refused, the run has failed, and the `saveenv' before the erase of a
\* later run meets the same iBoot (restore-ios1.sh).  No other of the saves, and
\* nothing the phone does, puts them there.
BootArgsSavedBeforeErase ==
  [][nvram["boot-args"] = "" /\ nvram'["boot-args"] # ""
       => pc = "saveMark" /\ stage = "erase"]_vars

\* A run with --baseband-downgrade or --erase-baseband-only that says it is
\* complete leaves no such arguments in NVRAM, wherever they came from:
\* legacy-boot-restore has cleared and saved them before each payload, and the
\* payload that fails to clear them once more, or the retry, brings none back.
DowngradeClearsBootArgs ==
  [][pc # "exit" /\ status' = "ok" /\ request.downgrade
       => nvram'["boot-args"] = ""]_vars

\* README.md, "Baseband erase only": a run that says it is complete leaves the
\* phone in recovery with its baseband erased.
EraseOnlyDelivers ==
  [][pc # "exit" /\ status' = "ok" /\ request.eraseOnly
       => mode' = "recovery" /\ baseband' = "erased"]_vars

\* README.md, "Baseband downgrade": a run that says "Restore complete" has
\* replaced the firmware that was installed; the partition retry, which
\* forgets --baseband-downgrade, does not bring the old one back.
DowngradeDelivers ==
  [][pc # "exit" /\ status' = "ok" /\ request.downgrade /\ ~request.eraseOnly
       => baseband' = "target" \/ (retried /\ baseband' = "damaged")]_vars

\* README.md, Notes: without --baseband-downgrade a restore of 1.0 preserves
\* the installed baseband, whatever restarts and retries the run goes through
\* (a payload an earlier run left running aside); and the bootstrap restore
\* preserves it always, for the payloads that come after it.
DefaultPreservesBaseband ==
  [][/\ child => baseband' = baseband
     /\ pc # "exit" /\ ~request.downgrade /\ version = "1.0" /\ baseband' # baseband
          => mode \in {"erase", "update"}]_vars

\* Every run ends, or waits for ever for an answer of the phone that no timeout
\* limits: the script starts itself again at most once per restore.
EveryRunEnds == pc # "exit" ~> (pc = "exit" \/ []Blocked)

=============================================================================
