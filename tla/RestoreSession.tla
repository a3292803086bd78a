---------------------------- MODULE RestoreSession ----------------------------
(***************************************************************************)
(* The session of idevicerestore with the restore daemon of the ramdisk, as *)
(* the patches change it, and what restore-ios1.sh makes of its end.        *)
(*                                                                         *)
(* A daemon that speaks protocol version 7 does one operation at a time,    *)
(* and idevicerestore asks for the next one when it has completed.  Other   *)
(* daemons go through the operations by themselves.  Either asks for the    *)
(* data it needs.  -x, which excludes the baseband, has to work in both:    *)
(* the operation is not asked for, or the data is not sent and the phone    *)
(* is rebooted.                                                            *)
(*                                                                         *)
(* External: the daemon, which takes the operations in this order and       *)
(* completes one only when it is done; the part of idevicerestore that is   *)
(* not patched, which ends the session without an error when the daemon     *)
(* reports the end or FLAG_QUIT is set.                                     *)
(***************************************************************************)
EXTENDS Naturals

VARIABLES
  version,  \* of the IPSW: "1.0" | "1.1"
  protocol, \* of the daemon: "v7" | "other"
  exclude,  \* -x
  retried,  \* IOS1_PARTITION_RETRY
  progress, \* "start" | "session" | "ended" | "done"
  stage,    \* v7_restore_stage
  result,   \* of idevicerestore: "none" | "ok" | "failed"
  log,      \* the lines that the script looks for
  \* The daemon and the phone.
  op,       \* the operation in progress
  data,     \* the data it needs: "none" | "asked" | "sent"
  answer,   \* status of the operation: "none" | 0 | 2 | 1 for any other
  passes,   \* partition operations of this session
  disk, nor, baseband

run         == <<version, protocol, exclude, retried>>
phone       == <<disk, nor, baseband>>
daemon      == <<op, data, answer, passes>>
sessionVars == <<run, progress, stage, result, log, daemon, phone>>
-----------------------------------------------------------------------------
Operation ==
  {"Partition", "Erase", "Image", "FlashFirmware", "UpdateBaseBand", "SetBootStage"}

SessionTypeOK ==
  /\ version \in {"1.0", "1.1"} /\ protocol \in {"v7", "other"}
  /\ exclude \in BOOLEAN /\ retried \in BOOLEAN
  /\ progress \in {"start", "session", "ended", "done"}
  /\ stage \in {"CREATE_PARTITION_MAP_0", "CREATE_PARTITION_MAP_1"} \cup Operation
  /\ result \in {"none", "ok", "failed"} /\ log \subseteq {"status2", "rollback"}
  /\ op \in Operation /\ data \in {"none", "asked", "sent"}
  /\ answer \in {"none", "0", "1", "2"}
  /\ passes \in 0..2
  /\ disk \in {"old", "mapped", "formatted", "written"} /\ nor \in {"old", "new"}
  /\ baseband \in {"newer", "erased", "damaged", "target"}

SessionInit ==
  /\ version \in {"1.0", "1.1"} /\ protocol \in {"v7", "other"} /\ exclude \in BOOLEAN
  /\ retried = FALSE /\ progress = "start" /\ stage = "CREATE_PARTITION_MAP_0"
  /\ result = "none" /\ log = {}
  /\ op = "Partition" /\ data = "none" /\ answer = "none" /\ passes = 0
  /\ disk = "old" /\ nor = "old" /\ baseband \in {"newer", "erased"}

-----------------------------------------------------------------------------
(* idevicerestore.                                                         *)

\* restore_device: both protocols begin with the partition map.
Begin ==
  /\ progress = "start" /\ progress' = "session"
  /\ stage' = "CREATE_PARTITION_MAP_0"
  /\ op' = "Partition" /\ data' = "none" /\ answer' = "none" /\ passes' = 1
  /\ UNCHANGED <<run, result, log, phone>>

End(outcome) == progress' = "ended" /\ result' = outcome /\ UNCHANGED <<stage, daemon>>

\* Mutant: the second pass is not remembered.
SecondPassStageSame == "CREATE_PARTITION_MAP_0"

SecondPassStage == "CREATE_PARTITION_MAP_1"

\* Mutant: -x is ignored where the host chooses the operations.
NextUnpatched(o) ==
  CASE o = "Partition" -> "Erase" [] o = "Erase" -> "Image" [] o = "Image" -> "FlashFirmware"
    [] o = "FlashFirmware" -> "UpdateBaseBand"
    [] o = "UpdateBaseBand" -> "SetBootStage"

\* The stage after FLASH_FIRMWARE is where -x matters.
Next7(o) ==
  CASE o = "Partition" -> "Erase" [] o = "Erase" -> "Image" [] o = "Image" -> "FlashFirmware"
    [] o = "FlashFirmware" -> IF exclude THEN "SetBootStage" ELSE "UpdateBaseBand"
    [] o = "UpdateBaseBand" -> "SetBootStage"

\* What the daemon does next by itself.
NextOther(o) ==
  CASE o = "Partition" -> "Erase" [] o = "Erase" -> "Image" [] o = "Image" -> "FlashFirmware"
    [] o = "FlashFirmware" -> "UpdateBaseBand" [] o = "UpdateBaseBand" -> "SetBootStage"

Request(o) == op' = o /\ data' = "none" /\ answer' = "none"

\* restore_process_v7_protocol: once more for the partition map.
SecondPass ==
  /\ progress = "session" /\ protocol = "v7"
  /\ answer = "2" /\ stage = "CREATE_PARTITION_MAP_0"
  /\ stage' = SecondPassStage
  /\ Request("Partition") /\ passes' = passes + 1 /\ log' = log \cup {"status2"}
  /\ UNCHANGED <<run, progress, result, phone>>

\* Any other status that is not 0: -7.  The expression the script looks for goes
\* across lines, and finds a status 2 of any operation.
Status7 ==
  /\ progress = "session" /\ protocol = "v7" /\ answer \in {"1", "2"}
  /\ ~(answer = "2" /\ stage = "CREATE_PARTITION_MAP_0")
  /\ End("failed")
  /\ log' = IF answer = "2" THEN log \cup {"status2"} ELSE log
  /\ UNCHANGED <<run, phone>>

NextStage ==
  /\ progress = "session" /\ protocol = "v7" /\ answer = "0" /\ op # "SetBootStage"
  /\ Request(Next7(op)) /\ stage' = Next7(op)
  /\ UNCHANGED <<run, progress, result, log, passes, phone>>

\* Mutant: NOR data is excluded as well, as it was before.
SendNorUnlessExcluded ==
  /\ progress = "session" /\ data = "asked" /\ op = "FlashFirmware"
  /\ IF exclude THEN End("ok")
     ELSE data' = "sent" /\ UNCHANGED <<progress, stage, result, op, answer, passes>>
  /\ UNCHANGED <<run, log, phone>>

\* NORData is always sent.
SendNor ==
  /\ progress = "session" /\ data = "asked" /\ op = "FlashFirmware"
  /\ data' = "sent"
  /\ UNCHANGED <<run, progress, stage, result, log, op, answer, passes, phone>>

SendBaseband ==
  /\ progress = "session" /\ data = "asked" /\ op = "UpdateBaseBand" /\ ~exclude
  /\ data' = "sent"
  /\ UNCHANGED <<run, progress, stage, result, log, op, answer, passes, phone>>

\* With -x, restored_reboot instead, and FLAG_QUIT.
RebootInstead ==
  /\ progress = "session" /\ data = "asked" /\ op = "UpdateBaseBand" /\ exclude
  /\ End("ok")
  /\ UNCHANGED <<run, log, phone>>

\* The daemon reports the end.
Finished ==
  /\ progress = "session" /\ op = "SetBootStage" /\ answer = "0"
  /\ End("ok")
  /\ UNCHANGED <<run, log, phone>>

\* A transfer fails, the phone disconnects or reboots.
Breaks ==
  /\ progress = "session" /\ End("failed")
  /\ UNCHANGED <<run, log, phone>>

-----------------------------------------------------------------------------
(* The daemon.                                                             *)

\* NORData or BasebandData; in protocol 7 the baseband's may be in the ramdisk.
AskData ==
  /\ progress = "session" /\ answer = "none" /\ data = "none"
  /\ op \in {"FlashFirmware", "UpdateBaseBand"}
  /\ data' = "asked"
  /\ UNCHANGED <<run, progress, stage, result, log, op, answer, passes, phone>>

Effect ==
  \/ op = "Partition" /\ disk' = "mapped" /\ UNCHANGED <<nor, baseband, log>>
  \/ op = "Erase" /\ disk' = "formatted" /\ UNCHANGED <<nor, baseband, log>>
  \/ op = "Image" /\ disk' = "written" /\ UNCHANGED <<nor, baseband, log>>
  \/ op = "FlashFirmware" /\ data = "sent" /\ nor' = "new" /\ UNCHANGED <<disk, baseband, log>>
  \/ /\ op = "UpdateBaseBand" /\ baseband # "newer" /\ baseband' = "target"
     /\ UNCHANGED <<disk, nor, log>>
  \/ op = "SetBootStage" /\ UNCHANGED <<phone, log>>

\* Status 1015: the updater does not roll the baseband back.  The session goes on.
Refuse ==
  /\ op = "UpdateBaseBand" /\ baseband = "newer"
  /\ log' = log \cup {"rollback"} /\ UNCHANGED phone

HasBaseband ==
  op = "UpdateBaseBand" => data = "sent" \/ (data = "none" /\ protocol = "v7")

Completes ==
  /\ progress = "session" /\ answer = "none" /\ HasBaseband
  /\ \/ answer' \in {"0"} /\ Effect
     \/ answer' \in {"0", "1"} /\ Refuse
     \/ answer' \in {"1", "2"} /\ UNCHANGED <<phone, log>>
     \/ /\ answer' = "1" /\ op = "UpdateBaseBand" /\ baseband # "newer"
        /\ baseband' = "damaged" /\ UNCHANGED <<disk, nor, log>>
  /\ UNCHANGED <<run, progress, stage, result, op, data, passes>>

GoesOn ==
  /\ progress = "session" /\ protocol = "other" /\ answer = "0" /\ op # "SetBootStage"
  /\ Request(NextOther(op))
  /\ UNCHANGED <<run, progress, stage, result, log, passes, phone>>

-----------------------------------------------------------------------------
(* restore-ios1.sh.                                                        *)

CanRetry == result = "failed" /\ version = "1.0" /\ ~retried /\ "status2" \in log

\* The partition retry: --yes alone means -x for 1.0.
Retry ==
  /\ progress = "ended" /\ CanRetry
  /\ progress' = "start" /\ retried' = TRUE /\ exclude' = TRUE
  /\ result' = "none" /\ log' = {}
  /\ UNCHANGED <<version, protocol, stage, daemon, phone>>

Done ==
  /\ progress = "ended" /\ ~CanRetry
  /\ progress' = "done"
  /\ UNCHANGED <<run, stage, result, log, daemon, phone>>

SessionNext ==
  \/ Begin \/ SecondPass \/ Status7 \/ NextStage
  \/ SendNor \/ SendBaseband \/ RebootInstead \/ Finished \/ Breaks
  \/ AskData \/ Completes \/ GoesOn
  \/ Retry \/ Done

SessionSpec == SessionInit /\ [][SessionNext]_sessionVars
-----------------------------------------------------------------------------
(* Properties.                                                             *)

\* With -x nothing in a session changes the baseband, whichever side chooses the
\* operations, in the first session or in the retry (restore.c: the stage after
\* FLASH_FIRMWARE and the request for BasebandData).
ExcludedPreserves == [][exclude => baseband' = baseband]_sessionVars

\* Status 0 means what RestoreWorkflow takes it for (RestoreSucceeds, RestoreRefused):
\* filesystem and NOR are those of the IPSW, also when -x cuts the session
\* short, and the baseband is too unless it is excluded or the log says that it
\* was refused.
OkMeansRestored ==
  result = "ok" =>
    /\ disk = "written" /\ nor = "new"
    /\ exclude \/ baseband = "target" \/ "rollback" \in log

\* restore-ios1.sh 458, "Partition map initialization requires a second pass.": a
\* restore is repeated only because it has failed in the partition step (the
\* operation of the session that failed is still in op).
RetryIsSecondPass == progress = "start" /\ retried => op = "Partition"
=============================================================================
