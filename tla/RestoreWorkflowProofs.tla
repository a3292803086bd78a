----------------------- MODULE RestoreWorkflowProofs -----------------------
(***************************************************************************)
(* Theorems about RestoreWorkflow: what script, console and payload know of *)
(* each other between two steps, and what a whole run delivers.             *)
(***************************************************************************)
EXTENDS RestoreWorkflow, TLAPS

Payloads == {"erase", "update"}

DoneOf(s) == IF s = "erase" THEN "erased" ELSE "target"

\* While the script talks to the recovery console, the console is there.
Console ==
  pc \in Preparing \cup {"exitAutoBoot", "exitSave", "exitReboot"} => mode = "recovery"

\* Only the payloads' ramdisks are prepared with a mark and a save.
PayloadStage ==
  pc \in {"mark", "saveMark", "autoBoot", "clearArgs", "saveBoot", "setArgs",
          "bootx", "poll"}
    => stage \in Payloads

\* Where arguments that boot a ramdisk may be.  Those of an earlier attempt on the
\* same iBoot are in memory until clearArgs, and in NVRAM once saveMark has written
\* them there; a payload runs without them, what it leaves behind leads on to the
\* update without them, and the way out of a refused restore adds none.
SavedArgs ==
  /\ pc = "saveBoot" => env["boot-args"] = ""
  /\ pc \in {"setArgs", "bootx", "poll"} \/ mode \in Payloads => nvram["boot-args"] = ""
  /\ pc = "poll" /\ mode = "recovery" /\ env[ResultOf(stage)] = "success"
       => env["boot-args"] = ""
  /\ pc \in {"load", "mark", "saveMark"} /\ stage = "update"
       => env["boot-args"] = "" /\ nvram["boot-args"] = ""
  /\ pc \in {"waitRefused", "exitAutoBoot", "exitSave"} /\ mode = "recovery"
       => env["boot-args"] = nvram["boot-args"]

\* The state of both environments on the way to the boot of a payload.
Prepared ==
  /\ pc \in {"saveMark", "autoBoot", "clearArgs", "saveBoot", "setArgs", "bootx"}
       => env[ResultOf(stage)] = "pending"
  /\ pc \in {"clearArgs", "saveBoot"} => env["auto-boot"] = "true"
  /\ pc \in {"setArgs", "bootx"} =>
       nvram[ResultOf(stage)] = "pending" /\ nvram["auto-boot"] = "true"

\* What a payload has said so far agrees with what it has done.
PayloadState ==
  /\ mode \notin Payloads => phase = "idle"
  /\ \A s \in Payloads : mode = s =>
       /\ phase = "working" =>
            /\ nvram[ResultOf(s)] = "pending"
            /\ nvram["auto-boot"] = "true"
       /\ phase = "failed" => nvram[ResultOf(s)] # "success"
       /\ phase = "succeeded" => baseband = DoneOf(s)

\* While the script polls, a success anywhere is this payload's.
Polling ==
  pc = "poll" =>
    /\ mode \in {stage, "off", "normal", "recovery", "modernRecovery"}
    /\ nvram[ResultOf(stage)] = "success" => baseband = DoneOf(stage)
    /\ mode = "recovery" /\ env[ResultOf(stage)] = "success" => baseband = DoneOf(stage)

\* The invariant, with the beliefs of the script it is there for.
IInv ==
  /\ TypeOK /\ Console /\ PayloadStage /\ SavedArgs /\ Prepared /\ PayloadState
  /\ Polling /\ EraseBelief /\ UpdateBelief

\* Program counters about which only the payload's own state says anything.
Free ==
  {"exit", "checkDfu", "sendWtf", "sendIbss", "launchChild", "checkMode",
   "enterRecovery", "waitRecovery", "rejoin", "waitRejoin", "waitRestored",
   "restoring", "leaveRestored", "waitRetry", "retry", "waitNormal", "complete"}

-----------------------------------------------------------------------------
\* The results and the boot variables are four different variables.
LEMMA Names ==
  /\ \A s \in Stage : ResultOf(s) \in EnvName
  /\ "boot-args" \in EnvName /\ "auto-boot" \in EnvName
  /\ \A s \in Stage : ResultOf(s) # "boot-args" /\ ResultOf(s) # "auto-boot"
  /\ \A s \in Payloads : s \in Stage
BY DEF ResultOf, EnvName, EraseResult, UpdateResult, Stage, Payloads

\* Writing one variable of an environment leaves an environment, in which only
\* that variable has changed.
LEMMA PutEnvironment ==
  ASSUME NEW e \in Environment, NEW n \in EnvName, NEW v \in EnvValue
  PROVE  /\ Put(e, n, v) \in Environment
         /\ \A m \in EnvName : Put(e, n, v)[m] = IF m = n THEN v ELSE e[m]
BY DEF Put, Environment

\* Memory without iBoot is an empty environment.
LEMMA EmptyEnvironment == NoEnvironment \in Environment
BY DEF NoEnvironment, Environment, EnvName, EnvValue

\* Setting auto-boot leaves the boot arguments alone.
LEMMA PutAutoBoot ==
  ASSUME NEW e \in Environment, NEW v \in {"true", "false"}
  PROVE  /\ Put(e, "auto-boot", v) \in Environment
         /\ Put(e, "auto-boot", v)["boot-args"] = e["boot-args"]
<1>1. v \in EnvValue /\ "boot-args" # "auto-boot"
  BY DEF EnvValue
<1>2. "boot-args" \in EnvName /\ "auto-boot" \in EnvName
  BY Names
<1>3. /\ Put(e, "auto-boot", v) \in Environment
      /\ Put(e, "auto-boot", v)["boot-args"] = e["boot-args"]
  BY <1>1, <1>2 DEF Put, Environment
<1>4. QED
  BY <1>3

\* The invariant holds before the first run.
LEMMA Initially == Init => IInv
<1> SUFFICES ASSUME Init PROVE IInv
  OBVIOUS
<1>1. request = Plain /\ child = FALSE /\ retried = FALSE
  BY DEF Init
<1>2. /\ pc = "exit" /\ stage = "erase" /\ status = "none"
      /\ phase = "idle" /\ written = 0
      /\ mode \in {"normal", "recovery", "modernRecovery", "dfu"}
      /\ env = nvram \/ env = NoEnvironment
  BY DEF Init
<1>3. nvram \in Environment
  BY DEF Init, Environment, EnvValue
<1>4. env \in Environment
  BY <1>2, <1>3, EmptyEnvironment
<1>5. /\ product \in {"iPhone", "iPod"} /\ version \in {"1.0", "1.1"}
      /\ nor \in {"modern", "ios1"} /\ baseband \in {"newer", "erased", "damaged", "target"}
  BY DEF Init
<1>6. request \in Options /\ child \in BOOLEAN /\ retried \in BOOLEAN
  BY <1>1 DEF Plain, Options
<1>7. mode \in Mode /\ stage \in Stage /\ pc \in PCs
  BY <1>2 DEF Mode, Stage, PCs
<1>8. written \in 0..3
  <2>1. written = 0
    BY <1>2
  <2>2. QED
    BY <2>1
<1>9. /\ phase \in {"idle", "working", "succeeded", "failed"}
      /\ status \in {"none", "ok", "failed"}
      /\ baseband \in {"newer", "erased", "damaged", "target"}
  BY <1>2, <1>5
<1>10. TypeOK
  BY <1>3, <1>4, <1>5, <1>6, <1>7, <1>8, <1>9, Zenon DEF TypeOK
<1>11. Console /\ PayloadStage /\ SavedArgs /\ Prepared /\ Polling
  BY <1>2 DEF Console, PayloadStage, SavedArgs, Prepared, Polling, Preparing, Payloads
<1>12. PayloadState
  BY <1>2 DEF PayloadState, Payloads
<1>13. EraseBelief /\ UpdateBelief
  BY <1>2 DEF EraseBelief, UpdateBelief, Preparing
<1>14. QED
  BY <1>10, <1>11, <1>12, <1>13 DEF IInv

-----------------------------------------------------------------------------
\* A step to a free place of the script has little to preserve.
LEMMA FreeStep ==
  ASSUME pc' \in Free, mode' \in Payloads => nvram'["boot-args"] = ""
  PROVE  /\ Console' /\ PayloadStage' /\ SavedArgs' /\ Prepared' /\ Polling'
         /\ EraseBelief' /\ UpdateBelief'
BY DEF Free, Console, PayloadStage, SavedArgs, Prepared, Polling, EraseBelief,
       UpdateBelief, Preparing

\* A step that changes only the script, to a free place, keeps the invariant.
LEMMA LookStep ==
  ASSUME IInv, UNCHANGED <<ipsw, phone>>, pc' \in Free, stage' \in Stage,
         request' \in Options, child' \in BOOLEAN, retried' \in BOOLEAN,
         status' \in {"none", "ok", "failed"}
  PROVE  IInv'
<1>1. UNCHANGED <<product, version, mode, nor, env, nvram, baseband, phase, written>>
  BY DEF ipsw, phone
<1>2. TypeOK'
  BY <1>1 DEF IInv, TypeOK, Free, PCs
<1>3. PayloadState'
  BY <1>1 DEF IInv, PayloadState
<1>4. mode' \in Payloads => nvram'["boot-args"] = ""
  BY <1>1 DEF IInv, SavedArgs
<1>5. QED
  BY <1>2, <1>3, <1>4, FreeStep DEF IInv

\* The steps of the script that only look, or change its own variables.
LEMMA LookSteps ==
  ASSUME IInv,
         CheckDfu \/ SendWtf \/ LaunchChild \/ Look("checkMode", {"normal", "stock"}, "enterRecovery")
           \/ Rejoin \/ WaitRestored \/ WaitRetry \/ Retry \/ WaitNormal
           \/ Complete \/ Fail \/ Launch
  PROVE  IInv'
<1>1. /\ stage \in Stage /\ request \in Options /\ child \in BOOLEAN
      /\ retried \in BOOLEAN /\ status \in {"none", "ok", "failed"}
  BY DEF IInv, TypeOK
<1>2. CASE CheckDfu \/ SendWtf \/ Look("checkMode", {"normal", "stock"}, "enterRecovery")
             \/ Rejoin \/ WaitRestored \/ WaitRetry \/ WaitNormal
  <2>1. /\ UNCHANGED <<ipsw, phone>> /\ pc' \in Free
        /\ UNCHANGED <<stage, request, child, retried, status>>
    BY <1>2 DEF CheckDfu, SendWtf, Rejoin, WaitRestored, WaitRetry, WaitNormal, Look,
                Goto, Free
  <2>2. QED
    BY <1>1, <2>1, LookStep
<1>3. CASE LaunchChild
  <2>1. /\ UNCHANGED <<ipsw, phone>> /\ pc' \in Free /\ child' = TRUE
        /\ UNCHANGED <<stage, request, retried, status>>
    BY <1>3 DEF LaunchChild, Free
  <2>2. QED
    BY <1>1, <2>1, LookStep
<1>4. CASE Retry
  <2>1. /\ UNCHANGED <<ipsw, phone>> /\ pc' \in Free /\ retried' = TRUE
        /\ stage' = "erase" /\ UNCHANGED <<request, child, status>>
    BY <1>4 DEF Retry, Free
  <2>2. stage' \in Stage
    BY <2>1 DEF Stage
  <2>3. QED
    BY <1>1, <2>1, <2>2, LookStep
<1>5. CASE Complete \/ Fail
  <2>1. /\ UNCHANGED <<ipsw, phone>> /\ pc' \in Free
        /\ stage' \in {stage, "erase"} /\ request' = request
        /\ child' = FALSE /\ retried' = FALSE
        /\ status' \in {status, "ok", "failed"}
    BY <1>5 DEF Complete, Fail, Exit, Free
  <2>2. stage' \in Stage
    BY <1>1, <2>1 DEF Stage
  <2>3. child' \in BOOLEAN /\ retried' \in BOOLEAN
    BY <2>1
  <2>4. QED
    BY <1>1, <2>1, <2>2, <2>3, LookStep
<1>6. CASE Launch
  <2>1. /\ UNCHANGED <<ipsw, phone>> /\ pc' \in Free /\ request' \in Options
        /\ UNCHANGED <<stage, child, retried>> /\ status' = "none"
    BY <1>6 DEF Launch, Free, Requests
  <2>2. QED
    BY <1>1, <2>1, LookStep
<1>7. QED
  BY <1>2, <1>3, <1>4, <1>5, <1>6

\* A step of the script, or of the user, to a free place with a phone that
\* runs no payload.
LEMMA FreePhoneStep ==
  ASSUME IInv, UNCHANGED ipsw, UNCHANGED <<request, written>>,
         pc' \in Free, stage' \in Stage, child' \in BOOLEAN, retried' \in BOOLEAN,
         status' \in {"none", "ok", "failed"},
         mode' \in Mode \ Payloads, nor' \in {"modern", "ios1"},
         env' \in Environment, nvram' \in Environment,
         baseband' \in {"newer", "erased", "damaged", "target"}, phase' = "idle"
  PROVE  IInv'
<1>1. UNCHANGED <<product, version>>
  BY DEF ipsw
<1>2. pc' \in PCs
  BY DEF Free, PCs
<1>3. TypeOK'
  BY <1>1, <1>2 DEF IInv, TypeOK
<1>4. PayloadState'
  BY DEF PayloadState
<1>5. QED
  BY <1>3, <1>4, FreeStep DEF IInv

\* The steps of that kind: iBSS, the request for recovery, the stock boot, the
\* outcomes of a restore, the reboot into iOS and the resets by the user.
LEMMA FreePhoneSteps ==
  ASSUME IInv,
         SendIbss \/ EnterRecovery \/ BootStock \/ RestoreSucceeds \/ RestoreFails
           \/ (RestoreRefused /\ pc' = "exit") \/ ExitReboot \/ UserResets
  PROVE  IInv'
<1>1. TypeOK /\ PayloadState
  BY DEF IInv
<1>2. mode \notin Payloads => phase = "idle"
  BY <1>1 DEF PayloadState
<1>3. /\ stage \in Stage /\ child \in BOOLEAN /\ retried \in BOOLEAN
      /\ status \in {"none", "ok", "failed"} /\ nor \in {"modern", "ios1"}
      /\ env \in Environment /\ nvram \in Environment
      /\ baseband \in {"newer", "erased", "damaged", "target"}
  BY <1>1 DEF TypeOK
<1>4. "off" \in Mode \ Payloads /\ "recovery" \in Mode \ Payloads
      /\ "stock" \in Mode \ Payloads /\ "dfu" \in Mode \ Payloads
      /\ "normal" \in Mode \ Payloads
  BY DEF Mode, Payloads
<1>5. "erase" \in Stage /\ FALSE \in BOOLEAN
  BY DEF Stage
<1>6. /\ Put(nvram, "auto-boot", "false") \in Environment
      /\ Put(nvram, "auto-boot", "true") \in Environment
  BY <1>3, PutAutoBoot
<1>7. CASE SendIbss
  <2>1. /\ UNCHANGED <<ipsw, nor, nvram, baseband, phase, written>>
        /\ UNCHANGED <<stage, request, child, retried, status>>
        /\ pc' \in Free /\ mode = "dfu" /\ mode' = "recovery" /\ env' = nvram
    BY <1>7 DEF SendIbss, Goto, Free
  <2>2. QED
    BY <1>1, <1>2, <1>3, <1>4, <2>1, FreePhoneStep
<1>8. CASE EnterRecovery
  <2>1. /\ UNCHANGED <<ipsw, nor, env, baseband, phase, written>>
        /\ UNCHANGED <<stage, request, child, retried, status>>
        /\ pc' \in Free /\ mode = "normal" /\ mode' = "off"
        /\ nvram' = Put(nvram, "auto-boot", "false")
    BY <1>8 DEF EnterRecovery, Goto, Free
  <2>2. QED
    BY <1>2, <1>3, <1>4, <1>6, <2>1, FreePhoneStep
<1>9. CASE BootStock
  <2>1. /\ UNCHANGED <<ipsw, nor, nvram, baseband, phase, written>>
        /\ UNCHANGED <<stage, request, child, retried, status>>
        /\ pc' \in Free /\ mode = "recovery" /\ mode' \in {"stock", mode}
        /\ env' \in {NoEnvironment, env}
    BY <1>9 DEF BootStock, Goto, Free
  <2>2. env' \in Environment /\ mode' \in Mode \ Payloads
    BY <1>3, <1>4, <2>1, EmptyEnvironment
  <2>3. QED
    BY <1>1, <1>2, <1>3, <1>4, <2>1, <2>2, FreePhoneStep
<1>10. CASE RestoreSucceeds
  <2>1. /\ UNCHANGED <<ipsw, env, phase, written>>
        /\ UNCHANGED <<stage, request, child, retried, status>>
        /\ pc' \in Free /\ mode = "stock" /\ mode' = "off" /\ nor' = "ios1"
        /\ nvram' \in {nvram, Put(nvram, "auto-boot", "true")}
        /\ baseband' \in {"target", baseband}
    BY <1>10 DEF RestoreSucceeds, Goto, Free
  <2>2. QED
    BY <1>1, <1>2, <1>3, <1>4, <1>6, <2>1, FreePhoneStep
<1>11. CASE RestoreFails
  <2>1. /\ UNCHANGED <<ipsw, env, nvram, phase, written>> /\ mode = "stock"
        /\ mode' \in {"stock", "off"} /\ nor' \in {nor, "ios1"}
        /\ baseband' \in {baseband, "damaged", "target"}
        /\ Exit("failed") \/ Goto("leaveRestored")
    BY <1>11 DEF RestoreFails
  <2>2. /\ pc' \in Free /\ request' = request /\ stage' \in {stage, "erase"}
        /\ child' \in {child, FALSE} /\ retried' \in {retried, FALSE}
        /\ status' \in {status, "failed"}
    BY <2>1 DEF Exit, Goto, Free
  <2>3. child' \in BOOLEAN /\ retried' \in BOOLEAN
    BY <1>3, <1>5, <2>2
  <2>4. QED
    BY <1>1, <1>2, <1>3, <1>4, <1>5, <2>1, <2>2, <2>3, FreePhoneStep
<1>12. CASE RestoreRefused /\ pc' = "exit"
  <2>1. /\ UNCHANGED <<ipsw, env, nvram, baseband, phase, written>>
        /\ mode = "stock" /\ mode' = "off" /\ nor' = "ios1"
        /\ Exit("failed") \/ Goto("waitRefused")
    BY <1>12 DEF RestoreRefused
  <2>2. Exit("failed")
    BY <1>12, <2>1 DEF Goto
  <2>3. /\ pc' \in Free /\ request' = request /\ stage' = "erase"
        /\ child' = FALSE /\ retried' = FALSE /\ status' = "failed"
    BY <2>2 DEF Exit, Free
  <2>4. child' \in BOOLEAN /\ retried' \in BOOLEAN
    BY <1>5, <2>3
  <2>5. QED
    BY <1>1, <1>2, <1>3, <1>4, <1>5, <2>1, <2>3, <2>4, FreePhoneStep
<1>13. CASE ExitReboot
  <2>1. /\ UNCHANGED <<ipsw, nor, nvram, baseband, phase, written>>
        /\ UNCHANGED <<stage, request, child, retried, status>>
        /\ pc' \in Free /\ mode = "recovery" /\ mode' = "off" /\ env' = NoEnvironment
    BY <1>13 DEF ExitReboot, Goto, Free
  <2>2. QED
    BY <1>1, <1>2, <1>3, <1>4, <2>1, EmptyEnvironment, FreePhoneStep
<1>14. CASE UserResets
  <2>1. /\ UNCHANGED <<Host, nor, nvram, baseband, written>>
        /\ pc = "exit" /\ mode' \in {"off", "dfu"} /\ env' = NoEnvironment
        /\ phase' = "idle"
    BY <1>14 DEF UserResets
  <2>2. UNCHANGED <<ipsw, pc, stage, request, child, retried, status>> /\ pc' \in Free
    BY <2>1 DEF Host, Free
  <2>3. QED
    BY <1>1, <1>3, <1>4, <2>1, <2>2, EmptyEnvironment, FreePhoneStep
<1>15. QED
  BY <1>7, <1>8, <1>9, <1>10, <1>11, <1>12, <1>13, <1>14

-----------------------------------------------------------------------------
\* What a step on the recovery console leaves alone.
LEMMA ConsoleStep ==
  ASSUME IInv, mode = "recovery",
         UNCHANGED <<ipsw, mode, nor, baseband, phase, written>>,
         UNCHANGED <<request, child, retried, status>>,
         env' \in Environment, nvram' \in Environment, pc' \in PCs, stage' \in Stage
  PROVE  TypeOK' /\ Console' /\ PayloadState'
<1>1. UNCHANGED <<product, version>>
  BY DEF ipsw
<1>2. TypeOK'
  BY <1>1 DEF IInv, TypeOK
<1>3. Console'
  BY DEF Console
<1>4. phase = "idle"
  BY DEF IInv, PayloadState, Payloads
<1>5. PayloadState'
  BY <1>4 DEF PayloadState, Payloads
<1>6. QED
  BY <1>2, <1>3, <1>5

\* The beliefs hold on from one step of a preparation to the next.
LEMMA BeliefStep ==
  ASSUME IInv, pc \in Preparing \/ pc' \notin Preparing,
         UNCHANGED <<stage, request, child, retried, baseband>>
  PROVE  EraseBelief' /\ UpdateBelief'
<1>1. options' = options
  BY DEF options
<1>2. EraseBelief'
  BY DEF IInv, EraseBelief
<1>3. UpdateBelief'
  BY <1>1 DEF IInv, UpdateBelief
<1>4. QED
  BY <1>2, <1>3

\* What `setenv' does to the two environments and to the script.
LEMMA SetEnvStep ==
  ASSUME IInv, NEW at \in PCs, NEW next \in PCs, NEW name \in EnvName, NEW value \in EnvValue,
         SetEnv(at, name, value, next)
  PROVE  /\ pc = at /\ pc' = next /\ mode = "recovery" /\ mode' = "recovery"
         /\ UNCHANGED <<stage, request, child, retried, status, baseband, nvram>>
         /\ env'[name] = value
         /\ \A m \in EnvName : m # name => env'[m] = env[m]
         /\ TypeOK' /\ Console' /\ PayloadState'
<1>1. /\ pc = at /\ pc' = next /\ mode = "recovery" /\ mode' = "recovery"
      /\ UNCHANGED <<stage, request, child, retried, status>>
      /\ UNCHANGED <<ipsw, mode, nor, nvram, baseband, phase, written>>
      /\ env' = Put(env, name, value)
  BY DEF SetEnv, Goto
<1>2. env \in Environment /\ nvram \in Environment /\ stage \in Stage
  BY DEF IInv, TypeOK
<1>3. /\ env' \in Environment /\ env'[name] = value
      /\ \A m \in EnvName : m # name => env'[m] = env[m]
  BY <1>1, <1>2 DEF Put, Environment
<1>4. TypeOK' /\ Console' /\ PayloadState'
  BY <1>1, <1>2, <1>3, ConsoleStep
<1>5. QED
  BY <1>1, <1>3, <1>4

\* What `saveenv' does to the two environments and to the script.
LEMMA SaveEnvStep ==
  ASSUME IInv, NEW at \in PCs, NEW next \in PCs, SaveEnv(at, next)
  PROVE  /\ pc = at /\ pc' = next /\ mode = "recovery" /\ mode' = "recovery"
         /\ UNCHANGED <<stage, request, child, retried, status, baseband, env>>
         /\ nvram' = env
         /\ TypeOK' /\ Console' /\ PayloadState'
<1>1. /\ pc = at /\ pc' = next /\ mode = "recovery" /\ mode' = "recovery"
      /\ UNCHANGED <<stage, request, child, retried, status>>
      /\ UNCHANGED <<ipsw, mode, nor, env, baseband, phase, written>>
      /\ nvram' = env
  BY DEF SaveEnv, Goto
<1>2. env \in Environment /\ stage \in Stage
  BY DEF IInv, TypeOK
<1>3. TypeOK' /\ Console' /\ PayloadState'
  BY <1>1, <1>2, ConsoleStep
<1>4. QED
  BY <1>1, <1>3

\* The steps that prepare the boot of a ramdisk, or of the restored system.
LEMMA SetEnvSteps ==
  ASSUME IInv,
         MarkPending \/ AutoBoot \/ ClearBootArgs \/ SetBootArgs \/ StockAutoBoot
           \/ StockBootArgs \/ ExitAutoBoot
  PROVE  IInv'
<1>0. /\ PayloadStage /\ SavedArgs /\ Prepared /\ Polling /\ stage \in Stage
      /\ ResultOf(stage) \in EnvName
      /\ ResultOf(stage) # "boot-args" /\ ResultOf(stage) # "auto-boot"
      /\ "boot-args" \in EnvName /\ "auto-boot" \in EnvName
      /\ "pending" \in EnvValue /\ "true" \in EnvValue /\ "false" \in EnvValue
      /\ "" \in EnvValue /\ "rd=md0" \in EnvValue
  BY Names DEF IInv, TypeOK, EnvValue
<1>1. CASE MarkPending
  <2>1. /\ pc = "mark" /\ pc' = "saveMark" /\ mode = "recovery" /\ mode' = "recovery"
        /\ UNCHANGED <<stage, request, child, retried, status, baseband, nvram>>
        /\ env'[ResultOf(stage)] = "pending"
        /\ \A m \in EnvName : m # ResultOf(stage) => env'[m] = env[m]
        /\ TypeOK' /\ Console' /\ PayloadState'
    <3>1. "mark" \in PCs /\ "saveMark" \in PCs
      BY DEF PCs
    <3>2. QED
      BY <1>0, <1>1, <3>1, SetEnvStep DEF MarkPending
  <2>2. PayloadStage' /\ SavedArgs' /\ Polling'
    BY <1>0, <2>1 DEF PayloadStage, SavedArgs, Polling, Payloads
  <2>3. Prepared'
    BY <1>0, <2>1 DEF Prepared
  <2>4. EraseBelief' /\ UpdateBelief'
    BY <2>1, BeliefStep DEF Preparing
  <2>5. QED
    BY <2>1, <2>2, <2>3, <2>4 DEF IInv
<1>2. CASE AutoBoot
  <2>1. /\ pc = "autoBoot" /\ pc' = "clearArgs" /\ mode = "recovery" /\ mode' = "recovery"
        /\ UNCHANGED <<stage, request, child, retried, status, baseband, nvram>>
        /\ env'["auto-boot"] = "true"
        /\ \A m \in EnvName : m # "auto-boot" => env'[m] = env[m]
        /\ TypeOK' /\ Console' /\ PayloadState'
    <3>1. "autoBoot" \in PCs /\ "clearArgs" \in PCs
      BY DEF PCs
    <3>2. QED
      BY <1>0, <1>2, <3>1, SetEnvStep DEF AutoBoot
  <2>2. PayloadStage' /\ SavedArgs' /\ Polling'
    BY <1>0, <2>1 DEF PayloadStage, SavedArgs, Polling, Payloads
  <2>3. Prepared'
    BY <1>0, <2>1 DEF Prepared
  <2>4. EraseBelief' /\ UpdateBelief'
    BY <2>1, BeliefStep DEF Preparing
  <2>5. QED
    BY <2>1, <2>2, <2>3, <2>4 DEF IInv
<1>3. CASE ClearBootArgs
  <2>1. /\ pc = "clearArgs" /\ pc' = "saveBoot" /\ mode = "recovery" /\ mode' = "recovery"
        /\ UNCHANGED <<stage, request, child, retried, status, baseband, nvram>>
        /\ env'["boot-args"] = ""
        /\ \A m \in EnvName : m # "boot-args" => env'[m] = env[m]
        /\ TypeOK' /\ Console' /\ PayloadState'
    <3>1. "clearArgs" \in PCs /\ "saveBoot" \in PCs
      BY DEF PCs
    <3>2. QED
      BY <1>0, <1>3, <3>1, SetEnvStep DEF ClearBootArgs
  <2>2. PayloadStage' /\ SavedArgs' /\ Polling'
    BY <1>0, <2>1 DEF PayloadStage, SavedArgs, Polling, Payloads
  <2>3. Prepared'
    BY <1>0, <2>1 DEF Prepared
  <2>4. EraseBelief' /\ UpdateBelief'
    BY <2>1, BeliefStep DEF Preparing
  <2>5. QED
    BY <2>1, <2>2, <2>3, <2>4 DEF IInv
<1>4. CASE SetBootArgs
  <2>1. /\ pc = "setArgs" /\ pc' = "bootx" /\ mode = "recovery" /\ mode' = "recovery"
        /\ UNCHANGED <<stage, request, child, retried, status, baseband, nvram>>
        /\ \A m \in EnvName : m # "boot-args" => env'[m] = env[m]
        /\ TypeOK' /\ Console' /\ PayloadState'
    <3>1. "setArgs" \in PCs /\ "bootx" \in PCs
      BY DEF PCs
    <3>2. QED
      BY <1>0, <1>4, <3>1, SetEnvStep DEF SetBootArgs
  <2>2. PayloadStage' /\ SavedArgs' /\ Polling'
    BY <1>0, <2>1 DEF PayloadStage, SavedArgs, Polling, Payloads
  <2>3. Prepared'
    BY <1>0, <2>1 DEF Prepared
  <2>4. EraseBelief' /\ UpdateBelief'
    BY <2>1, BeliefStep DEF Preparing
  <2>5. QED
    BY <2>1, <2>2, <2>3, <2>4 DEF IInv
<1>5. CASE StockAutoBoot \/ StockBootArgs
  <2>1. /\ pc \in {"stockAutoBoot", "stockArgs"} /\ pc' \in {"stockArgs", "stockBootx"}
        /\ mode' = "recovery" /\ UNCHANGED <<stage, request, child, retried, status, baseband, nvram>>
        /\ TypeOK' /\ Console' /\ PayloadState'
    <3>1. "stockAutoBoot" \in PCs /\ "stockArgs" \in PCs /\ "stockBootx" \in PCs
      BY DEF PCs
    <3>2. CASE StockAutoBoot
      BY <1>0, <3>1, <3>2, SetEnvStep DEF StockAutoBoot
    <3>3. CASE StockBootArgs
      BY <1>0, <3>1, <3>3, SetEnvStep DEF StockBootArgs
    <3>4. QED
      BY <1>5, <3>2, <3>3
  <2>2. PayloadStage' /\ SavedArgs' /\ Polling' /\ Prepared'
    BY <1>0, <2>1 DEF PayloadStage, SavedArgs, Polling, Prepared, Payloads
  <2>3. EraseBelief' /\ UpdateBelief'
    BY <2>1, BeliefStep DEF Preparing
  <2>4. QED
    BY <2>1, <2>2, <2>3 DEF IInv
<1>6. CASE ExitAutoBoot
  <2>1. /\ pc = "exitAutoBoot" /\ pc' = "exitSave" /\ mode = "recovery" /\ mode' = "recovery"
        /\ UNCHANGED <<stage, request, child, retried, status, baseband, nvram>>
        /\ \A m \in EnvName : m # "auto-boot" => env'[m] = env[m]
        /\ TypeOK' /\ Console' /\ PayloadState'
    <3>1. "exitAutoBoot" \in PCs /\ "exitSave" \in PCs
      BY DEF PCs
    <3>2. QED
      BY <1>0, <1>6, <3>1, SetEnvStep DEF ExitAutoBoot
  <2>2. PayloadStage' /\ SavedArgs' /\ Polling' /\ Prepared'
    BY <1>0, <2>1 DEF PayloadStage, SavedArgs, Polling, Prepared, Payloads
  <2>3. EraseBelief' /\ UpdateBelief'
    BY <2>1, BeliefStep DEF Preparing
  <2>4. QED
    BY <2>1, <2>2, <2>3 DEF IInv
<1>7. QED
  BY <1>1, <1>2, <1>3, <1>4, <1>5, <1>6

\* Each `saveenv' of the script keeps the invariant: from SaveBoot on NVRAM holds no
\* boot arguments.
LEMMA SaveEnvSteps ==
  ASSUME IInv, SaveMark \/ SaveBoot \/ ExitSave
  PROVE  IInv'
<1>0. PayloadStage /\ SavedArgs /\ Prepared /\ Polling
  BY DEF IInv
<1>1. CASE SaveMark
  <2>1. /\ pc = "saveMark" /\ pc' = "autoBoot" /\ mode = "recovery" /\ mode' = "recovery"
        /\ UNCHANGED <<stage, request, child, retried, status, baseband, env>>
        /\ nvram' = env
        /\ TypeOK' /\ Console' /\ PayloadState'
    <3>1. "saveMark" \in PCs /\ "autoBoot" \in PCs
      BY DEF PCs
    <3>2. QED
      BY <1>1, <3>1, SaveEnvStep DEF SaveMark
  <2>2. PayloadStage' /\ SavedArgs' /\ Polling' /\ Prepared'
    BY <1>0, <2>1 DEF PayloadStage, SavedArgs, Polling, Prepared, Payloads
  <2>3. EraseBelief' /\ UpdateBelief'
    BY <2>1, BeliefStep DEF Preparing
  <2>4. QED
    BY <2>1, <2>2, <2>3 DEF IInv
<1>2. CASE SaveBoot
  <2>1. /\ pc = "saveBoot" /\ pc' = "setArgs" /\ mode = "recovery" /\ mode' = "recovery"
        /\ UNCHANGED <<stage, request, child, retried, status, baseband, env>>
        /\ nvram' = env
        /\ TypeOK' /\ Console' /\ PayloadState'
    <3>1. "saveBoot" \in PCs /\ "setArgs" \in PCs
      BY DEF PCs
    <3>2. QED
      BY <1>2, <3>1, SaveEnvStep DEF SaveBoot
  <2>2. PayloadStage' /\ SavedArgs' /\ Polling' /\ Prepared'
    BY <1>0, <2>1 DEF PayloadStage, SavedArgs, Polling, Prepared, Payloads
  <2>3. EraseBelief' /\ UpdateBelief'
    BY <2>1, BeliefStep DEF Preparing
  <2>4. QED
    BY <2>1, <2>2, <2>3 DEF IInv
<1>3. CASE ExitSave
  <2>1. /\ pc = "exitSave" /\ pc' = "exitReboot" /\ mode = "recovery" /\ mode' = "recovery"
        /\ UNCHANGED <<stage, request, child, retried, status, baseband, env>>
        /\ nvram' = env
        /\ TypeOK' /\ Console' /\ PayloadState'
    <3>1. "exitSave" \in PCs /\ "exitReboot" \in PCs
      BY DEF PCs
    <3>2. QED
      BY <1>3, <3>1, SaveEnvStep DEF ExitSave
  <2>2. PayloadStage' /\ SavedArgs' /\ Polling' /\ Prepared'
    BY <1>0, <2>1 DEF PayloadStage, SavedArgs, Polling, Prepared, Payloads
  <2>3. EraseBelief' /\ UpdateBelief'
    BY <2>1, BeliefStep DEF Preparing
  <2>4. QED
    BY <2>1, <2>2, <2>3 DEF IInv
<1>4. QED
  BY <1>1, <1>2, <1>3

\* The step that ends the wait for the recovery console, with the options of
\* the run deciding what is booted first.
LEMMA ToLoad ==
  ASSUME IInv, mode = "recovery", UNCHANGED <<ipsw, phone, request, child, retried, status>>,
         pc' = "load", stage' = IF options.downgrade THEN "erase" ELSE "restore"
  PROVE  IInv'
<1>1. UNCHANGED <<mode, nor, env, nvram, baseband, phase, written>>
  BY DEF phone
<1>2. env \in Environment /\ nvram \in Environment /\ SavedArgs
  BY DEF IInv, TypeOK
<1>3. stage' \in Stage /\ pc' \in PCs
  BY DEF Stage, PCs
<1>4. TypeOK' /\ Console' /\ PayloadState'
  BY <1>1, <1>2, <1>3, ConsoleStep
<1>5. PayloadStage' /\ SavedArgs' /\ Prepared' /\ Polling'
  BY <1>1, <1>2 DEF PayloadStage, SavedArgs, Prepared, Polling, Payloads
<1>6. options' = options
  BY DEF options
<1>7. EraseBelief' /\ UpdateBelief'
  BY <1>6 DEF EraseBelief, UpdateBelief
<1>8. QED
  BY <1>4, <1>5, <1>7 DEF IInv

\* The other steps at the console: the way in, the load, the boot and the poll.
LEMMA ConsoleSteps ==
  ASSUME IInv,
         (CheckMode /\ pc' = "load") \/ WaitRecovery \/ LoadImage \/ BootPayload
           \/ PollSuccess \/ WaitRefused \/ (RestoreRefused /\ pc' # "exit")
  PROVE  IInv'
<1>0. /\ PayloadStage /\ SavedArgs /\ Prepared /\ Polling /\ PayloadState
      /\ stage \in Stage /\ env \in Environment /\ nvram \in Environment
  BY DEF IInv, TypeOK
<1>1. CASE (CheckMode /\ pc' = "load") \/ WaitRecovery
  <2>1. /\ mode = "recovery" /\ UNCHANGED <<ipsw, phone, request, child, retried, status>>
        /\ pc' = "load" /\ stage' = IF options.downgrade THEN "erase" ELSE "restore"
    BY <1>1 DEF CheckMode, WaitRecovery, Look, Goto
  <2>2. QED
    BY <2>1, ToLoad
<1>2. CASE LoadImage
  <2>1. /\ pc = "load" /\ mode = "recovery" /\ mode' = "recovery" /\ env' \in {nvram, env}
        /\ UNCHANGED <<ipsw, mode, nor, nvram, baseband, phase, written>>
        /\ UNCHANGED <<stage, request, child, retried, status>>
        /\ pc' = IF stage = "restore" THEN "stockAutoBoot" ELSE "mark"
    BY <1>2 DEF LoadImage, Goto
  <2>2. pc' \in PCs
    BY <2>1 DEF PCs
  <2>3. TypeOK' /\ Console' /\ PayloadState'
    BY <1>0, <2>1, <2>2, ConsoleStep
  <2>4. PayloadStage'
    BY <1>0, <2>1 DEF PayloadStage, Stage, Payloads
  <2>5. SavedArgs' /\ Prepared' /\ Polling'
    BY <1>0, <2>1 DEF SavedArgs, Prepared, Polling, Payloads
  <2>6. EraseBelief' /\ UpdateBelief'
    BY <2>1, BeliefStep DEF Preparing
  <2>7. QED
    BY <2>3, <2>4, <2>5, <2>6 DEF IInv
<1>3. CASE BootPayload
  <2>1. /\ pc = "bootx" /\ pc' = "poll" /\ mode = "recovery"
        /\ UNCHANGED <<ipsw, nor, nvram, baseband>>
        /\ UNCHANGED <<stage, request, child, retried, status>>
        /\ \/ mode' = stage /\ env' = NoEnvironment /\ phase' = "working" /\ written' = 0
           \/ UNCHANGED <<mode, env, phase, written>>
    BY <1>3 DEF BootPayload, Goto
  <2>2. /\ stage \in Payloads /\ nvram[ResultOf(stage)] = "pending"
        /\ env[ResultOf(stage)] = "pending" /\ nvram["auto-boot"] = "true"
        /\ nvram["boot-args"] = ""
    BY <1>0, <2>1 DEF PayloadStage, Prepared, SavedArgs
  <2>3. mode' \in {stage, "recovery"} /\ mode' \in Mode /\ env' \in Environment
    BY <1>0, <2>1, <2>2, EmptyEnvironment DEF Payloads, Mode
  <2>4. phase' \in {"working", phase} /\ written' \in {0, written}
    BY <2>1
  <2>5. TypeOK'
    <3>1. UNCHANGED <<product, version>> /\ pc' \in PCs
      BY <2>1 DEF ipsw, PCs
    <3>2. phase' \in {"idle", "working", "succeeded", "failed"} /\ written' \in 0..3
      BY <2>4 DEF IInv, TypeOK
    <3>3. QED
      BY <2>1, <2>3, <3>1, <3>2 DEF IInv, TypeOK
  <2>6. PayloadState'
    <3>1. phase = "idle"
      BY <1>0, <2>1 DEF PayloadState, Payloads
    <3>2. CASE mode' = stage /\ phase' = "working"
      BY <2>1, <2>2, <3>2 DEF PayloadState
    <3>3. CASE UNCHANGED <<mode, phase>>
      BY <1>0, <2>1, <3>1, <3>3 DEF PayloadState, Payloads
    <3>4. QED
      BY <2>1, <3>2, <3>3
  <2>7. Console' /\ PayloadStage' /\ SavedArgs' /\ Prepared'
    <3>1. mode' = "recovery" => env' = env
      BY <2>1, <2>2 DEF Payloads
    <3>2. SavedArgs'
      BY <2>1, <2>2, <3>1 DEF SavedArgs
    <3>3. QED
      BY <2>1, <2>2, <3>2 DEF Console, Preparing, PayloadStage, Prepared
  <2>8. Polling'
    <3>1. mode' = "recovery" => env' = env
      BY <2>1, <2>2 DEF Payloads
    <3>2. QED
      BY <2>1, <2>2, <2>3, <3>1 DEF Polling
  <2>9. EraseBelief' /\ UpdateBelief'
    BY <2>1, BeliefStep DEF Preparing
  <2>10. QED
    BY <2>5, <2>6, <2>7, <2>8, <2>9 DEF IInv
<1>4. CASE PollSuccess
  <2>1. /\ pc = "poll" /\ mode = "recovery" /\ env[ResultOf(stage)] = "success"
        /\ UNCHANGED <<ipsw, phone>>
        /\ \/ Exit("ok")
           \/ /\ stage' = NextStage(stage) /\ pc' = "load"
              /\ UNCHANGED <<request, child, retried, status>>
    BY <1>4 DEF PollSuccess, ReportsSuccess
  <2>2. stage \in Payloads /\ baseband = DoneOf(stage)
    BY <1>0, <2>1 DEF Polling, PayloadStage
  <2>3. CASE Exit("ok")
    <3>1. /\ pc' \in Free /\ request' = request /\ stage' = "erase"
          /\ child' = FALSE /\ retried' = FALSE /\ status' = "ok"
      BY <2>3 DEF Exit, Free
    <3>2. request' \in Options /\ stage' \in Stage
      BY <3>1 DEF IInv, TypeOK, Stage
    <3>3. child' \in BOOLEAN /\ retried' \in BOOLEAN
      BY <3>1
    <3>4. QED
      BY <2>1, <3>1, <3>2, <3>3, LookStep
  <2>4. CASE /\ stage' = NextStage(stage) /\ pc' = "load"
             /\ UNCHANGED <<request, child, retried, status>>
    <3>1. UNCHANGED <<mode, nor, env, nvram, baseband, phase, written>>
      BY <2>1 DEF phone
    <3>2. stage' \in Stage /\ pc' \in PCs
      BY <2>4 DEF NextStage, Stage, PCs
    <3>3. TypeOK' /\ Console' /\ PayloadState'
      BY <1>0, <2>1, <2>4, <3>1, <3>2, ConsoleStep
    <3>4. PayloadStage' /\ SavedArgs' /\ Prepared' /\ Polling'
      BY <1>0, <2>1, <2>4, <3>1 DEF PayloadStage, SavedArgs, Prepared, Polling, Payloads
    <3>5. /\ stage' = "update" => baseband' = "erased"
          /\ stage' = "restore" => baseband' = "target"
      BY <2>2, <2>4, <3>1 DEF NextStage, Payloads, DoneOf
    <3>6. EraseBelief' /\ UpdateBelief'
      BY <3>5 DEF EraseBelief, UpdateBelief
    <3>7. QED
      BY <3>3, <3>4, <3>6 DEF IInv
  <2>5. QED
    BY <2>1, <2>3, <2>4
<1>5. CASE WaitRefused
  <2>1. /\ pc = "waitRefused" /\ pc' = "exitAutoBoot" /\ mode = "recovery"
        /\ UNCHANGED <<ipsw, phone>> /\ UNCHANGED <<stage, request, child, retried, status>>
    BY <1>5 DEF WaitRefused, Look, Goto
  <2>2. UNCHANGED <<mode, nor, env, nvram, baseband, phase, written>> /\ pc' \in PCs
    BY <2>1 DEF phone, PCs
  <2>3. TypeOK' /\ Console' /\ PayloadState'
    BY <1>0, <2>1, <2>2, ConsoleStep
  <2>4. PayloadStage' /\ SavedArgs' /\ Prepared' /\ Polling'
    BY <1>0, <2>1, <2>2 DEF PayloadStage, SavedArgs, Prepared, Polling, Payloads
  <2>5. EraseBelief' /\ UpdateBelief'
    BY <2>1, <2>2, BeliefStep DEF Preparing
  <2>6. QED
    BY <2>3, <2>4, <2>5 DEF IInv
<1>6. CASE RestoreRefused /\ pc' # "exit"
  <2>1. /\ mode = "stock" /\ mode' = "off" /\ nor' = "ios1"
        /\ UNCHANGED <<ipsw, env, nvram, baseband, phase, written>>
        /\ Exit("failed") \/ Goto("waitRefused")
    BY <1>6 DEF RestoreRefused
  <2>2. Goto("waitRefused")
    BY <1>6, <2>1 DEF Exit
  <2>3. pc' = "waitRefused" /\ UNCHANGED <<stage, request, child, retried, status>>
    BY <2>2 DEF Goto
  <2>4. TypeOK'
    <3>1. UNCHANGED <<product, version>> /\ pc' \in PCs /\ mode' \in Mode
      BY <2>1, <2>3 DEF ipsw, PCs, Mode
    <3>2. QED
      BY <2>1, <2>3, <3>1 DEF IInv, TypeOK
  <2>5. PayloadState'
    BY <1>0, <2>1 DEF PayloadState, Payloads
  <2>6. Console' /\ PayloadStage' /\ SavedArgs' /\ Prepared' /\ Polling'
    BY <1>0, <2>1, <2>3 DEF Console, Preparing, PayloadStage, SavedArgs, Prepared, Polling, Payloads
  <2>7. EraseBelief' /\ UpdateBelief'
    BY <2>1, <2>3, BeliefStep DEF Preparing
  <2>8. QED
    BY <2>4, <2>5, <2>6, <2>7 DEF IInv
<1>7. QED
  BY <1>1, <1>2, <1>3, <1>4, <1>5, <1>6

-----------------------------------------------------------------------------
(* The phone on its own.  The console of iBoot is not involved: the script *)
(* is somewhere it only looks.                                             *)

\* One assignment of a payload: what it can do to the result and to the boot
\* arguments.
LEMMA EraseAssign ==
  ASSUME TypeOK, Erase!Assign
  PROVE  /\ phase \in {"succeeded", "failed"} /\ UNCHANGED <<phase, baseband>>
         /\ written' \in 0..3 /\ nvram' \in Environment
         /\ nvram'["boot-args"] \in {nvram["boot-args"], ""}
         /\ phase = "failed" /\ nvram'[EraseResult] = "success"
              => nvram[EraseResult] = "success"
<1> DEFINE a == Erase!Assignments(phase = "succeeded", "true", EraseResult)[written + 1]
<1>1. /\ phase \in {"succeeded", "failed"} /\ UNCHANGED <<phase, baseband>>
      /\ written < 3 /\ written' = written + 1
      /\ nvram' \in {nvram, Erase!Put(nvram, a[1], a[2])}
  BY DEF Erase!Assign
<1>2. written \in 0..2 /\ nvram \in Environment
  BY <1>1 DEF TypeOK
<1>3. \/ a[1] = "boot-args" /\ a[2] = ""
      \/ a[1] = "auto-boot" /\ a[2] \in {"true", "false"}
      \/ a[1] = EraseResult /\ a[2] = IF phase = "succeeded" THEN "success" ELSE "failed"
  <2>1. CASE written = 0
    BY <2>1 DEF Erase!Assignments
  <2>2. CASE written = 1
    BY <2>2 DEF Erase!Assignments
  <2>3. CASE written = 2
    BY <2>3 DEF Erase!Assignments
  <2>4. written = 0 \/ written = 1 \/ written = 2
    BY <1>2
  <2>5. QED
    BY <2>1, <2>2, <2>3, <2>4
<1> HIDE DEF a
<1>4. /\ "boot-args" \in EnvName /\ "auto-boot" \in EnvName /\ EraseResult \in EnvName
      /\ EraseResult # "boot-args" /\ EraseResult # "auto-boot"
  BY DEF EnvName, EraseResult
<1>5. a[1] \in EnvName /\ a[2] \in EnvValue
  BY <1>3, <1>4 DEF EnvValue
<1>6. nvram' \in Environment /\ nvram'["boot-args"] \in {nvram["boot-args"], ""}
  BY <1>1, <1>2, <1>3, <1>4, <1>5 DEF Erase!Put, Environment
<1>7. phase = "failed" /\ nvram'[EraseResult] = "success" => nvram[EraseResult] = "success"
  BY <1>1, <1>2, <1>3, <1>4, <1>5 DEF Erase!Put, Environment
<1>8. written' \in 0..3
  BY <1>1, <1>2
<1>9. QED
  BY <1>1, <1>6, <1>7, <1>8

\* The same for the update.
LEMMA UpdateAssign ==
  ASSUME TypeOK, Update!Assign
  PROVE  /\ phase \in {"succeeded", "failed"} /\ UNCHANGED <<phase, baseband>>
         /\ written' \in 0..3 /\ nvram' \in Environment
         /\ nvram'["boot-args"] \in {nvram["boot-args"], ""}
         /\ phase = "failed" /\ nvram'[UpdateResult] = "success"
              => nvram[UpdateResult] = "success"
<1> DEFINE a == Update!Assignments(phase = "succeeded", "false", UpdateResult)[written + 1]
<1>1. /\ phase \in {"succeeded", "failed"} /\ UNCHANGED <<phase, baseband>>
      /\ written < 3 /\ written' = written + 1
      /\ nvram' \in {nvram, Update!Put(nvram, a[1], a[2])}
  BY DEF Update!Assign
<1>2. written \in 0..2 /\ nvram \in Environment
  BY <1>1 DEF TypeOK
<1>3. \/ a[1] = "boot-args" /\ a[2] = ""
      \/ a[1] = "auto-boot" /\ a[2] \in {"true", "false"}
      \/ a[1] = UpdateResult /\ a[2] = IF phase = "succeeded" THEN "success" ELSE "failed"
  <2>1. CASE written = 0
    BY <2>1 DEF Update!Assignments
  <2>2. CASE written = 1
    BY <2>2 DEF Update!Assignments
  <2>3. CASE written = 2
    BY <2>3 DEF Update!Assignments
  <2>4. written = 0 \/ written = 1 \/ written = 2
    BY <1>2
  <2>5. QED
    BY <2>1, <2>2, <2>3, <2>4
<1> HIDE DEF a
<1>4. /\ "boot-args" \in EnvName /\ "auto-boot" \in EnvName /\ UpdateResult \in EnvName
      /\ UpdateResult # "boot-args" /\ UpdateResult # "auto-boot"
  BY DEF EnvName, UpdateResult
<1>5. a[1] \in EnvName /\ a[2] \in EnvValue
  BY <1>3, <1>4 DEF EnvValue
<1>6. nvram' \in Environment /\ nvram'["boot-args"] \in {nvram["boot-args"], ""}
  BY <1>1, <1>2, <1>3, <1>4, <1>5 DEF Update!Put, Environment
<1>7. phase = "failed" /\ nvram'[UpdateResult] = "success" => nvram[UpdateResult] = "success"
  BY <1>1, <1>2, <1>3, <1>4, <1>5 DEF Update!Put, Environment
<1>8. written' \in 0..3
  BY <1>1, <1>2
<1>9. QED
  BY <1>1, <1>6, <1>7, <1>8

\* A payload's step, whichever payload it is.
LEMMA AnyPayloadStep ==
  ASSUME IInv, PayloadStep
  PROVE  /\ mode \in Payloads /\ UNCHANGED <<Host, mode, nor, env>>
         /\ phase' \in {"working", "succeeded", "failed"} /\ written' \in 0..3
         /\ baseband' \in {"newer", "erased", "damaged", "target"}
         /\ nvram' \in Environment
         /\ nvram'["boot-args"] \in {nvram["boot-args"], ""}
         /\ phase' = "working" => phase = "working" /\ nvram' = nvram
         /\ phase' = "failed" /\ nvram'[ResultOf(mode)] = "success"
              => \/ phase = "failed" /\ nvram[ResultOf(mode)] = "success"
                 \/ phase = "working" /\ nvram' = nvram
         /\ phase' = "succeeded" => baseband' = DoneOf(mode)
<1>1. TypeOK /\ PayloadState
  BY DEF IInv
<1>2. /\ baseband \in {"newer", "erased", "damaged", "target"}
      /\ written \in 0..3 /\ nvram \in Environment
  BY <1>1 DEF TypeOK
<1>3. UNCHANGED <<Host, mode, nor, env>>
  BY DEF PayloadStep
<1>4. phase = "succeeded" /\ mode \in Payloads => baseband = DoneOf(mode)
  BY <1>1 DEF PayloadState
<1>5. CASE mode = "erase" /\ (Erase!Work \/ Erase!Succeed \/ Erase!GiveUp \/ Erase!Assign)
  <2>1. mode \in Payloads /\ ResultOf(mode) = EraseResult /\ DoneOf(mode) = "erased"
    BY <1>5 DEF Payloads, ResultOf, DoneOf
  <2>2. CASE Erase!Work
    BY <1>2, <1>3, <2>1, <2>2 DEF Erase!Work
  <2>3. CASE Erase!Succeed \/ Erase!GiveUp
    BY <1>2, <1>3, <2>1, <2>3 DEF Erase!Succeed, Erase!GiveUp
  <2>4. CASE Erase!Assign
    BY <1>1, <1>2, <1>3, <1>4, <2>1, <2>4, EraseAssign
  <2>5. QED
    BY <1>5, <2>2, <2>3, <2>4
<1>6. CASE mode = "update" /\ (Update!Work \/ Update!Succeed \/ Update!GiveUp \/ Update!Assign)
  <2>1. mode \in Payloads /\ ResultOf(mode) = UpdateResult /\ DoneOf(mode) = "target"
    BY <1>6 DEF Payloads, ResultOf, DoneOf
  <2>2. CASE Update!Work
    BY <1>2, <1>3, <2>1, <2>2 DEF Update!Work
  <2>3. CASE Update!Succeed \/ Update!GiveUp
    BY <1>2, <1>3, <2>1, <2>3 DEF Update!Succeed, Update!GiveUp
  <2>4. CASE Update!Assign
    BY <1>1, <1>2, <1>3, <1>4, <2>1, <2>4, UpdateAssign
  <2>5. QED
    BY <1>6, <2>2, <2>3, <2>4
<1>7. QED
  BY <1>5, <1>6 DEF PayloadStep

\* The script is away from the console while the phone does not run iBoot.
LEMMA AwayStep ==
  ASSUME IInv, mode # "recovery", UNCHANGED Host
  PROVE  /\ UNCHANGED <<product, version, pc, stage, request, child, retried, status>>
         /\ Console' /\ PayloadStage' /\ Prepared' /\ EraseBelief' /\ UpdateBelief'
<1>1. UNCHANGED <<product, version, pc, stage, request, child, retried, status>>
  BY DEF Host, ipsw
<1>2. pc \notin Preparing \cup {"exitAutoBoot", "exitSave", "exitReboot"} /\ PayloadStage
  BY DEF IInv, Console
<1>3. Console' /\ PayloadStage' /\ Prepared' /\ EraseBelief' /\ UpdateBelief'
  BY <1>1, <1>2 DEF Console, PayloadStage, Prepared, EraseBelief, UpdateBelief, Preparing
<1>4. QED
  BY <1>1, <1>3

\* What the phone does on its own keeps the invariant.
LEMMA PhoneSteps ==
  ASSUME IInv, Phone
  PROVE  IInv'
<1>0. /\ TypeOK /\ SavedArgs /\ PayloadState /\ Polling
      /\ env \in Environment /\ nvram \in Environment
  BY DEF IInv, TypeOK
<1>1. CASE PowerUp
  <2>1. /\ mode = "off" /\ mode' \in {"normal", "recovery", "modernRecovery"}
        /\ env' = IF mode' = "recovery" THEN nvram ELSE NoEnvironment
        /\ UNCHANGED <<Host, nor, nvram, baseband, phase, written>>
    BY <1>1 DEF PowerUp
  <2>2. /\ UNCHANGED <<product, version, pc, stage, request, child, retried, status>>
        /\ Console' /\ PayloadStage' /\ Prepared' /\ EraseBelief' /\ UpdateBelief'
    BY <2>1, AwayStep
  <2>3. mode' \in Mode /\ env' \in Environment
    BY <1>0, <2>1, EmptyEnvironment DEF Mode
  <2>4. TypeOK'
    BY <1>0, <2>1, <2>2, <2>3 DEF TypeOK
  <2>5. SavedArgs'
    <3>1. pc \notin Preparing \cup {"exitAutoBoot", "exitSave", "exitReboot"}
      BY <2>1 DEF IInv, Console
    <3>2. mode' \notin Payloads
      BY <2>1 DEF Payloads
    <3>3. QED
      BY <1>0, <2>1, <2>2, <3>1, <3>2 DEF SavedArgs, Preparing
  <2>6. PayloadState'
    BY <1>0, <2>1 DEF PayloadState, Payloads
  <2>7. Polling'
    BY <1>0, <2>1, <2>2 DEF Polling
  <2>8. QED
    BY <2>2, <2>4, <2>5, <2>6, <2>7 DEF IInv
<1>2. CASE PayloadStep
  <2>1. /\ mode \in Payloads /\ UNCHANGED <<Host, mode, nor, env>>
        /\ phase' \in {"working", "succeeded", "failed"} /\ written' \in 0..3
        /\ baseband' \in {"newer", "erased", "damaged", "target"}
        /\ nvram' \in Environment
        /\ nvram'["boot-args"] \in {nvram["boot-args"], ""}
        /\ phase' = "working" => phase = "working" /\ nvram' = nvram
        /\ phase' = "failed" /\ nvram'[ResultOf(mode)] = "success"
             => \/ phase = "failed" /\ nvram[ResultOf(mode)] = "success"
                \/ phase = "working" /\ nvram' = nvram
        /\ phase' = "succeeded" => baseband' = DoneOf(mode)
    BY <1>2, AnyPayloadStep
  <2>2. /\ UNCHANGED <<product, version, pc, stage, request, child, retried, status>>
        /\ Console' /\ PayloadStage' /\ Prepared' /\ EraseBelief' /\ UpdateBelief'
    BY <2>1, AwayStep DEF Payloads
  <2>3. TypeOK'
    <3>1. phase' \in {"idle", "working", "succeeded", "failed"}
      BY <2>1
    <3>2. QED
      BY <1>0, <2>1, <2>2, <3>1 DEF TypeOK
  <2>4. SavedArgs'
    <3>1. mode # "recovery" /\ nvram["boot-args"] = ""
      BY <1>0, <2>1 DEF SavedArgs, Payloads
    <3>2. pc \notin Preparing \cup {"exitAutoBoot", "exitSave", "exitReboot"}
      BY <3>1 DEF IInv, Console
    <3>3. nvram'["boot-args"] = ""
      BY <2>1, <3>1
    <3>4. QED
      BY <2>1, <2>2, <3>1, <3>2, <3>3 DEF SavedArgs, Preparing
  <2>5. /\ phase' = "working" =>
             nvram'[ResultOf(mode)] = "pending" /\ nvram'["auto-boot"] = "true"
        /\ phase' = "failed" => nvram'[ResultOf(mode)] # "success"
    BY <1>0, <2>1 DEF PayloadState
  <2>6. PayloadState'
    BY <2>1, <2>5 DEF PayloadState
  <2>7. Polling'
    <3>1. SUFFICES ASSUME pc = "poll" PROVE Polling'
      BY <2>2 DEF Polling
    <3>2. mode = stage
      BY <1>0, <2>1, <3>1 DEF Polling, Payloads
    <3>3. nvram'[ResultOf(stage)] = "success" => baseband' = DoneOf(stage)
      BY <2>1, <2>5, <3>2
    <3>4. QED
      BY <2>1, <2>2, <3>2, <3>3 DEF Polling, Payloads
  <2>8. QED
    BY <2>2, <2>3, <2>4, <2>6, <2>7 DEF IInv
<1>3. CASE PayloadEnds \/ StockResets
  <2>1. /\ mode \in {"erase", "update", "stock"} /\ mode' = "off"
        /\ UNCHANGED <<Host, nor, env>> /\ UNCHANGED <<nvram, baseband, written>>
        /\ phase' \in {"idle", phase} /\ (mode = "stock" => phase' = phase)
        /\ (mode # "stock" => phase' = "idle")
    BY <1>3 DEF PayloadEnds, StockResets, Erase!Reset, Erase!Cut, Update!Reset, Update!Cut
  <2>2. /\ UNCHANGED <<product, version, pc, stage, request, child, retried, status>>
        /\ Console' /\ PayloadStage' /\ Prepared' /\ EraseBelief' /\ UpdateBelief'
    BY <2>1, AwayStep
  <2>3. mode' \in Mode /\ phase' \in {"idle", "working", "succeeded", "failed"}
    BY <1>0, <2>1 DEF TypeOK, Mode
  <2>4. TypeOK'
    BY <1>0, <2>1, <2>2, <2>3 DEF TypeOK
  <2>5. PayloadState'
    BY <1>0, <2>1 DEF PayloadState, Payloads
  <2>6. SavedArgs' /\ Polling'
    <3>1. pc \notin Preparing \cup {"exitAutoBoot", "exitSave", "exitReboot"}
      BY <2>1 DEF IInv, Console
    <3>2. SavedArgs'
      BY <1>0, <2>1, <2>2, <3>1 DEF SavedArgs, Preparing, Payloads
    <3>3. QED
      BY <1>0, <2>1, <2>2, <3>2 DEF Polling
  <2>7. QED
    BY <2>2, <2>4, <2>5, <2>6 DEF IInv
<1>4. QED
  BY <1>1, <1>2, <1>3 DEF Phone

-----------------------------------------------------------------------------
\* Every step of the script, the phone and the user keeps the invariant.
LEMMA Inductive == IInv /\ [Next]_vars => IInv'
<1> SUFFICES ASSUME IInv, [Next]_vars PROVE IInv'
  OBVIOUS
<1>1. CASE ToConsole
  <2>1. CASE CheckMode
    <3>1. \/ Look("checkMode", {"normal", "stock"}, "enterRecovery")
          \/ CheckMode /\ pc' = "load"
      BY <2>1 DEF CheckMode
    <3>2. QED
      BY <3>1, LookSteps, ConsoleSteps
  <2>2. QED
    BY <1>1, <2>1, LookSteps, FreePhoneSteps, ConsoleSteps DEF ToConsole
<1>2. CASE Boots
  BY <1>2, LookSteps, FreePhoneSteps, ConsoleSteps, SetEnvSteps, SaveEnvSteps DEF Boots
<1>3. CASE Restores
  BY <1>3, LookSteps, FreePhoneSteps, ConsoleSteps, SetEnvSteps, SaveEnvSteps DEF Restores
<1>4. CASE Fail \/ Launch
  BY <1>4, LookSteps
<1>5. CASE Phone
  BY <1>5, PhoneSteps
<1>6. CASE UserResets
  BY <1>6, FreePhoneSteps
<1>7. CASE UNCHANGED vars
  <2>1. /\ product' = product /\ version' = version /\ mode' = mode /\ nor' = nor
        /\ env' = env /\ nvram' = nvram /\ baseband' = baseband
        /\ phase' = phase /\ written' = written
    BY <1>7 DEF vars, ipsw, phone
  <2>2. /\ pc' = pc /\ stage' = stage /\ request' = request
        /\ child' = child /\ retried' = retried /\ status' = status
    BY <1>7 DEF vars, host
  <2>3. options' = options
    BY <2>2 DEF options
  <2>4. TypeOK'
    <3>1. TypeOK
      BY DEF IInv
    <3>2. QED
      BY <3>1, <2>1, <2>2, ZenonT(30) DEF TypeOK
  <2>5. Console' /\ PayloadStage'
    BY <2>1, <2>2 DEF IInv, Console, PayloadStage
  <2>6. SavedArgs'
    <3>1. SavedArgs
      BY DEF IInv
    <3>2. QED
      BY <3>1, <2>1, <2>2, Zenon DEF SavedArgs
  <2>7. Prepared'
    BY <2>1, <2>2 DEF IInv, Prepared
  <2>8. PayloadState'
    BY <2>1 DEF IInv, PayloadState
  <2>9. Polling'
    <3>1. Polling
      BY DEF IInv
    <3>2. QED
      BY <3>1, <2>1, <2>2, Zenon DEF Polling
  <2>10. EraseBelief' /\ UpdateBelief'
    BY <2>1, <2>2, <2>3 DEF IInv, EraseBelief, UpdateBelief
  <2>11. QED
    BY <2>4, <2>5, <2>6, <2>7, <2>8, <2>9, <2>10 DEF IInv
<1>8. QED
  BY <1>1, <1>2, <1>3, <1>4, <1>5, <1>6, <1>7 DEF Next, Script

\* The invariant holds for every sequence of runs on a phone.
THEOREM Invariance == Spec => []IInv
BY Initially, Inductive, PTL DEF Spec

-----------------------------------------------------------------------------
\* Every variable keeps to its set, for every sequence of runs.
THEOREM TypeCorrect == Spec => []TypeOK
<1>1. IInv => TypeOK
  BY DEF IInv
<1>2. QED
  BY <1>1, Invariance, PTL

\* legacy-boot-restore and the script between them have reset the result,
\* set auto-boot and emptied boot-args in NVRAM whenever a payload runs.
THEOREM StartsClean == Spec => []PayloadStartsClean
<1>1. IInv => PayloadStartsClean
  BY DEF IInv, SavedArgs, PayloadState, PayloadStartsClean, Payloads
<1>2. QED
  BY <1>1, Invariance, PTL

\* The script goes on to the update only with the baseband erased.
THEOREM ErasedBeforeUpdate == Spec => []EraseBelief
<1>1. IInv => EraseBelief
  BY DEF IInv
<1>2. QED
  BY <1>1, Invariance, PTL

\* The script goes on to the restore of a downgrade only with the target
\* firmware in the baseband.
THEOREM UpdatedBeforeRestore == Spec => []UpdateBelief
<1>1. IInv => UpdateBelief
  BY DEF IInv
<1>2. QED
  BY <1>1, Invariance, PTL

\* What a step can do to the boot arguments in NVRAM: leave them, empty them, or
\* write what iBoot's memory holds.
LEMMA ArgsStep ==
  ASSUME IInv, Next
  PROVE  \/ nvram'["boot-args"] \in {nvram["boot-args"], ""}
         \/ (SaveMark \/ SaveBoot \/ ExitSave) /\ mode = "recovery" /\ nvram' = env
<1>1. nvram \in Environment
  BY DEF IInv, TypeOK
<1>2. CASE EnterRecovery \/ RestoreSucceeds
  BY <1>1, <1>2, PutAutoBoot DEF EnterRecovery, RestoreSucceeds
<1>3. CASE SaveMark \/ SaveBoot \/ ExitSave
  BY <1>3 DEF SaveMark, SaveBoot, ExitSave, SaveEnv
<1>4. CASE PayloadStep
  BY <1>4, AnyPayloadStep
<1>5. CASE PayloadEnds \/ PowerUp \/ StockResets \/ UserResets \/ Fail \/ Launch
  BY <1>5 DEF PayloadEnds, PowerUp, StockResets, UserResets, Fail, Launch, phone,
              Erase!Reset, Erase!Cut, Update!Reset, Update!Cut
<1>6. CASE ToConsole
  BY <1>2, <1>6 DEF ToConsole, CheckDfu, SendWtf, SendIbss, LaunchChild, CheckMode,
                    WaitRecovery, Rejoin, Look, phone
<1>7. CASE Boots
  BY <1>3, <1>7 DEF Boots, LoadImage, MarkPending, AutoBoot, ClearBootArgs, SetBootArgs,
                    BootPayload, PollSuccess, StockAutoBoot, StockBootArgs, BootStock,
                    WaitRestored, SetEnv, Look, phone
<1>8. CASE Restores
  BY <1>2, <1>3, <1>8 DEF Restores, RestoreRefused, RestoreFails, WaitRetry, Retry,
                          WaitRefused, ExitAutoBoot, ExitReboot, WaitNormal, Complete,
                          SetEnv, Look, phone
<1>9. QED
  BY <1>4, <1>5, <1>6, <1>7, <1>8 DEF Next, Script, Phone

\* The one way of boot arguments into NVRAM: the first `saveenv' of a downgrade, when
\* iBoot still has those of an earlier attempt in memory.
THEOREM ArgsOnlyBeforeErase == Spec => BootArgsSavedBeforeErase
<1>1. IInv /\ [Next]_vars =>
        [nvram["boot-args"] = "" /\ nvram'["boot-args"] # ""
           => pc = "saveMark" /\ stage = "erase"]_vars
  <2>1. SUFFICES ASSUME IInv, Next, nvram["boot-args"] = "", nvram'["boot-args"] # ""
                 PROVE  pc = "saveMark" /\ stage = "erase"
    OBVIOUS
  <2>2. /\ SaveMark \/ SaveBoot \/ ExitSave
        /\ mode = "recovery" /\ env["boot-args"] # ""
    BY <2>1, ArgsStep
  <2>3. pc \in {"saveMark", "saveBoot", "exitSave"}
    BY <2>2 DEF SaveMark, SaveBoot, ExitSave, SaveEnv
  <2>4. pc = "saveMark" /\ stage # "update"
    BY <2>1, <2>2, <2>3 DEF IInv, SavedArgs
  <2>5. QED
    BY <2>1, <2>4 DEF IInv, PayloadStage, Payloads
<1>2. QED
  BY <1>1, Invariance, PTL DEF Spec, BootArgsSavedBeforeErase

-----------------------------------------------------------------------------
(* What a whole run delivers: the step at which the script reports success,  *)
(* on top of the invariant above.                                          *)

\* Where the script is once no payload is left to boot.
AfterPayloads ==
  {"stockAutoBoot", "stockArgs", "stockBootx", "waitRestored", "restoring",
   "leaveRestored", "waitRetry", "retry", "waitRefused", "exitAutoBoot",
   "exitSave", "exitReboot", "waitNormal", "complete"}

StockBoot == {"stockAutoBoot", "stockArgs", "stockBootx"}

RetryWaits == {"leaveRestored", "waitRetry", "retry"}

Refused == {"waitRefused", "exitAutoBoot", "exitSave", "exitReboot", "waitNormal"}

\* A run has reported nothing until it ends.
Reporting ==
  /\ request \in Requests
  /\ pc # "exit" => status = "none"
  /\ pc = "exit" => ~child /\ ~retried

\* Only a run with --baseband-downgrade starts the bootstrap restore.
Bootstrapping ==
  /\ pc \in {"sendWtf", "sendIbss", "launchChild"} => options.downgrade
  /\ pc = "launchChild" => mode = "recovery"

StockStage == pc \in StockBoot => stage = "restore"

\* The bootstrap restore and the partition retry boot no payload.
PlainPath ==
  /\ child \/ retried \/ pc \in RetryWaits => mode \notin Payloads
  /\ child \/ retried => (pc \in Preparing \cup {"poll"} => stage = "restore")

\* A run for --erase-baseband-only never gets past the erase.
ErasePath ==
  request.eraseOnly /\ ~child =>
    /\ ~retried
    /\ pc \notin AfterPayloads
    /\ pc \in Preparing \cup {"poll"} => stage = "erase"

\* The run of a downgrade goes through the restore with the target's baseband,
\* or, after the partition retry, with what the failed restore made of it.
DowngradePath ==
  request.downgrade /\ ~child =>
    /\ ~retried /\ pc \in {"waitRestored", "restoring", "complete"}
         => baseband = "target" /\ mode \notin Payloads
    /\ retried \/ pc \in RetryWaits
         => /\ product = "iPhone" /\ version = "1.0"
            /\ baseband \in {"damaged", "target"}
    /\ pc \notin Refused

\* The invariant of a run: how far its options have got it.
DInv ==
  Reporting /\ Bootstrapping /\ StockStage /\ PlainPath /\ ErasePath /\ DowngradePath

-----------------------------------------------------------------------------
\* The options in force: none in the bootstrap restore and after the retry.
LEMMA OptionsOf ==
  /\ child \/ retried => options = Plain
  /\ ~child /\ ~retried => options = request
  /\ ~Plain.downgrade /\ ~Plain.eraseOnly
BY DEF options, Plain

\* The delivery invariant holds before the first run.
LEMMA InitiallyDelivering == Init => DInv
<1> SUFFICES ASSUME Init PROVE DInv
  OBVIOUS
<1>1. /\ pc = "exit" /\ request = Plain /\ child = FALSE /\ retried = FALSE
  BY DEF Init
<1>2. Plain \in Requests /\ ~Plain.downgrade /\ ~Plain.eraseOnly
  BY DEF Plain, Requests, Options
<1>3. Reporting
  BY <1>1, <1>2 DEF Reporting
<1>4. Bootstrapping /\ StockStage /\ PlainPath /\ ErasePath /\ DowngradePath
  BY <1>1, <1>2 DEF Bootstrapping, StockStage, StockBoot, PlainPath, RetryWaits, ErasePath, DowngradePath
<1>5. QED
  BY <1>3, <1>4 DEF DInv

\* The end of a run, and of the phone's steps between two runs.
LEMMA Ended ==
  ASSUME DInv, pc' = "exit", child' = FALSE, retried' = FALSE, UNCHANGED <<product, request>>
  PROVE  DInv'
<1>1. request \in Requests
  BY DEF DInv, Reporting
<1>2. Reporting'
  BY <1>1 DEF Reporting, Requests
<1>3. Bootstrapping' /\ StockStage' /\ PlainPath' /\ ErasePath'
  BY DEF Bootstrapping, StockStage, StockBoot, PlainPath, RetryWaits, ErasePath, AfterPayloads, Preparing
<1>4. DowngradePath'
  BY DEF DowngradePath, RetryWaits, Refused
<1>5. QED
  BY <1>2, <1>3, <1>4 DEF DInv

\* The script, or the phone, moves on within a run: the choice of the ramdisk
\* and the baseband stay as they are.
LEMMA Onward ==
  ASSUME DInv,
         UNCHANGED <<product, version, baseband>>,
         UNCHANGED <<stage, request, child, retried, status>>,
         pc # "exit", pc' # "exit",
         mode' \in Payloads => mode' = mode,
         pc' \in {"sendWtf", "sendIbss", "launchChild"} => options.downgrade,
         pc' = "launchChild" => mode' = "recovery",
         pc' \in Preparing \cup {"poll"} => pc \in Preparing \cup {"poll"},
         pc' \in AfterPayloads => pc \in AfterPayloads \/ (pc \in Preparing /\ stage = "restore"),
         pc' \in StockBoot => pc \in StockBoot \/ stage = "restore",
         pc' \in {"waitRestored", "restoring", "complete"} =>
           \/ pc \in {"waitRestored", "restoring", "complete"} \cup Refused
           \/ (options.downgrade => baseband = "target") /\ mode' \notin Payloads,
         pc' \in RetryWaits => pc \in RetryWaits,
         pc' \in Refused => pc \in Refused
  PROVE  DInv'
<1>1. request \in Requests /\ status = "none"
  BY DEF DInv, Reporting
<1>2. Reporting'
  BY <1>1 DEF Reporting, Requests
<1>3. options' = options
  BY DEF options
<1>4. Bootstrapping'
  BY <1>3 DEF Bootstrapping
<1>5. PlainPath' /\ StockStage'
  BY DEF DInv, PlainPath, StockStage
<1>6. ErasePath'
  BY DEF DInv, ErasePath
<1>7. DowngradePath'
  BY OptionsOf DEF DInv, DowngradePath
<1>8. QED
  BY <1>2, <1>4, <1>5, <1>6, <1>7 DEF DInv

-----------------------------------------------------------------------------
\* Up to the recovery console.
LEMMA ToConsoleSteps ==
  ASSUME IInv, DInv, ToConsole
  PROVE  DInv'
<1>1. CASE CheckDfu \/ SendWtf \/ Rejoin \/ Look("checkMode", {"normal", "stock"}, "enterRecovery")
  <2>1. /\ UNCHANGED <<ipsw, phone>> /\ UNCHANGED <<stage, request, child, retried, status>>
        /\ pc \in {"checkDfu", "sendWtf", "checkMode", "rejoin", "waitRejoin"}
        /\ pc' \in {"sendWtf", "checkMode", "sendIbss", "enterRecovery"}
        /\ pc' = "sendWtf" => options.downgrade
        /\ pc' = "sendIbss" => pc = "sendWtf"
    BY <1>1 DEF CheckDfu, SendWtf, Rejoin, Look, Goto
  <2>2. UNCHANGED <<product, version, mode, baseband>>
    BY <2>1 DEF ipsw, phone
  <2>3. pc = "sendWtf" => options.downgrade
    BY DEF DInv, Bootstrapping
  <2>4. QED
    BY <2>1, <2>2, <2>3, Onward DEF Preparing, AfterPayloads, RetryWaits, Refused, StockBoot
<1>2. CASE SendIbss
  <2>1. /\ UNCHANGED <<ipsw, baseband>> /\ UNCHANGED <<stage, request, child, retried, status>>
        /\ pc = "sendIbss" /\ pc' = "launchChild" /\ mode' = "recovery"
    BY <1>2 DEF SendIbss, Goto
  <2>2. UNCHANGED <<product, version>> /\ options.downgrade
    BY <2>1 DEF ipsw, DInv, Bootstrapping
  <2>3. QED
    BY <2>1, <2>2, Onward DEF Preparing, AfterPayloads, RetryWaits, Refused, StockBoot, Payloads
<1>3. CASE LaunchChild
  <2>1. /\ UNCHANGED <<ipsw, phone>> /\ UNCHANGED <<stage, request, retried, status>>
        /\ pc = "launchChild" /\ pc' = "checkDfu" /\ child' = TRUE
    BY <1>3 DEF LaunchChild
  <2>2. UNCHANGED <<product, version, mode, baseband>>
    BY <2>1 DEF ipsw, phone
  <2>3. request \in Requests /\ status = "none" /\ mode = "recovery"
    BY <2>1 DEF DInv, Reporting, Bootstrapping
  <2>4. Reporting'
    BY <2>1, <2>2, <2>3 DEF Reporting, Requests
  <2>5. Bootstrapping' /\ StockStage' /\ PlainPath'
    BY <2>1, <2>2, <2>3 DEF Bootstrapping, StockStage, StockBoot, PlainPath, RetryWaits, Preparing, Payloads
  <2>6. ErasePath' /\ DowngradePath'
    BY <2>1 DEF ErasePath, DowngradePath
  <2>7. QED
    BY <2>4, <2>5, <2>6 DEF DInv
<1>4. CASE EnterRecovery
  <2>1. /\ UNCHANGED <<ipsw, baseband>> /\ UNCHANGED <<stage, request, child, retried, status>>
        /\ pc \in {"enterRecovery", "rejoin"} /\ mode' = "off"
        /\ pc' \in {"enterRecovery", "rejoin", "waitRejoin", "waitRecovery"}
    BY <1>4 DEF EnterRecovery, Goto
  <2>2. UNCHANGED <<product, version>>
    BY <2>1 DEF ipsw
  <2>3. QED
    BY <2>1, <2>2, Onward DEF Preparing, AfterPayloads, RetryWaits, Refused, StockBoot, Payloads
<1>5. CASE (CheckMode /\ pc' = "load") \/ WaitRecovery
  <2>1. /\ mode = "recovery" /\ UNCHANGED <<ipsw, phone>>
        /\ UNCHANGED <<request, child, retried, status>>
        /\ pc \in {"checkMode", "waitRecovery"} /\ pc' = "load"
        /\ stage' = IF options.downgrade THEN "erase" ELSE "restore"
    BY <1>5 DEF CheckMode, WaitRecovery, Look, Goto
  <2>2. UNCHANGED <<product, version, mode, baseband>>
    BY <2>1 DEF ipsw, phone
  <2>3. request \in Requests /\ status = "none"
    BY <2>1 DEF DInv, Reporting
  <2>4. Reporting'
    BY <2>1, <2>2, <2>3 DEF Reporting, Requests
  <2>5. Bootstrapping' /\ StockStage' /\ PlainPath'
    BY <2>1, <2>2, OptionsOf DEF Bootstrapping, StockStage, StockBoot, PlainPath, RetryWaits, Payloads
  <2>6. ErasePath'
    <3>1. SUFFICES ASSUME request.eraseOnly, ~child PROVE ErasePath'
      BY <2>1 DEF ErasePath
    <3>2. ~retried
      BY <3>1 DEF DInv, ErasePath
    <3>3. request.downgrade
      BY <2>3, <3>1 DEF Requests
    <3>4. stage' = "erase"
      BY <2>1, <3>1, <3>2, <3>3, OptionsOf
    <3>5. QED
      BY <2>1, <3>2, <3>4 DEF ErasePath, AfterPayloads
  <2>7. DowngradePath'
    BY <2>1, <2>2 DEF DInv, DowngradePath, RetryWaits, Refused, StockBoot
  <2>8. QED
    BY <2>4, <2>5, <2>6, <2>7 DEF DInv
<1>6. QED
  <2>1. CheckMode => \/ Look("checkMode", {"normal", "stock"}, "enterRecovery")
                     \/ CheckMode /\ pc' = "load"
    BY DEF CheckMode
  <2>2. QED
    BY <1>1, <1>2, <1>3, <1>4, <1>5, <2>1 DEF ToConsole

\* Ramdisks.
LEMMA BootsSteps ==
  ASSUME IInv, DInv, Boots
  PROVE  DInv'
<1>1. CASE \/ MarkPending \/ SaveMark \/ AutoBoot \/ ClearBootArgs \/ SaveBoot
           \/ SetBootArgs \/ StockAutoBoot \/ StockBootArgs
  <2>1. /\ UNCHANGED <<ipsw, mode, baseband>>
        /\ UNCHANGED <<stage, request, child, retried, status>>
        /\ \/ /\ pc \in {"mark", "saveMark", "autoBoot", "clearArgs", "saveBoot", "setArgs"}
              /\ pc' \in {"saveMark", "autoBoot", "clearArgs", "saveBoot", "setArgs", "bootx"}
           \/ pc \in {"stockAutoBoot", "stockArgs"} /\ pc' \in {"stockArgs", "stockBootx"}
    <3>1. CASE SaveMark \/ SaveBoot
      BY <3>1 DEF SaveMark, SaveBoot, SaveEnv, Goto
    <3>2. CASE MarkPending \/ AutoBoot \/ ClearBootArgs \/ SetBootArgs
      BY <3>2 DEF MarkPending, AutoBoot, ClearBootArgs, SetBootArgs, SetEnv, Goto
    <3>3. CASE StockAutoBoot \/ StockBootArgs
      BY <3>3 DEF StockAutoBoot, StockBootArgs, SetEnv, Goto
    <3>4. QED
      BY <1>1, <3>1, <3>2, <3>3
  <2>2. UNCHANGED <<product, version>>
    BY <2>1 DEF ipsw
  <2>3. QED
    BY <2>1, <2>2, Onward DEF Preparing, AfterPayloads, RetryWaits, Refused, StockBoot
<1>2. CASE LoadImage
  <2>1. /\ UNCHANGED <<ipsw, mode, baseband>>
        /\ UNCHANGED <<stage, request, child, retried, status>>
        /\ pc = "load" /\ pc' = IF stage = "restore" THEN "stockAutoBoot" ELSE "mark"
    BY <1>2 DEF LoadImage, Goto
  <2>2. UNCHANGED <<product, version>>
    BY <2>1 DEF ipsw
  <2>3. QED
    BY <2>1, <2>2, Onward DEF Preparing, AfterPayloads, RetryWaits, Refused, StockBoot
<1>3. CASE BootPayload
  <2>1. /\ UNCHANGED <<ipsw, baseband>> /\ UNCHANGED <<stage, request, child, retried, status>>
        /\ pc = "bootx" /\ pc' = "poll" /\ mode = "recovery" /\ mode' \in {stage, mode}
    BY <1>3 DEF BootPayload, Goto
  <2>2. UNCHANGED <<product, version>> /\ stage \in Payloads /\ options' = options
    BY <2>1 DEF ipsw, IInv, PayloadStage, options
  <2>3. request \in Requests /\ status = "none" /\ ~child /\ ~retried
    BY <2>1, <2>2 DEF DInv, Reporting, PlainPath, Preparing, Payloads
  <2>4. Reporting'
    BY <2>1, <2>2, <2>3 DEF Reporting, Requests
  <2>5. Bootstrapping' /\ StockStage' /\ PlainPath'
    BY <2>1, <2>3 DEF Bootstrapping, StockStage, StockBoot, PlainPath, RetryWaits
  <2>6. ErasePath'
    BY <2>1 DEF DInv, ErasePath, AfterPayloads, Preparing
  <2>7. DowngradePath'
    BY <2>1, <2>3 DEF DowngradePath, RetryWaits, Refused, StockBoot
  <2>8. QED
    BY <2>4, <2>5, <2>6, <2>7 DEF DInv
<1>4. CASE PollSuccess
  <2>1. /\ pc = "poll" /\ UNCHANGED <<ipsw, phone>>
        /\ \/ Exit("ok")
           \/ /\ ~options.eraseOnly
              /\ stage' = NextStage(stage) /\ pc' = "load"
              /\ UNCHANGED <<request, child, retried, status>>
    BY <1>4 DEF PollSuccess
  <2>2. UNCHANGED <<product, version, mode, baseband>>
    BY <2>1 DEF ipsw, phone
  <2>3. CASE Exit("ok")
    BY <2>2, <2>3, Ended DEF Exit
  <2>4. CASE /\ ~options.eraseOnly
             /\ stage' = NextStage(stage) /\ pc' = "load"
             /\ UNCHANGED <<request, child, retried, status>>
    <3>1. stage \in Payloads
      BY <2>1 DEF IInv, PayloadStage
    <3>2. request \in Requests /\ status = "none" /\ ~child /\ ~retried
      BY <2>1, <3>1 DEF DInv, Reporting, PlainPath, Payloads
    <3>3. ~request.eraseOnly
      BY <2>4, <3>2, OptionsOf
    <3>4. Reporting'
      BY <2>2, <2>4, <3>2 DEF Reporting, Requests
    <3>5. Bootstrapping' /\ StockStage' /\ PlainPath' /\ ErasePath'
      BY <2>4, <3>2, <3>3 DEF Bootstrapping, StockStage, StockBoot, PlainPath, RetryWaits, ErasePath
    <3>6. DowngradePath'
      BY <2>4, <3>2 DEF DowngradePath, RetryWaits, Refused, StockBoot
    <3>7. QED
      BY <3>4, <3>5, <3>6 DEF DInv
  <2>5. QED
    BY <2>1, <2>3, <2>4
<1>5. CASE BootStock \/ WaitRestored
  <2>1. /\ UNCHANGED <<ipsw, baseband>> /\ UNCHANGED <<stage, request, child, retried, status>>
        /\ \/ pc = "stockBootx" /\ pc' = "waitRestored" /\ mode = "recovery"
              /\ mode' \in {"stock", mode}
           \/ pc = "waitRestored" /\ pc' = "restoring" /\ mode' = mode
    BY <1>5 DEF BootStock, WaitRestored, Look, Goto, phone
  <2>2. UNCHANGED <<product, version>>
    BY <2>1 DEF ipsw
  <2>3. CASE pc = "waitRestored"
    BY <2>1, <2>2, <2>3, Onward DEF Preparing, AfterPayloads, RetryWaits, Refused, StockBoot
  <2>4. CASE pc = "stockBootx"
    <3>1. stage = "restore" /\ options.downgrade => baseband = "target"
      BY <2>4 DEF IInv, UpdateBelief, Preparing
    <3>2. options.downgrade => stage = "restore"
      BY <2>4 DEF DInv, StockStage, StockBoot
    <3>3. QED
      BY <2>1, <2>2, <2>4, <3>1, <3>2, Onward
         DEF Preparing, AfterPayloads, RetryWaits, Refused, StockBoot, Payloads
  <2>5. QED
    BY <2>1, <2>3, <2>4
<1>6. QED
  BY <1>1, <1>2, <1>3, <1>4, <1>5 DEF Boots

\* idevicerestore, the partition retry and the end of a run.
LEMMA RestoresSteps ==
  ASSUME IInv, DInv, Restores
  PROVE  DInv'
<1>1. CASE RestoreSucceeds
  <2>1. /\ ipsw' = ipsw /\ UNCHANGED <<stage, request, child, retried, status>>
        /\ pc = "restoring" /\ pc' = "complete" /\ mode' = "off"
        /\ baseband' \in {baseband, "target"}
        /\ ~UpdatesBaseband => baseband' = baseband
    BY <1>1 DEF RestoreSucceeds, Goto
  <2>2. UNCHANGED <<product, version>>
    BY <2>1 DEF ipsw
  <2>3. request \in Requests /\ status = "none"
    BY <2>1 DEF DInv, Reporting
  <2>4. Reporting'
    BY <2>1, <2>2, <2>3 DEF Reporting, Requests
  <2>5. Bootstrapping' /\ StockStage' /\ PlainPath'
    BY <2>1 DEF Bootstrapping, StockStage, StockBoot, PlainPath, RetryWaits, Preparing,
                  Payloads
  <2>6. ErasePath'
    BY <2>1 DEF DInv, ErasePath, AfterPayloads, Preparing
  <2>7. DowngradePath'
    BY <2>1, <2>2 DEF DInv, DowngradePath, RetryWaits, Refused, Payloads
  <2>8. QED
    BY <2>4, <2>5, <2>6, <2>7 DEF DInv
<1>2. CASE RestoreRefused
  <2>1. /\ UNCHANGED <<ipsw, baseband>> /\ pc = "restoring" /\ mode' = "off"
        /\ UpdatesBaseband /\ baseband = "newer"
        /\ Exit("failed") \/ (~options.downgrade /\ Goto("waitRefused"))
    BY <1>2 DEF RestoreRefused
  <2>2. UNCHANGED <<product, version>>
    BY <2>1 DEF ipsw
  <2>3. CASE Exit("failed")
    BY <2>2, <2>3, Ended DEF Exit
  <2>4. CASE ~options.downgrade /\ Goto("waitRefused")
    <3>1. pc' = "waitRefused" /\ UNCHANGED <<stage, request, child, retried, status>>
      BY <2>4 DEF Goto
    <3>2. request \in Requests /\ status = "none"
      BY <2>1 DEF DInv, Reporting
    <3>3. request.downgrade /\ ~child => baseband # "newer"
      BY <2>1 DEF DInv, DowngradePath
    <3>4. Reporting'
      BY <2>1, <2>2, <3>1, <3>2 DEF Reporting, Requests
    <3>5. Bootstrapping' /\ StockStage' /\ PlainPath'
      BY <2>1, <3>1 DEF Bootstrapping, StockStage, StockBoot, PlainPath, RetryWaits, Preparing,
                  Payloads
    <3>6. ErasePath'
      BY <2>1, <3>1 DEF DInv, ErasePath, AfterPayloads, Preparing
    <3>7. DowngradePath'
      BY <2>1, <3>1, <3>3 DEF DowngradePath
    <3>8. QED
      BY <3>4, <3>5, <3>6, <3>7 DEF DInv
  <2>5. QED
    BY <2>1, <2>3, <2>4
<1>3. CASE RestoreFails
  <2>1. /\ ipsw' = ipsw /\ pc = "restoring" /\ mode' \in {"stock", "off"}
        /\ baseband' \in {baseband, "damaged", "target"}
        /\ ~UpdatesBaseband => baseband' = baseband
        /\ Exit("failed") \/ (CanRetry /\ Goto("leaveRestored"))
    BY <1>3 DEF RestoreFails
  <2>2. UNCHANGED <<product, version>>
    BY <2>1 DEF ipsw
  <2>3. CASE Exit("failed")
    BY <2>2, <2>3, Ended DEF Exit
  <2>4. CASE CanRetry /\ Goto("leaveRestored")
    <3>1. /\ pc' = "leaveRestored" /\ UNCHANGED <<stage, request, child, retried, status>>
          /\ product = "iPhone" /\ version = "1.0"
      BY <2>4 DEF Goto, CanRetry
    <3>2. request \in Requests /\ status = "none"
      BY <2>1 DEF DInv, Reporting
    <3>3. request.downgrade /\ ~child => baseband \in {"damaged", "target"}
      BY <2>1 DEF DInv, DowngradePath
    <3>4. Reporting'
      BY <2>1, <2>2, <3>1, <3>2 DEF Reporting, Requests
    <3>5. Bootstrapping' /\ StockStage' /\ PlainPath'
      BY <2>1, <3>1 DEF Bootstrapping, StockStage, StockBoot, PlainPath, RetryWaits, Preparing,
                  Payloads
    <3>6. ErasePath'
      BY <2>1, <3>1 DEF DInv, ErasePath, AfterPayloads, Preparing
    <3>7. DowngradePath'
      BY <2>1, <2>2, <3>1, <3>3 DEF DowngradePath, RetryWaits, Refused, Payloads
    <3>8. QED
      BY <3>4, <3>5, <3>6, <3>7 DEF DInv
  <2>5. QED
    BY <2>1, <2>3, <2>4
<1>4. CASE WaitRetry \/ WaitNormal \/ WaitRefused \/ ExitAutoBoot \/ ExitSave \/ ExitReboot
  <2>1. /\ UNCHANGED <<ipsw, baseband>> /\ UNCHANGED <<stage, request, child, retried, status>>
        /\ mode' \in {mode, "off"}
        /\ \/ pc \in RetryWaits /\ pc' \in RetryWaits
           \/ pc \in Refused /\ pc' \in Refused \cup {"complete"}
    <3>1. CASE WaitRetry \/ WaitNormal \/ WaitRefused
      BY <3>1 DEF WaitRetry, WaitNormal, WaitRefused, Look, Goto, phone, RetryWaits, Refused
    <3>2. CASE ExitAutoBoot \/ ExitSave \/ ExitReboot
      BY <3>2 DEF ExitAutoBoot, ExitSave, ExitReboot, SetEnv, SaveEnv, Goto, Refused
    <3>3. QED
      BY <1>4, <3>1, <3>2
  <2>2. UNCHANGED <<product, version>>
    BY <2>1 DEF ipsw
  <2>3. QED
    BY <2>1, <2>2, Onward
       DEF Preparing, AfterPayloads, RetryWaits, Refused, StockBoot, Payloads
<1>5. CASE Retry
  <2>1. /\ UNCHANGED <<ipsw, phone>> /\ UNCHANGED <<request, child, status>>
        /\ pc = "retry" /\ pc' = "checkDfu" /\ retried' = TRUE
    BY <1>5 DEF Retry
  <2>2. UNCHANGED <<product, version, mode, baseband>>
    BY <2>1 DEF ipsw, phone
  <2>3. request \in Requests /\ status = "none"
    BY <2>1 DEF DInv, Reporting
  <2>4. Reporting'
    BY <2>1, <2>2, <2>3 DEF Reporting, Requests
  <2>5. mode \notin Payloads
    BY <2>1 DEF DInv, PlainPath, RetryWaits
  <2>6. Bootstrapping' /\ StockStage' /\ PlainPath'
    BY <2>1, <2>2, <2>5 DEF Bootstrapping, StockStage, StockBoot, PlainPath, RetryWaits, Preparing
  <2>7. ErasePath'
    BY <2>1 DEF DInv, ErasePath, AfterPayloads
  <2>8. DowngradePath'
    BY <2>1, <2>2 DEF DInv, DowngradePath, RetryWaits, Refused
  <2>9. QED
    BY <2>4, <2>6, <2>7, <2>8 DEF DInv
<1>6. CASE Complete
  <2>1. /\ UNCHANGED <<ipsw, phone>> /\ pc = "complete"
        /\ \/ Exit("ok")
           \/ /\ child' = FALSE /\ retried' = FALSE /\ pc' = "rejoin"
              /\ UNCHANGED <<stage, request, status>>
    BY <1>6 DEF Complete
  <2>2. UNCHANGED <<product, version>>
    BY <2>1 DEF ipsw
  <2>3. CASE Exit("ok")
    BY <2>2, <2>3, Ended DEF Exit
  <2>4. CASE /\ child' = FALSE /\ retried' = FALSE /\ pc' = "rejoin"
             /\ UNCHANGED <<stage, request, status>>
    <3>1. request \in Requests /\ status = "none"
      BY <2>1 DEF DInv, Reporting
    <3>2. Reporting'
      BY <2>1, <2>2, <2>4, <3>1 DEF Reporting, Requests
    <3>3. Bootstrapping' /\ StockStage' /\ PlainPath' /\ ErasePath'
      BY <2>4 DEF Bootstrapping, StockStage, StockBoot, PlainPath, RetryWaits, ErasePath,
                  AfterPayloads, Preparing
    <3>4. DowngradePath'
      BY <2>4 DEF DowngradePath, RetryWaits, Refused
    <3>5. QED
      BY <3>2, <3>3, <3>4 DEF DInv
  <2>5. QED
    BY <2>1, <2>3, <2>4
<1>7. QED
  BY <1>1, <1>2, <1>3, <1>4, <1>5, <1>6 DEF Restores

-----------------------------------------------------------------------------
\* Every step of the script, the phone and the user keeps the delivery invariant.
LEMMA InductiveDelivering == IInv /\ DInv /\ [Next]_vars => DInv'
<1> SUFFICES ASSUME IInv, DInv, [Next]_vars PROVE DInv'
  OBVIOUS
<1>1. CASE ToConsole \/ Boots \/ Restores
  BY <1>1, ToConsoleSteps, BootsSteps, RestoresSteps
<1>2. CASE Fail
  BY <1>2, Ended DEF Fail, Exit, ipsw
<1>3. CASE Launch
  <2>1. /\ UNCHANGED <<ipsw, phone>> /\ UNCHANGED <<stage, child, retried>>
        /\ pc = "exit" /\ request' \in Requests /\ status' = "none"
        /\ pc' = IF request'.resume THEN "restoring" ELSE "checkDfu"
    BY <1>3 DEF Launch
  <2>2. UNCHANGED <<product, version>> /\ ~child /\ ~retried
    BY <2>1 DEF ipsw, DInv, Reporting
  <2>3. Reporting'
    BY <2>1, <2>2 DEF Reporting, Requests
  <2>4. request'.downgrade => pc' = "checkDfu"
    BY <2>1 DEF Requests
  <2>5. request'.eraseOnly => request'.downgrade
    BY <2>1 DEF Requests
  <2>6. Bootstrapping' /\ StockStage' /\ PlainPath'
    BY <2>1, <2>2 DEF Bootstrapping, StockStage, StockBoot, PlainPath, RetryWaits
  <2>7. ErasePath' /\ DowngradePath'
    BY <2>1, <2>2, <2>4, <2>5 DEF ErasePath, DowngradePath, AfterPayloads, Preparing,
                                 RetryWaits, Refused
  <2>8. QED
    BY <2>3, <2>6, <2>7 DEF DInv
<1>4. CASE Phone
  <2>1. /\ UNCHANGED Host /\ mode # "recovery" /\ (mode' = mode \/ mode' \notin Payloads)
        /\ mode \notin Payloads => baseband' = baseband
    <3>1. CASE PowerUp
      BY <3>1 DEF PowerUp, Payloads
    <3>2. CASE PayloadStep
      BY <3>2, AnyPayloadStep DEF Payloads
    <3>3. CASE PayloadEnds \/ StockResets
      BY <3>3 DEF PayloadEnds, StockResets, Erase!Reset, Erase!Cut, Update!Reset,
                  Update!Cut, Payloads
    <3>4. QED
      BY <1>4, <3>1, <3>2, <3>3 DEF Phone
  <2>2. UNCHANGED <<product, version, pc, stage, request, child, retried, status>>
    BY <2>1 DEF Host, ipsw
  <2>3. options' = options
    BY <2>2 DEF options
  <2>4. Reporting'
    BY <2>2 DEF DInv, Reporting, Requests
  <2>5. Bootstrapping' /\ StockStage' /\ PlainPath'
    BY <2>1, <2>2, <2>3 DEF DInv, Bootstrapping, StockStage, PlainPath
  <2>6. ErasePath'
    BY <2>2 DEF DInv, ErasePath
  <2>7. DowngradePath'
    BY <2>1, <2>2 DEF DInv, PlainPath, DowngradePath
  <2>8. QED
    BY <2>4, <2>5, <2>6, <2>7 DEF DInv
<1>5. CASE UserResets
  <2>1. UNCHANGED <<Host, baseband>> /\ pc = "exit"
    BY <1>5 DEF UserResets
  <2>2. /\ UNCHANGED <<product, pc, request, child, retried>>
    BY <2>1 DEF Host, ipsw
  <2>3. child = FALSE /\ retried = FALSE
    <3>1. child \in BOOLEAN /\ retried \in BOOLEAN
      BY DEF IInv, TypeOK
    <3>2. ~child /\ ~retried
      BY <2>1 DEF DInv, Reporting
    <3>3. QED
      BY <3>1, <3>2
  <2>4. QED
    BY <2>1, <2>2, <2>3, Ended
<1>6. CASE UNCHANGED vars
  <2>1. UNCHANGED <<product, version, mode, baseband>>
    BY <1>6 DEF vars, ipsw, phone
  <2>2. UNCHANGED <<pc, stage, request, child, retried, status>>
    BY <1>6 DEF vars, host
  <2>3. options' = options
    BY <2>2 DEF options
  <2>4. Reporting' /\ Bootstrapping' /\ StockStage' /\ PlainPath'
    BY <2>1, <2>2, <2>3 DEF DInv, Reporting, Requests, Bootstrapping, StockStage, PlainPath
  <2>5. ErasePath' /\ DowngradePath'
    BY <2>1, <2>2 DEF DInv, ErasePath, DowngradePath
  <2>6. QED
    BY <2>4, <2>5 DEF DInv
<1>7. QED
  BY <1>1, <1>2, <1>3, <1>4, <1>5, <1>6 DEF Next, Script

\* Both invariants hold for every sequence of runs on a phone.
THEOREM InvarianceDelivering == Spec => [](IInv /\ DInv)
<1>1. Init => IInv /\ DInv
  BY Initially, InitiallyDelivering
<1>2. IInv /\ DInv /\ [Next]_vars => (IInv /\ DInv)'
  BY Inductive, InductiveDelivering
<1>3. QED
  BY <1>1, <1>2, PTL DEF Spec

-----------------------------------------------------------------------------
\* A step that reports success ends the run, at the poll or at the end.
LEMMA SuccessStep ==
  ASSUME DInv, Next, pc # "exit", status' = "ok"
  PROVE  \/ PollSuccess /\ options.eraseOnly
         \/ pc = "complete" /\ ~child /\ UNCHANGED <<ipsw, phone, request>>
<1>1. status = "none"
  BY DEF DInv, Reporting
<1>2. ~(ToConsole \/ Fail \/ Launch \/ Phone \/ UserResets)
  <2>1. ~ToConsole
    BY <1>1 DEF ToConsole, CheckDfu, SendWtf, SendIbss, LaunchChild, CheckMode,
               EnterRecovery, WaitRecovery, Rejoin, Look, Goto
  <2>2. ~(Fail \/ Launch \/ UserResets)
    BY <1>1 DEF Fail, Launch, UserResets, Exit
  <2>3. ~Phone
    <3>1. Phone => status' = status
      BY DEF Phone, PowerUp, PayloadStep, PayloadEnds, StockResets, Host
    <3>2. QED
      BY <1>1, <3>1
  <2>4. QED
    BY <2>1, <2>2, <2>3
<1>3. Boots => PollSuccess /\ options.eraseOnly
  BY <1>1 DEF Boots, LoadImage, MarkPending, SaveMark, AutoBoot, ClearBootArgs, SaveBoot,
             SetBootArgs, BootPayload, PollSuccess, StockAutoBoot, StockBootArgs, BootStock,
             WaitRestored, SetEnv, SaveEnv, Look, Goto
<1>4. Restores => pc = "complete" /\ ~child /\ UNCHANGED <<ipsw, phone, request>>
  BY <1>1 DEF Restores, RestoreSucceeds, RestoreRefused, RestoreFails, WaitRetry, Retry,
             WaitRefused, ExitAutoBoot, ExitSave, ExitReboot, WaitNormal, Complete,
             SetEnv, SaveEnv, Look, Goto, Exit
<1>5. QED
  BY <1>2, <1>3, <1>4 DEF Next, Script

\* README.md, "Baseband erase only".
THEOREM EraseOnlyErases == Spec => EraseOnlyDelivers
<1>1. IInv /\ DInv /\ [Next]_vars =>
        [pc # "exit" /\ status' = "ok" /\ request.eraseOnly
           => mode' = "recovery" /\ baseband' = "erased"]_vars
  <2>1. SUFFICES ASSUME IInv, DInv, Next, pc # "exit", status' = "ok", request.eraseOnly
                 PROVE  mode' = "recovery" /\ baseband' = "erased"
    OBVIOUS
  <2>2. PollSuccess
    BY <2>1, SuccessStep DEF DInv, ErasePath, AfterPayloads
  <2>3. /\ pc = "poll" /\ mode = "recovery" /\ env[ResultOf(stage)] = "success"
        /\ UNCHANGED <<mode, baseband>> /\ options.eraseOnly
    BY <2>1, <2>2, SuccessStep DEF PollSuccess, ReportsSuccess, phone
  <2>4. ~child
    BY <2>3, OptionsOf
  <2>5. stage = "erase" /\ baseband = DoneOf(stage)
    BY <2>1, <2>3, <2>4 DEF DInv, ErasePath, IInv, Polling
  <2>6. QED
    BY <2>3, <2>5 DEF DoneOf
<1>2. QED
  BY <1>1, InvarianceDelivering, PTL DEF Spec, EraseOnlyDelivers

\* README.md, "Baseband downgrade".
THEOREM DowngradeReplaces == Spec => DowngradeDelivers
<1>1. IInv /\ DInv /\ [Next]_vars =>
        [pc # "exit" /\ status' = "ok" /\ request.downgrade /\ ~request.eraseOnly
           => baseband' = "target" \/ (retried /\ baseband' = "damaged")]_vars
  <2>1. SUFFICES ASSUME IInv, DInv, Next, pc # "exit", status' = "ok",
                        request.downgrade, ~request.eraseOnly
                 PROVE  baseband' = "target" \/ (retried /\ baseband' = "damaged")
    OBVIOUS
  <2>2. ~options.eraseOnly
    BY <2>1, OptionsOf
  <2>3. pc = "complete" /\ ~child /\ baseband' = baseband
    BY <2>1, <2>2, SuccessStep DEF phone
  <2>4. QED
    BY <2>1, <2>3 DEF DInv, DowngradePath
<1>2. QED
  BY <1>1, InvarianceDelivering, PTL DEF Spec, DowngradeDelivers

\* Only a payload and a restore that updates it touch the baseband.
LEMMA BasebandStep ==
  ASSUME Next, baseband' # baseband
  PROVE  mode \in Payloads \/ (UpdatesBaseband /\ mode = "stock")
<1>1. ~ToConsole
  BY DEF ToConsole, CheckDfu, SendWtf, SendIbss, LaunchChild, CheckMode, EnterRecovery,
         WaitRecovery, Rejoin, Look, Goto, phone
<1>2. ~Boots
  BY DEF Boots, LoadImage, MarkPending, SaveMark, AutoBoot, ClearBootArgs, SaveBoot,
         SetBootArgs, BootPayload, PollSuccess, StockAutoBoot, StockBootArgs, BootStock,
         WaitRestored, SetEnv, SaveEnv, Look, phone
<1>3. Restores => UpdatesBaseband /\ mode = "stock"
  BY DEF Restores, RestoreSucceeds, RestoreRefused, RestoreFails, WaitRetry, Retry,
         WaitRefused, ExitAutoBoot, ExitSave, ExitReboot, WaitNormal, Complete,
         SetEnv, SaveEnv, Look, phone
<1>4. ~(Fail \/ Launch \/ UserResets \/ PowerUp \/ StockResets)
  BY DEF Fail, Launch, UserResets, PowerUp, StockResets, phone
<1>5. PayloadStep \/ PayloadEnds => mode \in Payloads
  BY DEF PayloadStep, PayloadEnds, Payloads
<1>6. QED
  BY <1>1, <1>2, <1>3, <1>4, <1>5 DEF Next, Script, Phone

\* README.md, Notes: the installed baseband is preserved unless asked for.
THEOREM PreservesBaseband == Spec => DefaultPreservesBaseband
<1>1. IInv /\ DInv /\ [Next]_vars =>
        [/\ child => baseband' = baseband
         /\ pc # "exit" /\ ~request.downgrade /\ version = "1.0" /\ baseband' # baseband
              => mode \in {"erase", "update"}]_vars
  <2>1. SUFFICES ASSUME DInv, Next, baseband' # baseband
                 PROVE  /\ ~child
                        /\ ~request.downgrade /\ version = "1.0" => mode \in {"erase", "update"}
    OBVIOUS
  <2>2. mode \in Payloads \/ UpdatesBaseband
    BY <2>1, BasebandStep
  <2>3. ~child
    BY <2>1, <2>2 DEF DInv, PlainPath, UpdatesBaseband, Excluded
  <2>4. ~request.downgrade => ~options.downgrade
    BY OptionsOf
  <2>5. ~request.downgrade /\ version = "1.0" => mode \in Payloads
    BY <2>2, <2>4 DEF UpdatesBaseband, Excluded
  <2>6. QED
    BY <2>3, <2>5 DEF Payloads
<1>2. QED
  BY <1>1, InvarianceDelivering, PTL DEF Spec, DefaultPreservesBaseband

-----------------------------------------------------------------------------
(* The boot arguments at the end of a downgrade.                           *)

\* The run of a downgrade has booted its last payload.
Cleared ==
  /\ request.downgrade /\ ~child
  /\ retried \/ (pc = "load" /\ stage = "restore") \/ pc \in AfterPayloads

\* From then on, through the stock boot and the partition retry, NVRAM holds no boot
\* arguments.
ClearedPath == Cleared => nvram["boot-args"] = ""

\* The only step into that part of a run is the one that has read the success of a
\* payload.
LEMMA IntoCleared ==
  ASSUME IInv, DInv, Next, Cleared'
  PROVE  Cleared \/ (pc = "poll" /\ UNCHANGED phone)
<1>1. /\ PlainPath /\ StockStage /\ PayloadStage /\ Reporting
      /\ request'.downgrade /\ ~child'
      /\ retried' \/ (pc' = "load" /\ stage' = "restore") \/ pc' \in AfterPayloads
  BY DEF IInv, DInv, Cleared
<1>2. CASE LaunchChild \/ Fail
  BY <1>1, <1>2 DEF LaunchChild, Fail, Exit, AfterPayloads
<1>3. CASE Launch
  BY <1>1, <1>3 DEF Launch, Reporting, Requests, AfterPayloads
<1>4. CASE Retry
  BY <1>1, <1>4 DEF Retry, Cleared, AfterPayloads
<1>5. CASE Complete
  BY <1>1, <1>5 DEF Complete, Exit, Cleared, AfterPayloads
<1>6. CASE PollSuccess
  BY <1>1, <1>6 DEF PollSuccess
<1>7. CASE CheckMode \/ WaitRecovery
  <2>1. \/ pc' = "enterRecovery" /\ UNCHANGED <<stage, request, child, retried, status>>
        \/ /\ pc' = "load" /\ UNCHANGED <<request, child, retried>>
           /\ stage' = IF options.downgrade THEN "erase" ELSE "restore"
    BY <1>7 DEF CheckMode, WaitRecovery, Look, Goto
  <2>2. ~retried => options.downgrade \/ pc' # "load"
    BY <1>1, <2>1, OptionsOf
  <2>3. QED
    BY <1>1, <2>1, <2>2 DEF Cleared, AfterPayloads
<1>8. CASE RestoreRefused \/ RestoreFails
  <2>1. pc = "restoring" /\ (pc' = "exit" \/ UNCHANGED <<request, child, retried>>)
    BY <1>8 DEF RestoreRefused, RestoreFails, Exit, Goto
  <2>2. pc' = "exit" => ~retried'
    BY <1>8 DEF RestoreRefused, RestoreFails, Exit, Goto
  <2>3. QED
    BY <1>1, <2>1, <2>2 DEF Cleared, AfterPayloads
<1>9. CASE CheckDfu \/ SendWtf \/ SendIbss \/ EnterRecovery \/ Rejoin
  <2>1. /\ UNCHANGED <<stage, request, child, retried, status>>
        /\ pc' \notin AfterPayloads \cup {"load"}
    BY <1>9 DEF CheckDfu, SendWtf, SendIbss, EnterRecovery, Rejoin, Look, Goto, AfterPayloads
  <2>2. QED
    BY <1>1, <2>1 DEF Cleared
<1>10. CASE LoadImage \/ StockAutoBoot \/ StockBootArgs \/ BootStock \/ WaitRestored
  <2>1. /\ UNCHANGED <<stage, request, child, retried, status>> /\ pc' # "load"
        /\ \/ pc = "load" /\ pc' = IF stage = "restore" THEN "stockAutoBoot" ELSE "mark"
           \/ pc \in AfterPayloads
    BY <1>10 DEF LoadImage, StockAutoBoot, StockBootArgs, BootStock, WaitRestored, SetEnv,
                 Look, Goto, AfterPayloads
  <2>2. QED
    BY <1>1, <2>1 DEF Cleared, AfterPayloads
<1>11. CASE \/ MarkPending \/ SaveMark \/ AutoBoot \/ ClearBootArgs \/ SaveBoot
            \/ SetBootArgs \/ BootPayload
  <2>1. /\ UNCHANGED <<stage, request, child, retried, status>>
        /\ pc' \notin AfterPayloads \cup {"load"}
    BY <1>11 DEF MarkPending, SaveMark, AutoBoot, ClearBootArgs, SaveBoot, SetBootArgs,
                 BootPayload, SetEnv, SaveEnv, Goto, AfterPayloads
  <2>2. QED
    BY <1>1, <2>1 DEF Cleared
<1>12. CASE RestoreSucceeds \/ WaitRetry \/ WaitRefused \/ ExitAutoBoot \/ ExitSave
            \/ ExitReboot \/ WaitNormal
  <2>1. UNCHANGED <<stage, request, child, retried, status>> /\ pc \in AfterPayloads
    BY <1>12 DEF RestoreSucceeds, WaitRetry, WaitRefused, ExitAutoBoot, ExitSave,
                 ExitReboot, WaitNormal, SetEnv, SaveEnv, Look, Goto, AfterPayloads
  <2>2. QED
    BY <1>1, <2>1 DEF Cleared
<1>13. CASE Phone \/ UserResets
  <2>1. UNCHANGED <<pc, stage, request, child, retried, status>>
    BY <1>13 DEF Phone, PowerUp, PayloadStep, PayloadEnds, StockResets, UserResets, Host
  <2>2. QED
    BY <1>1, <2>1 DEF Cleared
<1>14. QED
  BY <1>2, <1>3, <1>4, <1>5, <1>6, <1>7, <1>8, <1>9, <1>10, <1>11, <1>12, <1>13
     DEF Next, Script, ToConsole, Boots, Restores

\* Every step keeps that part of a run without boot arguments.
LEMMA InductiveCleared ==
  ASSUME IInv, DInv, ClearedPath, [Next]_vars
  PROVE  ClearedPath'
<1>1. CASE UNCHANGED vars
  BY <1>1 DEF ClearedPath, Cleared, vars, phone, host
<1>2. CASE Next
  <2>1. SUFFICES ASSUME Cleared' PROVE nvram'["boot-args"] = ""
    BY DEF ClearedPath
  <2>2. CASE pc = "poll" /\ UNCHANGED phone
    BY <2>2 DEF IInv, SavedArgs, phone
  <2>3. CASE Cleared
    <3>1. nvram["boot-args"] = ""
      BY <2>3 DEF ClearedPath
    <3>2. pc \notin {"saveMark", "exitSave"}
      <4>1. pc # "exitSave"
        BY <2>3 DEF DInv, DowngradePath, Cleared, Refused
      <4>2. pc = "saveMark" => stage \in Payloads /\ retried
        BY <2>3 DEF IInv, PayloadStage, Cleared, AfterPayloads
      <4>3. pc = "saveMark" => stage = "restore"
        BY <4>2 DEF DInv, PlainPath, Preparing
      <4>4. QED
        BY <4>1, <4>2, <4>3 DEF Payloads
    <3>3. pc = "saveBoot" => env["boot-args"] = ""
      BY DEF IInv, SavedArgs
    <3>4. QED
      BY <1>2, <3>1, <3>2, <3>3, ArgsStep DEF SaveMark, SaveBoot, ExitSave, SaveEnv
  <2>4. QED
    BY <1>2, <2>1, <2>2, <2>3, IntoCleared
<1>3. QED
  BY <1>1, <1>2

\* A downgrade that reports success leaves no boot arguments behind.
THEOREM ClearsBootArgs == Spec => DowngradeClearsBootArgs
<1>1. Init => ClearedPath
  <2>1. Init => request = Plain
    BY DEF Init
  <2>2. request = Plain => ~request.downgrade
    BY OptionsOf
  <2>3. QED
    BY <2>1, <2>2 DEF ClearedPath, Cleared
<1>2. IInv /\ DInv /\ ClearedPath /\ [Next]_vars => ClearedPath'
  BY InductiveCleared
<1>3. IInv /\ DInv /\ ClearedPath /\ [Next]_vars =>
        [pc # "exit" /\ status' = "ok" /\ request.downgrade
           => nvram'["boot-args"] = ""]_vars
  <2>1. SUFFICES ASSUME IInv, DInv, ClearedPath, Next, pc # "exit", status' = "ok",
                        request.downgrade
                 PROVE  nvram'["boot-args"] = ""
    OBVIOUS
  <2>2. UNCHANGED nvram /\ (pc = "poll" \/ (pc = "complete" /\ ~child))
    BY <2>1, SuccessStep DEF PollSuccess, phone
  <2>3. pc = "complete" /\ ~child => nvram["boot-args"] = ""
    BY <2>1 DEF ClearedPath, Cleared, AfterPayloads
  <2>4. pc = "poll" => nvram["boot-args"] = ""
    BY <2>1 DEF IInv, SavedArgs
  <2>5. QED
    BY <2>2, <2>3, <2>4
<1>4. QED
  BY <1>1, <1>2, <1>3, InvarianceDelivering, PTL DEF Spec, DowngradeClearsBootArgs

=============================================================================
