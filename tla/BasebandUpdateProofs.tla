------------------------ MODULE BasebandUpdateProofs ------------------------
(***************************************************************************)
(* Theorems about BasebandUpdate.                                          *)
(***************************************************************************)
EXTENDS BasebandUpdate, TLAPS

\* Only a bbupdater that exited with 0 can make the program believe in, or
\* report, an update; and such a bbupdater has left the target firmware.
Honest ==
  /\ result = 0 => child = "exit0"
  /\ nvram[UpdateResult] = "success" => child = "exit0"
  /\ child = "exit0" => baseband = "target"

\* The first assignment finds in NVRAM what it writes; there is no bbupdater
\* before the fork, and nothing is assigned before the end.
Start ==
  /\ pc = "mark" => nvram[UpdateResult] = "pending"
  /\ pc \in {"mark", "fork"} => child = "none"
  /\ pc \in Armed => count = 0

\* The invariant: whatever says success is honest.
IInv == TypeOK /\ Honest /\ Start

-----------------------------------------------------------------------------
\* Of all the ways a child can end only an exit with status 0 counts as one.
LEMMA ZeroIsExit ==
  /\ \A ended \in ChildState : ExitStatus(ended) = 0 => ended = "exit0"
  /\ ExitStatus("lost") # 0
<1>1. /\ ExitStatus("exit1") = 1 /\ ExitStatus("exit127") = 127
  BY DEF ExitStatus
<1>2. \A s \in {"none", "running", "signal", "lost"} : ExitStatus(s) # 0
  BY DEF ExitStatus
<1>3. QED
  BY <1>1, <1>2 DEF ChildState

\* finish_run starts three children.
LEMMA LenFinalAssignments == Len(FinalAssignments) = 3
BY DEF FinalAssignments

\* Each of the three assignments writes a value iBoot knows to a variable of the
\* environment.
LEMMA ThreeAssignments ==
  ASSUME NEW i \in 1..3
  PROVE  /\ FinalAssignments[i][1] \in EnvName
         /\ FinalAssignments[i][2] \in EnvValue
         /\ FinalAssignments[i][1] = UpdateResult /\ FinalAssignments[i][2] = "success"
              => result = 0
<1>1. CASE i = 1
  BY <1>1 DEF FinalAssignments, EnvName, EnvValue, UpdateResult
<1>2. CASE i = 2
  BY <1>2 DEF FinalAssignments, EnvName, EnvValue, UpdateResult
<1>3. CASE i = 3
  BY <1>3 DEF FinalAssignments, EnvName, EnvValue, UpdateResult
<1>4. QED
  BY <1>1, <1>2, <1>3

\* Writing one variable of an environment leaves an environment, in which only
\* that variable has changed.
LEMMA PutEnvironment ==
  ASSUME NEW e \in Environment, NEW n \in EnvName, NEW v \in EnvValue
  PROVE  /\ Put(e, n, v) \in Environment
         /\ \A m \in EnvName : Put(e, n, v)[m] = IF m = n THEN v ELSE e[m]
         /\ e[n] = v => Put(e, n, v) = e
BY DEF Put, Environment

\* The invariant holds when the process starts.
LEMMA Initially == Init => IInv
<1> SUFFICES ASSUME Init PROVE IInv
  OBVIOUS
<1>1. nvram \in Environment
  BY DEF Init, Environment, EnvValue
<1>0. /\ pc = "mark" /\ count = 0 /\ child = "none" /\ result = -1
      /\ baseband \in {"newer", "erased", "damaged", "target"}
      /\ nvram[UpdateResult] = "pending"
  BY DEF Init
<1>2. TypeOK
  BY <1>0, <1>1 DEF TypeOK, Armed, ChildState
<1>3. Honest /\ Start
  BY <1>0 DEF Honest, Start
<1>4. QED
  BY <1>2, <1>3 DEF IInv

\* At its start the program writes what is already there.
LEMMA MarkPendingStutters ==
  ASSUME IInv, MarkPending
  PROVE  UNCHANGED nvram
<1>1. nvram \in Environment /\ nvram[UpdateResult] = "pending"
  BY DEF IInv, TypeOK, Start, MarkPending
<1>2. UpdateResult \in EnvName /\ "pending" \in EnvValue
  BY DEF EnvName, EnvValue
<1>3. Put(nvram, UpdateResult, "pending") = nvram
  BY <1>1, <1>2, PutEnvironment
<1>4. QED
  BY <1>3 DEF MarkPending

\* The steps of the process up to the assignments.
LEMMA RunStep ==
  ASSUME IInv, MarkPending \/ Fork \/ Wait \/ WaitFails \/ Finish \/ Reboot \/ Alarm
  PROVE  IInv'
<1>1. UNCHANGED nvram
  BY MarkPendingStutters DEF Fork, Wait, WaitFails, Finish, Reboot, Alarm, Kept
<1>2. TypeOK'
  <2>1. result' \in {-1, 0, 1, 127}
    BY DEF IInv, TypeOK, MarkPending, Fork, Wait, WaitFails, Finish, Reboot, Alarm,
           Kept, ExitStatus
  <2>2. QED
    BY <1>1, <2>1
       DEF IInv, TypeOK, MarkPending, Fork, Wait, WaitFails, Finish, Reboot, Alarm,
           Kept, Armed, ChildState
<1>3. Honest'
  <2>1. CASE Wait \/ WaitFails
    <3>1. /\ UNCHANGED <<child, baseband>>
          /\ result' = ExitStatus(child) \/ result' = ExitStatus("lost")
      BY <2>1 DEF Wait, WaitFails
    <3>2. child \in ChildState
      BY DEF IInv, TypeOK
    <3>3. QED
      BY <1>1, <3>1, <3>2, ZeroIsExit DEF IInv, Honest
  <2>2. CASE Fork
    <3>1. child = "none" /\ UNCHANGED baseband /\ child' \in {"none", "running"}
      BY <2>2 DEF IInv, Start, Fork
    <3>2. result # 0 /\ nvram[UpdateResult] # "success"
      BY <3>1 DEF IInv, Honest
    <3>3. result' # 0
      BY <2>2, <3>2 DEF Fork
    <3>4. QED
      BY <1>1, <3>1, <3>2, <3>3 DEF Honest
  <2>3. CASE MarkPending \/ Finish \/ Reboot \/ Alarm
    <3>1. UNCHANGED <<child, result, baseband>>
      BY <2>3 DEF MarkPending, Finish, Reboot, Alarm, Kept
    <3>2. QED
      BY <1>1, <3>1 DEF IInv, Honest
  <2>4. QED
    BY <2>1, <2>2, <2>3
<1>4. Start'
  BY DEF IInv, Start, MarkPending, Fork, Wait, WaitFails, Finish, Reboot, Alarm, Armed
<1>5. QED
  BY <1>2, <1>3, <1>4 DEF IInv

\* An assignment, whether or not the child succeeds, keeps the invariant.
LEMMA AssignmentStep ==
  ASSUME IInv, SetNvramAssignment
  PROVE  IInv'
<1> DEFINE a == FinalAssignments[count + 1]
<1>1. count + 1 \in 1..3 /\ count' = count + 1
      /\ pc = "assign" /\ UNCHANGED <<pc, child, result, baseband>>
  BY LenFinalAssignments DEF IInv, TypeOK, SetNvramAssignment
<1>2. /\ a[1] \in EnvName /\ a[2] \in EnvValue
      /\ a[1] = UpdateResult /\ a[2] = "success" => result = 0
  BY <1>1, ThreeAssignments
<1>3. nvram' \in {nvram, Put(nvram, a[1], a[2])}
  BY DEF SetNvramAssignment
<1> HIDE DEF a
<1>4. /\ Put(nvram, a[1], a[2]) \in Environment
      /\ \A m \in EnvName :
           Put(nvram, a[1], a[2])[m] = IF m = a[1] THEN a[2] ELSE nvram[m]
  BY <1>2, PutEnvironment DEF IInv, TypeOK
<1>5. TypeOK'
  BY <1>1, <1>3, <1>4 DEF IInv, TypeOK
<1>6. Honest'
  <2>1. UpdateResult \in EnvName
    BY DEF EnvName
  <2>2. QED
    BY <1>1, <1>2, <1>3, <1>4, <2>1 DEF IInv, Honest
<1>7. Start'
  BY <1>1 DEF Start, Armed
<1>8. QED
  BY <1>5, <1>6, <1>7 DEF IInv

\* What bbupdater does, also after nobody waits for it, keeps the invariant.
LEMMA UpdaterStep ==
  ASSUME IInv, UpdaterWrites \/ UpdaterEnds
  PROVE  IInv'
<1>1. /\ child = "running" /\ UNCHANGED <<pc, count, result, nvram>>
      /\ \/ child' = child /\ baseband' \in {"damaged", "target"}
         \/ /\ child' \in {"exit0", "exit1", "exit127", "signal"}
            /\ child' = "exit0" => baseband = "target"
            /\ baseband' = baseband
  BY DEF UpdaterWrites, UpdaterEnds
<1>2. TypeOK'
  BY <1>1 DEF IInv, TypeOK, ChildState
<1>3. Honest' /\ Start'
  BY <1>1 DEF IInv, Honest, Start
<1>4. QED
  BY <1>2, <1>3 DEF IInv

\* Every step keeps the invariant.
LEMMA Inductive == IInv /\ [Next]_vars => IInv'
<1> SUFFICES ASSUME IInv, [Next]_vars PROVE IInv'
  OBVIOUS
<1>1. CASE UNCHANGED vars
  BY <1>1 DEF vars, IInv, TypeOK, Honest, Start
<1>2. CASE Next
  BY <1>2, RunStep, AssignmentStep, UpdaterStep DEF Next, Step
<1>3. QED
  BY <1>1, <1>2

\* The invariant holds in every reachable state.
LEMMA Invariance == Spec => []IInv
BY Initially, Inductive, PTL DEF Spec

-----------------------------------------------------------------------------
\* Every variable keeps to its values.
THEOREM TypeCorrect == Spec => []TypeOK
<1>1. IInv => TypeOK
  BY DEF IInv
<1>2. QED
  BY <1>1, Invariance, PTL

\* Whatever becomes of bbupdater, of the wait for it and of the assignments, a
\* reported success is an installed target firmware.
THEOREM SuccessIsTarget == Spec => []NoFalseUpdate
<1>1. IInv => NoFalseUpdate
  BY DEF IInv, Honest, NoFalseUpdate
<1>2. QED
  BY <1>1, Invariance, PTL

-----------------------------------------------------------------------------
(* The payload as the host sees it.                                        *)

\* The process starts where the host has prepared a payload to start.
LEMMA InitiallyPayload == Init => Payload!Init
<1> SUFFICES ASSUME Init PROVE Payload!Init
  OBVIOUS
<1>1. TypeOK
  BY Initially DEF IInv
<1>2. /\ pc = "mark" /\ count = 0 /\ nvram[UpdateResult] = "pending"
      /\ nvram["auto-boot"] = "true" /\ nvram["boot-args"] = ""
  BY DEF Init
<1>3. baseband \in Payload!BasebandState
  BY <1>1 DEF TypeOK, Payload!BasebandState
<1>4. phaseBar = "working"
  BY <1>2 DEF phaseBar, Armed
<1>5. nvram \in Payload!Environment
  <2>1. Payload!EnvName = EnvName /\ Payload!EnvValue = EnvValue
    BY DEF EnvName, EnvValue, Payload!EnvName, Payload!EnvValue, EraseResult,
       UpdateResult, Payload!EraseResult, Payload!UpdateResult
  <2>2. Payload!Environment = Environment
    BY <2>1 DEF Environment, Payload!Environment
  <2>3. QED
    BY <1>1, <2>2 DEF TypeOK
<1>6. QED
  BY <1>2, <1>3, <1>4, <1>5 DEF Payload!Init

\* Up to alarm(0) the payload works, whatever the process does.
LEMMA RunRefines ==
  ASSUME IInv, MarkPending \/ Fork \/ Wait \/ WaitFails
  PROVE  UNCHANGED Payload!payloadVars
<1>1. UNCHANGED <<count, baseband, nvram>> /\ pc \in Armed /\ pc' \in Armed
  BY MarkPendingStutters DEF MarkPending, Fork, Wait, WaitFails, Armed
<1>2. phaseBar = "working" /\ phaseBar' = "working"
  BY <1>1 DEF phaseBar, Armed
<1>3. QED
  BY <1>1, <1>2 DEF Payload!payloadVars

\* The end of run_process is the verdict of the payload, and an honest one.
LEMMA FinishRefines ==
  ASSUME IInv, Finish
  PROVE  Payload!Succeed \/ Payload!GiveUp
<1>1. pc = "finish" /\ pc' = "assign" /\ UNCHANGED <<count, result, baseband, nvram>>
  BY DEF Finish, Kept
<1>2. /\ phaseBar = "working"
      /\ phaseBar' = IF result = 0 THEN "succeeded" ELSE "failed"
  BY <1>1 DEF phaseBar, Armed
<1>3. result = 0 => baseband = "target"
  BY DEF IInv, Honest
<1>4. QED
  BY <1>1, <1>2, <1>3 DEF Payload!Succeed, Payload!GiveUp

\* A child that runs `nvram' is an assignment of the payload, in its order.
LEMMA AssignmentRefines ==
  ASSUME IInv, SetNvramAssignment
  PROVE  Payload!Assign
<1>1. /\ pc = "assign" /\ pc' = "assign" /\ count' = count + 1
      /\ count + 1 \in 1..3 /\ count < 3
      /\ UNCHANGED <<result, baseband>>
  BY LenFinalAssignments DEF IInv, TypeOK, SetNvramAssignment
<1>2. /\ phaseBar = IF result = 0 THEN "succeeded" ELSE "failed"
      /\ phaseBar' = phaseBar
  BY <1>1 DEF phaseBar, Armed
<1>3. FinalAssignments = Payload!Assignments(phaseBar = "succeeded", "false", UpdateResult)
  BY <1>2 DEF FinalAssignments, Payload!Assignments
<1>4. LET a == FinalAssignments[count + 1]
      IN  nvram' \in {nvram, Put(nvram, a[1], a[2])}
  BY DEF SetNvramAssignment
<1>5. phaseBar \in {"succeeded", "failed"}
  BY <1>2
<1>6. QED
  BY <1>1, <1>2, <1>3, <1>4, <1>5 DEF Payload!Assign, Payload!Put, Put

\* The orderly reset comes after all three assignments; the alarm cuts the
\* payload short.
LEMMA EndRefines ==
  ASSUME IInv, Reboot \/ Alarm
  PROVE  Payload!Reset \/ Payload!Cut
<1>1. /\ pc' = "rebooted" /\ UNCHANGED <<count, baseband, nvram>>
      /\ pc \in Armed \/ (pc = "assign" /\ count = 3)
  BY LenFinalAssignments DEF Reboot, Alarm, Kept
<1>2. /\ phaseBar' = "idle" /\ phaseBar # "idle"
      /\ (count = 3 /\ phaseBar \in {"succeeded", "failed"}) \/ pc \in Armed
  BY <1>1 DEF phaseBar, Armed
<1>3. QED
  BY <1>1, <1>2 DEF Payload!Reset, Payload!Cut

\* What bbupdater writes is work of the payload.
LEMMA UpdaterRefines ==
  ASSUME IInv, UpdaterWrites \/ UpdaterEnds
  PROVE  Payload!Work \/ UNCHANGED Payload!payloadVars
<1>1. /\ child = "running" /\ pc # "rebooted"
      /\ UNCHANGED <<pc, count, result, nvram>>
      /\ baseband' \in {"damaged", "target"} \/ baseband' = baseband
  BY DEF UpdaterWrites, UpdaterEnds
<1>2. result # 0
  BY <1>1 DEF IInv, Honest
<1>3. phaseBar \in {"working", "failed"} /\ UNCHANGED phaseBar
  BY <1>1, <1>2 DEF phaseBar
<1>4. QED
  BY <1>1, <1>3 DEF Payload!Work, Payload!payloadVars

\* Every step of the program is a step of the payload or is invisible to the host.
LEMMA StepRefines ==
  ASSUME IInv, [Next]_vars
  PROVE  [Payload!Next]_(Payload!payloadVars)
<1>1. CASE UNCHANGED vars
  BY <1>1 DEF vars, Payload!payloadVars, phaseBar
<1>2. CASE Next
  BY <1>2, RunRefines, FinishRefines, AssignmentRefines, EndRefines, UpdaterRefines
     DEF Next, Step, Payload!Next
<1>3. QED
  BY <1>1, <1>2

\* Every run of the program is a run of the payload that the host was written
\* for.
THEOREM Implements == Spec => ImplementsPayload
<1>1. Init => Payload!Init
  BY InitiallyPayload
<1>2. IInv /\ [Next]_vars => [Payload!Next]_(Payload!payloadVars)
  BY StepRefines
<1>3. QED
  BY <1>1, <1>2, Invariance, PTL DEF Spec, ImplementsPayload, Payload!Spec

=============================================================================
