------------------------ MODULE BasebandEraseProofs ------------------------
(***************************************************************************)
(* Theorems about BasebandErase, for any number of prompts and polls, any   *)
(* start-up time and any alarm that leaves room for the longest run.        *)
(***************************************************************************)
EXTENDS BasebandErase, TLAPS

\* No reply on the line claims an erase that has not happened.
LineHonest ==
  \A i \in 1..Len(line) : line[i] = "complete" => baseband = "erased"

\* Neither does what the program remembers, nor what it has written.
MemoryHonest ==
  /\ result = 0 => baseband = "erased"
  /\ nvram[EraseResult] = "success" => baseband = "erased"
  /\ nvram["auto-boot"] = "false" => baseband = "erased"

\* The seconds a run that does not hang has used, by where it is.
BeforePrompt == StartupSeconds + 1
BeforeFlash  == BeforePrompt + CommandAttempts
BeforePoll   == BeforeFlash + Len(EraseCommands)

OnSchedule ==
  /\ pc \in {"secpack", "restart"} => clock = 0
  /\ pc \in {"open", "query"} => clock <= StartupSeconds
  /\ pc = "prompt" => count < CommandAttempts /\ clock <= BeforePrompt + count
  /\ pc = "flash" => count < Len(EraseCommands) /\ clock <= BeforeFlash + count
  /\ pc = "poll" => count < ErasePolls /\ clock <= BeforePoll + count
  /\ pc = "finish" => clock <= LongestRun

\* The invariant: nothing lies about the erase, and a run that does not hang is
\* on schedule.
IInv == TypeOK /\ LineHonest /\ MemoryHonest /\ (~hung => OnSchedule)

-----------------------------------------------------------------------------
\* The erase protocol sends seven commands before it starts to poll.
LEMMA SevenCommands == Len(EraseCommands) = 7
BY DEF EraseCommands

\* Each of the three assignments writes a value iBoot knows to a variable of the
\* environment, and what it writes to the result and to auto-boot follows `result'.
LEMMA ThreeAssignments ==
  ASSUME NEW i \in 1..3
  PROVE  /\ FinalAssignments[i][1] \in EnvName
         /\ FinalAssignments[i][2] \in EnvValue
         /\ FinalAssignments[i][1] = "auto-boot" /\ FinalAssignments[i][2] = "false"
              => result = 0
         /\ FinalAssignments[i][1] = EraseResult /\ FinalAssignments[i][2] = "success"
              => result = 0
<1>1. CASE i = 1
  BY <1>1 DEF FinalAssignments, EnvName, EnvValue, EraseResult
<1>2. CASE i = 2
  BY <1>2 DEF FinalAssignments, EnvName, EnvValue, EraseResult
<1>3. CASE i = 3
  BY <1>3 DEF FinalAssignments, EnvName, EnvValue, EraseResult
<1>4. QED
  BY <1>1, <1>2, <1>3

\* finish_automatic_run starts three children.
LEMMA LenFinalAssignments == Len(FinalAssignments) = 3
BY DEF FinalAssignments

\* Writing one variable of an environment leaves an environment, in which only
\* that variable has changed.
LEMMA PutEnvironment ==
  ASSUME NEW e \in Environment, NEW n \in EnvName, NEW v \in EnvValue
  PROVE  /\ Put(e, n, v) \in Environment
         /\ \A m \in EnvName : Put(e, n, v)[m] = IF m = n THEN v ELSE e[m]
BY DEF Put, Environment

\* A window takes the oldest replies off an honest line and leaves an honest
\* line, as long as the reply that is owed now is honest too.
LEMMA HonestWindow ==
  ASSUME TypeOK, LineHonest, NEW replies \in SUBSET Reply, NEW answer,
         "complete" \in replies => baseband = "erased",
         Exchange(replies, answer)
  PROVE  /\ line' \in Seq(Reply)
         /\ LineHonest'
         /\ answer = "complete" => baseband = "erased"
         /\ clock' = clock + 1
         /\ UNCHANGED <<automatic, hung, baseband, nvram>>
<1>0. PICK owed \in {line} \cup {Append(line, r) : r \in replies} :
        \E n \in 0..Len(owed) :
          /\ answer = IF n = 0 THEN "silence" ELSE owed[1]
          /\ line' = SubSeq(owed, n + 1, Len(owed))
  BY DEF Exchange
<1>1. PICK n \in 0..Len(owed) :
        /\ answer = IF n = 0 THEN "silence" ELSE owed[1]
        /\ line' = SubSeq(owed, n + 1, Len(owed))
  BY <1>0
<1>2. line \in Seq(Reply)
  BY DEF TypeOK
<1>3. /\ owed \in Seq(Reply)
      /\ \A i \in 1..Len(owed) : owed[i] = "complete" => baseband = "erased"
  <2>1. CASE owed = line
    BY <2>1, <1>2 DEF LineHonest
  <2>2. ASSUME NEW r \in replies, owed = Append(line, r)
        PROVE  <1>3
    <3>1. /\ owed \in Seq(Reply)
          /\ Len(owed) = Len(line) + 1
          /\ owed[Len(line) + 1] = r
          /\ \A i \in 1..Len(line) : owed[i] = line[i]
      BY <2>2, <1>2
    <3>2. QED
      BY <3>1, <1>2 DEF LineHonest
  <2>3. QED
    BY <2>1, <2>2
<1>4. Len(owed) \in Nat /\ n \in Nat /\ n <= Len(owed)
  BY <1>3
<1>5. /\ line' \in Seq(Reply)
      /\ Len(line') = Len(owed) - n
      /\ \A i \in 1..Len(line') : line'[i] = owed[n + i]
  BY <1>1, <1>3, <1>4
<1>6. UNCHANGED baseband
  BY DEF Exchange
<1>7. LineHonest'
  BY <1>3, <1>4, <1>5, <1>6 DEF LineHonest
<1>8. answer = "complete" => baseband = "erased"
  BY <1>1, <1>3, <1>4
<1>9. QED
  BY <1>5, <1>7, <1>8 DEF Exchange

-----------------------------------------------------------------------------
\* The invariant holds when the process starts.
LEMMA Initially == Init => IInv
<1> SUFFICES ASSUME Init PROVE IInv
  OBVIOUS
<1>1. TypeOK
  <2>1. nvram \in Environment
    BY DEF Init, Environment, EnvValue
  <2>2. /\ automatic \in BOOLEAN /\ hung \in BOOLEAN /\ erasing \in BOOLEAN
        /\ pc = "secpack" /\ line = <<>> /\ result = 1 /\ count = 0 /\ clock = 0
        /\ baseband \in {"newer", "target", "erased", "damaged"}
    BY DEF Init
  <2>3. line \in Seq(Reply)
    BY <2>2
  <2>4. QED
    BY <2>1, <2>2, <2>3, BoundsAssumption DEF TypeOK, Armed
<1>2. LineHonest
  <2>1. Len(line) = 0
    BY DEF Init
  <2>2. QED
    BY <2>1 DEF LineHonest
<1>3. MemoryHonest
  <2>1. result = 1 /\ nvram[EraseResult] = "pending" /\ nvram["auto-boot"] = "true"
    BY DEF Init
  <2>2. QED
    BY <2>1 DEF MemoryHonest
<1>4. OnSchedule
  BY DEF Init, OnSchedule
<1>5. QED
  BY <1>1, <1>2, <1>3, <1>4 DEF IInv

\* The budget the constants leave.
LEMMA Budget ==
  /\ CommandAttempts \in Nat /\ CommandAttempts > 0
  /\ ErasePolls \in Nat /\ ErasePolls > 0
  /\ ProcessTimeout \in Nat /\ StartupSeconds \in Nat
  /\ LongestRun = BeforePoll + ErasePolls
  /\ LongestRun \in Nat /\ LongestRun < ProcessTimeout
  /\ BeforePrompt = StartupSeconds + 1
  /\ BeforeFlash = BeforePrompt + CommandAttempts
  /\ BeforePoll = BeforeFlash + 7
BY BoundsAssumption, BudgetAssumption, SevenCommands
   DEF LongestRun, BeforePoll, BeforeFlash, BeforePrompt

\* The steps that exchange nothing with the baseband and write no variable of
\* NVRAM: they may change pc, count, result (not to 0) and the clock.
LEMMA QuietStep ==
  ASSUME LineHonest, MemoryHonest,
         UNCHANGED <<line, baseband, nvram>>,
         result' # result => result' = 124
  PROVE  LineHonest' /\ MemoryHonest'
<1>1. LineHonest'
  BY DEF LineHonest
<1>2. MemoryHonest'
  BY DEF MemoryHonest
<1>3. QED
  BY <1>1, <1>2

\* Reading the secpack, whether or not the file is there, keeps the invariant.
LEMMA ReadSecpackStep == IInv /\ ReadSecpack => IInv'
<1> SUFFICES ASSUME IInv, ReadSecpack PROVE IInv'
  OBVIOUS
<1>1. TypeOK'
  BY DEF IInv, ReadSecpack, TypeOK, Goto, Outside, Armed
<1>2. LineHonest' /\ MemoryHonest'
  BY QuietStep DEF IInv, ReadSecpack, Outside
<1>3. ~hung' => OnSchedule'
  BY Budget DEF IInv, OnSchedule, ReadSecpack, Goto, Outside
<1>4. QED
  BY <1>1, <1>2, <1>3 DEF IInv

\* So does start-up: the restart of the baseband and opening its line.
LEMMA StartUpStep == IInv /\ (RestartBaseband \/ OpenBaseband) => IInv'
<1> SUFFICES ASSUME IInv, RestartBaseband \/ OpenBaseband PROVE IInv'
  OBVIOUS
<1>0. /\ clock' \in Nat /\ clock' <= StartupSeconds
      /\ hung' = hung
  BY Budget DEF IInv, TypeOK, RestartBaseband, OpenBaseband
<1>1. TypeOK'
  BY <1>0, Budget DEF IInv, RestartBaseband, OpenBaseband, TypeOK, Goto, Armed
<1>2. LineHonest' /\ MemoryHonest'
  BY QuietStep DEF IInv, RestartBaseband, OpenBaseband
<1>3. ~hung' => OnSchedule'
  BY <1>0, Budget DEF OnSchedule, RestartBaseband, OpenBaseband, Goto
<1>4. QED
  BY <1>1, <1>2, <1>3 DEF IInv

\* So does the query that wakes the flash, answered or not.
LEMMA InitialQueryStep == IInv /\ InitialQuery => IInv'
<1> SUFFICES ASSUME IInv, InitialQuery PROVE IInv'
  OBVIOUS
<1>0. /\ line' \in Seq(Reply) /\ LineHonest'
      /\ clock' \in {clock, clock + 1}
      /\ UNCHANGED <<automatic, hung, baseband, nvram>>
  <2>1. CASE UNCHANGED <<automatic, clock, hung, line, baseband, nvram>>
    BY <2>1 DEF IInv, TypeOK, LineHonest
  <2>2. ASSUME NEW answer, Exchange({"other"}, answer)
        PROVE  <1>0
    BY <2>2, HonestWindow DEF IInv, Reply
  <2>3. QED
    BY <2>1, <2>2 DEF InitialQuery
<1>1. TypeOK'
  BY <1>0, Budget DEF IInv, InitialQuery, TypeOK, Goto, Armed, Running
<1>2. MemoryHonest'
  BY <1>0 DEF IInv, InitialQuery, MemoryHonest
<1>3. ~hung' => OnSchedule'
  BY <1>0, Budget DEF IInv, TypeOK, OnSchedule, InitialQuery, Goto
<1>4. QED
  BY <1>0, <1>1, <1>2, <1>3 DEF IInv

\* So does each attempt to enter command mode.
LEMMA PromptStep == IInv /\ Prompt => IInv'
<1> SUFFICES ASSUME IInv, Prompt PROVE IInv'
  OBVIOUS
<1>1. PICK answer \in Answer : Exchange({"ready", "other"}, answer)
  BY DEF Prompt
<1>2. /\ line' \in Seq(Reply) /\ LineHonest' /\ clock' = clock + 1
      /\ UNCHANGED <<automatic, hung, baseband, nvram>>
  BY <1>1, HonestWindow DEF IInv, Reply
<1>3. /\ \/ pc' = "flash" /\ count' = 0
         \/ pc' = "finish" /\ count' = 0
         \/ pc' = pc /\ count' = count + 1 /\ ~LastRound(CommandAttempts)
      /\ pc = "prompt" /\ Running /\ UNCHANGED <<result, erasing>>
  BY DEF Prompt, Goto
<1>4. TypeOK'
  BY <1>2, <1>3, Budget DEF IInv, TypeOK, Armed, Running
<1>5. MemoryHonest'
  BY <1>2, <1>3 DEF IInv, MemoryHonest
<1>6. ~hung' => OnSchedule'
  BY <1>2, <1>3, Budget, SevenCommands DEF IInv, TypeOK, OnSchedule, LastRound
<1>7. QED
  BY <1>2, <1>4, <1>5, <1>6 DEF IInv

\* So does each command of the erase, the one that starts it included.
LEMMA FlashCommandStep == IInv /\ FlashCommand => IInv'
<1> SUFFICES ASSUME IInv, FlashCommand PROVE IInv'
  OBVIOUS
<1>1. PICK answer \in Answer : Exchange({"other"}, answer)
  BY DEF FlashCommand
<1>2. /\ line' \in Seq(Reply) /\ LineHonest' /\ clock' = clock + 1
      /\ UNCHANGED <<automatic, hung, baseband, nvram>>
  BY <1>1, HonestWindow DEF IInv, Reply
<1>3. /\ \/ pc' = "poll" /\ count' = 0
         \/ pc' = pc /\ count' = count + 1 /\ ~LastRound(Len(EraseCommands))
      /\ pc = "flash" /\ Running /\ UNCHANGED result /\ erasing' \in {erasing, TRUE}
  BY DEF FlashCommand, Goto
<1>4. TypeOK'
  <2>1. erasing' \in BOOLEAN
    BY <1>3 DEF IInv, TypeOK
  <2>2. QED
    BY <1>2, <1>3, <2>1, Budget DEF IInv, TypeOK, Armed, Running
<1>5. MemoryHonest'
  BY <1>2, <1>3 DEF IInv, MemoryHonest
<1>6. ~hung' => OnSchedule'
  BY <1>2, <1>3, Budget, SevenCommands DEF IInv, TypeOK, OnSchedule, LastRound
<1>7. QED
  BY <1>2, <1>4, <1>5, <1>6 DEF IInv

\* So does each poll: only an honest answer ends the loop with success.
LEMMA PollEraseStep == IInv /\ PollErase => IInv'
<1> SUFFICES ASSUME IInv, PollErase PROVE IInv'
  OBVIOUS
<1>1. PICK answer \in Answer :
        /\ Exchange({EraseStatus}, answer)
        /\ \/ EraseReported(answer) /\ result' = 0 /\ Goto("finish")
           \/ /\ IF LastRound(ErasePolls)
                   THEN Goto("finish")
                   ELSE count' = count + 1 /\ UNCHANGED pc
              /\ UNCHANGED result
  BY DEF PollErase
<1>2. /\ line' \in Seq(Reply) /\ LineHonest' /\ clock' = clock + 1
      /\ UNCHANGED <<automatic, hung, baseband, nvram>>
      /\ answer = "complete" => baseband = "erased"
  <2>1. {EraseStatus} \in SUBSET Reply
    BY DEF EraseStatus, Reply
  <2>2. "complete" \in {EraseStatus} => baseband = "erased"
    BY DEF EraseStatus
  <2>3. QED
    BY <1>1, <2>1, <2>2, HonestWindow DEF IInv
<1>3. /\ \/ pc' = "finish" /\ count' = 0
         \/ pc' = pc /\ count' = count + 1 /\ ~LastRound(ErasePolls)
      /\ pc = "poll" /\ Running /\ UNCHANGED erasing
      /\ result' = result \/ (result' = 0 /\ baseband = "erased")
  BY <1>1, <1>2 DEF PollErase, Goto, EraseReported
<1>4. TypeOK'
  BY <1>2, <1>3, Budget DEF IInv, TypeOK, Armed, Running
<1>5. MemoryHonest'
  BY <1>2, <1>3 DEF IInv, MemoryHonest
<1>6. ~hung' => OnSchedule'
  BY <1>2, <1>3, Budget, SevenCommands DEF IInv, TypeOK, OnSchedule, LastRound
<1>7. QED
  BY <1>2, <1>4, <1>5, <1>6 DEF IInv

\* So do the ends of the work: a serial error, the end of main, the reset and the
\* alarm.
LEMMA ErrorStep == IInv /\ (SerialError \/ Finish \/ Reboot \/ Alarm) => IInv'
<1> SUFFICES ASSUME IInv, SerialError \/ Finish \/ Reboot \/ Alarm PROVE IInv'
  OBVIOUS
<1>1. TypeOK'
  BY DEF IInv, SerialError, Finish, Reboot, Alarm, TypeOK, Goto, Outside, Armed, Ended
<1>2. LineHonest' /\ MemoryHonest'
  BY QuietStep DEF IInv, SerialError, Finish, Reboot, Alarm, Outside
<1>3. ~hung' => OnSchedule'
  BY Budget, SevenCommands
     DEF IInv, TypeOK, OnSchedule, SerialError, Finish, Reboot, Alarm, Goto, Outside
<1>4. QED
  BY <1>1, <1>2, <1>3 DEF IInv

\* So does each assignment, whether or not the child succeeds.
LEMMA AssignmentStep == IInv /\ SetNvramAssignment => IInv'
<1> SUFFICES ASSUME IInv, SetNvramAssignment PROVE IInv'
  OBVIOUS
<1> DEFINE a == FinalAssignments[count + 1]
<1>1. count + 1 \in 1..3
  BY LenFinalAssignments DEF IInv, TypeOK, SetNvramAssignment
<1>2. /\ a[1] \in EnvName /\ a[2] \in EnvValue
      /\ a[1] = "auto-boot" /\ a[2] = "false" => result = 0
      /\ a[1] = EraseResult /\ a[2] = "success" => result = 0
  BY <1>1, ThreeAssignments
<1>3. nvram' \in {nvram, Put(nvram, a[1], a[2])}
  BY DEF SetNvramAssignment
<1> HIDE DEF a
<1>4. /\ Put(nvram, a[1], a[2]) \in Environment
      /\ \A m \in EnvName :
           Put(nvram, a[1], a[2])[m] = IF m = a[1] THEN a[2] ELSE nvram[m]
  BY <1>2, PutEnvironment DEF IInv, TypeOK
<1>5. TypeOK'
  BY <1>3, <1>4 DEF IInv, TypeOK, SetNvramAssignment, Armed
<1>6. LineHonest'
  BY DEF IInv, LineHonest, SetNvramAssignment
<1>7. MemoryHonest'
  <2>1. result' = result /\ baseband' = baseband
    BY DEF SetNvramAssignment
  <2>2. EraseResult \in EnvName /\ "auto-boot" \in EnvName
    BY DEF EnvName
  <2>3. QED
    BY <1>2, <1>3, <1>4, <2>1, <2>2 DEF IInv, MemoryHonest
<1>8. ~hung' => OnSchedule'
  BY DEF OnSchedule, SetNvramAssignment
<1>9. QED
  BY <1>5, <1>6, <1>7, <1>8 DEF IInv

\* So do the steps the process does not take: the chip, the driver and the clock.
LEMMA OutsideStep == IInv /\ (ChipErases \/ Hang \/ Tick) => IInv'
<1> SUFFICES ASSUME IInv, ChipErases \/ Hang \/ Tick PROVE IInv'
  OBVIOUS
<1>1. TypeOK'
  <2>1. CASE ChipErases
    BY <2>1 DEF IInv, TypeOK, ChipErases
  <2>2. CASE Hang
    BY <2>2 DEF IInv, TypeOK, Hang
  <2>3. CASE Tick
    BY <2>3, Budget DEF IInv, TypeOK, Tick
  <2>4. QED
    BY <2>1, <2>2, <2>3
<1>2. LineHonest' /\ MemoryHonest'
  BY DEF IInv, ChipErases, Hang, Tick, LineHonest, MemoryHonest
<1>3. ~hung' => OnSchedule'
  BY DEF IInv, OnSchedule, ChipErases, Hang, Tick
<1>4. QED
  BY <1>1, <1>2, <1>3 DEF IInv

\* Every step keeps the invariant.
LEMMA Inductive == IInv /\ [Next]_vars => IInv'
<1> SUFFICES ASSUME IInv, [Next]_vars PROVE IInv'
  OBVIOUS
<1>1. CASE UNCHANGED vars
  BY <1>1 DEF vars, IInv, TypeOK, LineHonest, MemoryHonest, OnSchedule
<1>2. CASE Next
  BY <1>2, ReadSecpackStep, StartUpStep, InitialQueryStep, PromptStep,
     FlashCommandStep, PollEraseStep, ErrorStep, AssignmentStep, OutsideStep
     DEF Next, Step
<1>3. QED
  BY <1>1, <1>2

\* The invariant holds in every reachable state, for all values of the constants.
LEMMA Invariance == Spec => []IInv
BY Initially, Inductive, PTL DEF Spec

-----------------------------------------------------------------------------
\* Every variable keeps to its values; the clock never passes the alarm.
THEOREM TypeCorrect == Spec => []TypeOK
<1>1. IInv => TypeOK
  BY DEF IInv
<1>2. QED
  BY <1>1, Invariance, PTL

\* For any number of prompts and polls and any delay, loss or misattribution
\* of replies, a reported success is an erased firmware header.
THEOREM SuccessIsErased == Spec => []NoFalseErase
<1>1. IInv => NoFalseErase
  BY DEF IInv, MemoryHonest, NoFalseErase
<1>2. QED
  BY <1>1, Invariance, PTL

\* The phone waits in recovery only with its firmware header erased.
THEOREM RecoveryIsErased == Spec => []RecoveryOnlyAfterErase
<1>1. IInv => RecoveryOnlyAfterErase
  BY DEF IInv, MemoryHonest, RecoveryOnlyAfterErase
<1>2. QED
  BY <1>1, Invariance, PTL

\* An alarm that leaves room for the longest run (BudgetAssumption) never
\* interrupts a run in which no call hangs.
THEOREM AlarmOnlyForHangs == Spec => []WatchdogSparesWork
<1>1. ASSUME IInv, ~hung, pc \in Armed
      PROVE  clock < ProcessTimeout
  <2>1. OnSchedule /\ count \in Nat /\ clock \in Nat
    BY <1>1, Budget DEF IInv, TypeOK
  <2>2. clock <= LongestRun
    BY <1>1, <2>1, Budget, SevenCommands DEF OnSchedule, Armed
  <2>3. QED
    BY <2>1, <2>2, Budget
<1>2. IInv => WatchdogSparesWork
  BY <1>1 DEF WatchdogSparesWork
<1>3. QED
  BY <1>2, Invariance, PTL

-----------------------------------------------------------------------------
(* The payload as the host sees it.                                        *)

\* The process starts where the host has prepared a payload to start.
LEMMA InitiallyPayload == Init => Payload!Init
<1> SUFFICES ASSUME Init PROVE Payload!Init
  OBVIOUS
<1>1. TypeOK
  BY Initially DEF IInv
<1>2. /\ pc = "secpack" /\ nvram[EraseResult] = "pending"
      /\ nvram["auto-boot"] = "true" /\ nvram["boot-args"] = ""
  BY DEF Init
<1>3. baseband \in Payload!BasebandState
  BY <1>1 DEF TypeOK, Payload!BasebandState
<1>4. phaseBar = "working" /\ writtenBar = 0
  BY <1>2 DEF phaseBar, writtenBar, Armed
<1>5. nvram \in Payload!Environment
  <2>1. Payload!EnvName = EnvName /\ Payload!EnvValue = EnvValue
    BY DEF EnvName, EnvValue, Payload!EnvName, Payload!EnvValue, EraseResult,
       UpdateResult, Payload!EraseResult, Payload!UpdateResult
  <2>2. Payload!Environment = Environment
    BY <2>1 DEF Environment, Payload!Environment
  <2>3. QED
    BY <1>1, <2>2 DEF TypeOK
<1>6. QED
  BY <1>2, <1>3, <1>4, <1>5 DEF Payload!Init

\* What the steps before the assignments have in common.
LEMMA WorkingStutters ==
  ASSUME pc \in Armed, pc' \in Armed, UNCHANGED <<baseband, nvram>>
  PROVE  UNCHANGED Payload!payloadVars
BY DEF Payload!payloadVars, phaseBar, writtenBar, Armed

\* The end of main is the verdict of the payload, and an honest one.
LEMMA FinishRefines ==
  ASSUME IInv, Finish
  PROVE  Payload!Succeed \/ Payload!GiveUp
<1>1. /\ pc = "finish" /\ pc' \in {"assign", "exited"} /\ count' = 0
      /\ UNCHANGED <<result, baseband, nvram>>
  BY DEF Finish, Goto, Outside
<1>2. /\ phaseBar = "working" /\ writtenBar = 0 /\ writtenBar' = 0
      /\ phaseBar' = IF result = 0 THEN "succeeded" ELSE "failed"
  BY <1>1 DEF phaseBar, writtenBar, Armed
<1>3. result = 0 => baseband = "erased"
  BY DEF IInv, MemoryHonest
<1>4. QED
  BY <1>1, <1>2, <1>3 DEF Payload!Succeed, Payload!GiveUp

\* A child that runs `nvram' is an assignment of the payload, in its order.
LEMMA AssignmentRefines ==
  ASSUME IInv, SetNvramAssignment
  PROVE  Payload!Assign
<1>1. /\ pc = "assign" /\ pc' = "assign" /\ count' = count + 1
      /\ count + 1 \in 1..3 /\ count < 3
      /\ UNCHANGED <<result, baseband>>
  BY LenFinalAssignments DEF IInv, TypeOK, SetNvramAssignment
<1>2. /\ phaseBar = IF result = 0 THEN "succeeded" ELSE "failed"
      /\ phaseBar' = phaseBar
      /\ writtenBar = count /\ writtenBar' = count + 1
  BY <1>1 DEF phaseBar, writtenBar, Armed
<1>3. FinalAssignments = Payload!Assignments(phaseBar = "succeeded", "true", EraseResult)
  BY <1>2 DEF FinalAssignments, Payload!Assignments
<1>4. LET a == FinalAssignments[count + 1]
      IN  nvram' \in {nvram, Put(nvram, a[1], a[2])}
  BY DEF SetNvramAssignment
<1>5. phaseBar \in {"succeeded", "failed"}
  BY <1>2
<1>6. QED
  BY <1>1, <1>2, <1>3, <1>4, <1>5 DEF Payload!Assign, Payload!Put, Put

\* The orderly reset comes after all three assignments.
LEMMA RebootRefines ==
  ASSUME IInv, Reboot
  PROVE  Payload!Reset
<1>1. /\ pc = "assign" /\ pc' = "rebooted" /\ count = 3 /\ count' = 3
      /\ UNCHANGED <<result, baseband, nvram>>
  BY LenFinalAssignments DEF Reboot, Outside
<1>2. /\ phaseBar \in {"succeeded", "failed"} /\ phaseBar' = "idle"
      /\ writtenBar = 3 /\ writtenBar' = 3
  BY <1>1 DEF phaseBar, writtenBar, Armed
<1>3. QED
  BY <1>1, <1>2 DEF Payload!Reset

\* The alarm cuts an automatic payload short; a manual run merely fails.
LEMMA AlarmRefines ==
  ASSUME IInv, Alarm
  PROVE  Payload!Cut \/ Payload!GiveUp
<1>1. /\ pc \in Armed /\ count' = 0 /\ UNCHANGED <<baseband, nvram>>
      /\ \/ pc' = "rebooted"
         \/ pc' = "exited" /\ result' = 124
  BY DEF Alarm, Goto, Outside
<1>2. /\ phaseBar = "working" /\ writtenBar = 0 /\ writtenBar' = 0
      /\ phaseBar' \in {"idle", "failed"}
  BY <1>1 DEF phaseBar, writtenBar, Armed
<1>3. QED
  BY <1>1, <1>2 DEF Payload!Cut, Payload!GiveUp

\* An erase that ends late is work of a payload that has given up.
LEMMA ChipRefines ==
  ASSUME IInv, ChipErases
  PROVE  Payload!Work
<1>1. /\ pc # "rebooted" /\ baseband # "erased" /\ baseband' = "erased"
      /\ UNCHANGED <<pc, count, result, nvram>>
  BY DEF ChipErases
<1>2. result # 0
  BY <1>1 DEF IInv, MemoryHonest
<1>3. UNCHANGED <<phaseBar, writtenBar>> /\ phaseBar \in {"working", "failed"}
  BY <1>1, <1>2 DEF phaseBar, writtenBar
<1>4. QED
  BY <1>1, <1>3 DEF Payload!Work

\* Every step of the program is a step of the payload or is invisible to the host.
LEMMA StepRefines ==
  ASSUME IInv, [Next]_vars
  PROVE  [Payload!Next]_(Payload!payloadVars)
<1>1. CASE UNCHANGED vars
  BY <1>1 DEF vars, Payload!payloadVars, phaseBar, writtenBar
<1>2. CASE ReadSecpack \/ RestartBaseband \/ OpenBaseband
  BY <1>2, WorkingStutters
     DEF ReadSecpack, RestartBaseband, OpenBaseband, Goto, Outside, Armed
<1>3. CASE InitialQuery \/ Prompt
  <2>1. UNCHANGED <<baseband, nvram>>
    BY <1>3 DEF InitialQuery, Prompt, Exchange
  <2>2. pc \in Armed /\ pc' \in Armed
    BY <1>3 DEF InitialQuery, Prompt, Goto, Armed
  <2>3. QED
    BY <2>1, <2>2, WorkingStutters
<1>4. CASE FlashCommand \/ PollErase
  <2>1. UNCHANGED <<baseband, nvram>>
    BY <1>4 DEF FlashCommand, PollErase, Exchange
  <2>2. pc \in Armed /\ pc' \in Armed
    BY <1>4 DEF FlashCommand, PollErase, Goto, Armed
  <2>3. QED
    BY <2>1, <2>2, WorkingStutters
<1>5. CASE SerialError
  BY <1>5, WorkingStutters DEF SerialError, Goto, Outside, Armed
<1>6. CASE Hang \/ Tick
  BY <1>6 DEF Hang, Tick, Payload!payloadVars, phaseBar, writtenBar
<1>7. CASE Finish \/ SetNvramAssignment \/ Reboot \/ Alarm \/ ChipErases
  BY <1>7, FinishRefines, AssignmentRefines, RebootRefines, AlarmRefines,
     ChipRefines DEF Payload!Next
<1>8. QED
  BY <1>1, <1>2, <1>3, <1>4, <1>5, <1>6, <1>7 DEF Next, Step

\* Every run of the program is a run of the payload that the host was written
\* for, whatever the bounds.
THEOREM Implements == Spec => ImplementsPayload
<1>1. Init => Payload!Init
  BY InitiallyPayload
<1>2. IInv /\ [Next]_vars => [Payload!Next]_(Payload!payloadVars)
  BY StepRefines
<1>3. QED
  BY <1>1, <1>2, Invariance, PTL DEF Spec, ImplementsPayload, Payload!Spec

=============================================================================
