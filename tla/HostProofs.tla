------------------------------ MODULE HostProofs ------------------------------
(***************************************************************************)
(* Theorems about two parts of the host's side: prepare-baseband-ramdisk.sh *)
(* (PrepareRamdisk), whatever fails and whenever signals arrive, and the    *)
(* session of idevicerestore with the restore daemon (RestoreSession).      *)
(***************************************************************************)
EXTENDS PrepareRamdisk, RestoreSession, TLAPS

-----------------------------------------------------------------------------
(* The maintenance ramdisk.                                                *)

\* The edits that come before a command.
Before(at) ==
  CASE at \in {"device", "check", "mkdir"} -> {}
    [] at = "clear"     -> {"mkdir"}
    [] at = "copy"      -> {"mkdir", "clear"}
    [] at = "arguments" -> {"mkdir", "clear", "copy"}
    [] at \in {"sync", "detach"} -> Edit

\* Where the image may be attached, while the script runs.
Attached == {"device", "check", "sync", "detach"} \cup Edit

\* Nothing attaches the image again: where it is attached it has got every edit.
UpToDate == mounted /\ pc \in Attached => image = {"raw"} \cup Before(pc)

\* Before the attachment there are no edits, after the detachment all.
Apart ==
  /\ pc \in {"mktemp", "attach"} => image = {"raw"}
  /\ pc \in {"forget", "untrap", "rmdir", "done"} => image = {"raw"} \cup Edit
  /\ pc \in {"decode", "mktemp", "attach", "forget", "untrap", "rmdir", "done"} => ~mounted

\* Cleanup can detach what is attached, except right after the attachment.
Known ==
  /\ mounted /\ ~lost => DISK_DEVICE \/ pc = "device"
  /\ lost => pc \in {"exiting", "exited"}

\* The invariant.
IInv == TypeOK /\ UpToDate /\ Apart /\ Known /\ NothingLeftMounted
-----------------------------------------------------------------------------
\* At the start nothing is attached.
LEMMA Initially == Init => IInv
BY DEF Init, IInv, TypeOK, UpToDate, Apart, Known, NothingLeftMounted, Edit

\* The commands before the attachment.
LEMMA PrepareInvariant == IInv /\ (Decode \/ MakeMountPoint) => IInv'
<1> SUFFICES ASSUME IInv, Decode \/ MakeMountPoint PROVE IInv'
  OBVIOUS
<1>1. /\ pc' \in {"mktemp", "attach"} /\ ~mounted /\ mounted' = mounted /\ image' = {"raw"}
      /\ UNCHANGED <<mode, DISK_DEVICE, lost>>
      /\ directory' \in {directory, "empty"}
  BY DEF Decode, MakeMountPoint, Goto, IInv, Apart
<1>2. TypeOK' /\ lost' = FALSE
  BY <1>1 DEF IInv, TypeOK, Trapped, Known, Decode, MakeMountPoint, Goto
<1>3. QED
  BY <1>1, <1>2 DEF IInv, UpToDate, Attached, Edit, Apart, Known, NothingLeftMounted

\* The image is attached as it is, and from the next command on the disk is known.
LEMMA AttachInvariant == IInv /\ (Attach \/ SetDevice \/ CheckPlist) => IInv'
<1> SUFFICES ASSUME IInv, Attach \/ SetDevice \/ CheckPlist PROVE IInv'
  OBVIOUS
<1>1. /\ UNCHANGED <<mode, directory, image, lost>>
      /\ \/ /\ pc = "attach" /\ pc' = "device" /\ directory # "none"
            /\ mounted' = TRUE /\ DISK_DEVICE' = DISK_DEVICE
         \/ pc = "device" /\ pc' = "check" /\ mounted' = mounted /\ DISK_DEVICE' = TRUE
         \/ pc = "check" /\ pc' = "mkdir" /\ mounted' = mounted /\ DISK_DEVICE' = DISK_DEVICE
  BY DEF Attach, SetDevice, CheckPlist, Goto
<1>2. TypeOK'
  <2>1. pc' \in Trapped /\ mounted' \in BOOLEAN /\ DISK_DEVICE' \in BOOLEAN
    BY <1>1 DEF IInv, TypeOK, Trapped, Edit
  <2>2. mounted' => directory' # "none"
    BY <1>1 DEF IInv, TypeOK
  <2>3. QED
    BY <1>1, <2>1, <2>2 DEF IInv, TypeOK
<1>3. UpToDate'
  BY <1>1 DEF IInv, UpToDate, Apart, Attached, Before
<1>4. QED
  BY <1>1, <1>2, <1>3 DEF IInv, Apart, Known, NothingLeftMounted

\* Each command adds its edit, if the image is attached.
LEMMA EditInvariant == IInv /\ (Edits \/ Sync) => IInv'
<1> SUFFICES ASSUME IInv, Edits \/ Sync PROVE IInv'
  OBVIOUS
<1>1. /\ UNCHANGED <<mode, DISK_DEVICE, mounted, lost>>
      /\ directory' \in {directory, "filled"}
      /\ \/ pc = "mkdir" /\ pc' = "clear" /\ (mounted => image' = image \cup {"mkdir"})
         \/ pc = "clear" /\ pc' = "copy" /\ (mounted => image' = image \cup {"clear"})
         \/ pc = "copy" /\ pc' = "arguments" /\ (mounted => image' = image \cup {"copy"})
         \/ pc = "arguments" /\ pc' = "sync" /\ (mounted => image' = image \cup {"arguments"})
         \/ pc = "sync" /\ pc' = "detach" /\ (mounted => image' = image)
      /\ ~mounted => image' = image
  BY DEF Edits, MakeDirectories, ClearArguments, CopyPayload, AddArguments, Sync, Goto
<1>2. TypeOK'
  <2>1. image' \subseteq {"raw"} \cup Edit
    BY <1>1 DEF IInv, TypeOK, Edit
  <2>2. QED
    BY <1>1, <2>1 DEF IInv, TypeOK, Trapped, Edit
<1>3. UpToDate'
  BY <1>1 DEF IInv, UpToDate, Attached, Before, Edit
<1>4. QED
  BY <1>1, <1>2, <1>3 DEF IInv, Apart, Known, NothingLeftMounted

\* What is detached was attached to the end.
LEMMA DetachInvariant == IInv /\ (Detach \/ Forget \/ Untrap \/ RemoveMountPoint) => IInv'
<1> SUFFICES ASSUME IInv, Detach \/ Forget \/ Untrap \/ RemoveMountPoint PROVE IInv'
  OBVIOUS
<1>1. /\ UNCHANGED <<mode, image, lost>> /\ mounted' = FALSE /\ image = {"raw"} \cup Edit
      /\ pc' \in {"forget", "untrap", "rmdir", "done"}
      /\ pc \in {"detach", "forget", "untrap", "rmdir"}
      /\ DISK_DEVICE' \in {DISK_DEVICE, FALSE} /\ directory' \in {directory, "none"}
  <2>1. CASE Detach
    BY <2>1 DEF Detach, Goto, IInv, UpToDate, Attached, Before
  <2>2. CASE Forget \/ Untrap \/ RemoveMountPoint
    <3>1. ~mounted /\ mounted' = mounted /\ pc \in {"forget", "untrap", "rmdir"}
      BY <2>2 DEF Forget, Untrap, RemoveMountPoint, Goto, IInv, Apart
    <3>2. mounted' = FALSE
      BY <3>1 DEF IInv, TypeOK
    <3>3. QED
      BY <2>2, <3>1, <3>2 DEF Forget, Untrap, RemoveMountPoint, Goto, IInv, Apart
  <2>3. QED
    BY <2>1, <2>2
<1>2. TypeOK'
  BY <1>1 DEF IInv, TypeOK, Trapped
<1>3. QED
  BY <1>1, <1>2 DEF IInv, UpToDate, Apart, Known, NothingLeftMounted

\* A failure leads to cleanup or comes where nothing is attached; who is killed has
\* lost what is attached.
LEMMA EndInvariant == IInv /\ (Fail \/ Killed) => IInv'
<1> SUFFICES ASSUME IInv, Fail \/ Killed PROVE IInv'
  OBVIOUS
<1>1. /\ UNCHANGED <<mode, DISK_DEVICE, directory, mounted, image>>
      /\ \/ pc \in Trapped /\ pc' = "exiting" /\ lost' = (pc = "device")
         \/ /\ pc \in {"decode", "mktemp", "rmdir"} /\ pc' = "exited" /\ lost' = FALSE
         \/ pc' = "exited" /\ lost' = mounted
  BY DEF Fail, Killed, IInv, TypeOK
<1>2. TypeOK'
  BY <1>1 DEF IInv, TypeOK
<1>3. Known' /\ NothingLeftMounted'
  BY <1>1 DEF IInv, TypeOK, Known, Apart, NothingLeftMounted, Trapped, Edit
<1>4. QED
  BY <1>1, <1>2, <1>3 DEF IInv, UpToDate, Attached, Apart, Edit

\* Cleanup attaches nothing and leaves the image as it is.
LEMMA CleanupInvariant == IInv /\ (CleanupAtExit \/ SignalTrapped) => IInv'
<1> SUFFICES ASSUME IInv, CleanupAtExit \/ SignalTrapped PROVE IInv'
  OBVIOUS
<1>1. PICK held \in BOOLEAN :
        /\ held => mounted /\ DISK_DEVICE
        /\ mounted' = (mounted /\ (held \/ ~DISK_DEVICE))
        /\ directory' = IF directory = "empty" /\ ~mounted' THEN "none" ELSE directory
        /\ image' = image
        /\ lost' = (lost \/ (held /\ pc = "exiting"))
  BY DEF CleanupAtExit, SignalTrapped, Cleanup, Detached, ImageLeft, Remaining
<1>2. /\ UNCHANGED <<mode, DISK_DEVICE>>
      /\ \/ pc = "exiting" /\ pc' = "exited"
         \/ pc \in Trapped /\ pc' = pc
  BY DEF CleanupAtExit, SignalTrapped, Goto
<1>3. TypeOK'
  BY <1>1, <1>2 DEF IInv, TypeOK
<1>4. UpToDate' /\ Apart'
  BY <1>1, <1>2 DEF IInv, UpToDate, Apart, Attached, Edit
<1>5. Known' /\ NothingLeftMounted'
  BY <1>1, <1>2 DEF IInv, Known, NothingLeftMounted, Trapped, Edit
<1>6. QED
  BY <1>3, <1>4, <1>5 DEF IInv

\* Every step preserves the invariant.
LEMMA StepInvariant == IInv /\ [Next]_vars => IInv'
<1> SUFFICES ASSUME IInv, [Next]_vars PROVE IInv'
  OBVIOUS
<1>1. CASE UNCHANGED vars
  BY <1>1 DEF vars, IInv, TypeOK, UpToDate, Apart, Known, NothingLeftMounted
<1>2. QED
  BY <1>1, PrepareInvariant, AttachInvariant, EditInvariant, DetachInvariant, EndInvariant,
     CleanupInvariant DEF Next

\* In every reachable state the image has got the edits that come before.
THEOREM Invariance == Spec => []IInv
BY Initially, StepInvariant, PTL DEF Spec

\* Type correctness of the script, its mount point and its image.
THEOREM TypeCorrect == Spec => []TypeOK
<1>1. IInv => TypeOK
  BY DEF IInv
<1>2. QED
  BY <1>1, Invariance, PTL

\* Whatever signals arrive, the image of a script that succeeds is complete.
THEOREM Complete == Spec => []DoneIsComplete
<1>1. IInv => DoneIsComplete
  BY DEF IInv, Apart, DoneIsComplete
<1>2. QED
  BY <1>1, Invariance, PTL

\* What the script can still detach at its end is detached.
THEOREM CleansUp == Spec => []NothingLeftMounted
<1>1. IInv => NothingLeftMounted
  BY DEF IInv
<1>2. QED
  BY <1>1, Invariance, PTL
-----------------------------------------------------------------------------
(* The session with the restore daemon.                                    *)

\* There is no result before the session has ended.
NoResultYet == progress \in {"start", "session"} => result = "none"

\* What the operations before this one, and this one once it has completed, have done.
DoneSoFar ==
  progress = "session" =>
    /\ stage = "CREATE_PARTITION_MAP_0" => passes = 1
    /\ op = "Image" /\ answer = "0" => disk = "written"
    /\ op \in {"FlashFirmware", "UpdateBaseBand", "SetBootStage"} => disk = "written"
    /\ op = "FlashFirmware" /\ answer = "0" => nor = "new"
    /\ op \in {"UpdateBaseBand", "SetBootStage"} => nor = "new"
    /\ (op = "UpdateBaseBand" /\ answer = "0") \/ op = "SetBootStage"
         => exclude \/ baseband = "target" \/ "rollback" \in log

\* With -x only a daemon that chooses the operations itself comes to the baseband,
\* and it does not get the data.
Spared ==
  progress = "session" /\ exclude /\ op = "UpdateBaseBand"
    => protocol = "other" /\ data # "sent"

\* The invariant of the session.
SInv ==
  /\ SessionTypeOK /\ NoResultYet /\ DoneSoFar /\ Spared
  /\ OkMeansRestored

\* A session has not begun: nothing is claimed.
LEMMA SessionInitially == SessionInit => SInv
<1> SUFFICES ASSUME SessionInit PROVE SInv
  OBVIOUS
<1>1. log \subseteq {"status2", "rollback"}
  BY DEF SessionInit
<1>2. retried \in BOOLEAN
  BY DEF SessionInit
<1>3. SessionTypeOK
  BY <1>1, <1>2 DEF SessionInit, SessionTypeOK, Operation
<1>4. QED
  BY <1>3 DEF SessionInit, SInv, NoResultYet, DoneSoFar, Spared, OkMeansRestored

\* The session begins, or begins again, with the partition map.
LEMMA BeginInvariant == SInv /\ (Begin \/ SecondPass) => SInv'
<1> SUFFICES ASSUME SInv, Begin \/ SecondPass PROVE SInv'
  OBVIOUS
<1>1. /\ progress' = "session" /\ op' = "Partition" /\ data' = "none" /\ answer' = "none"
      /\ UNCHANGED <<version, protocol, exclude, retried, disk, nor, baseband, result>>
      /\ log' \in {log, log \cup {"status2"}} /\ result = "none"
      /\ \/ stage' = "CREATE_PARTITION_MAP_0" /\ passes' = 1
         \/ stage' = "CREATE_PARTITION_MAP_1" /\ passes' = 2
  BY DEF Begin, SecondPass, SecondPassStage, Request,
     run, phone, SInv, NoResultYet, DoneSoFar
<1>2. SessionTypeOK'
  BY <1>1 DEF SInv, SessionTypeOK, Operation
<1>3. QED
  BY <1>1, <1>2 DEF SInv, NoResultYet, DoneSoFar, Spared, OkMeansRestored

\* The next operation is asked for only when this one has completed.
LEMMA StageInvariant == SInv /\ (NextStage \/ GoesOn) => SInv'
<1> SUFFICES ASSUME SInv, NextStage \/ GoesOn PROVE SInv'
  OBVIOUS
<1>1. /\ progress = "session" /\ progress' = "session"
      /\ answer = "0" /\ data' = "none" /\ answer' = "none"
      /\ UNCHANGED <<version, protocol, exclude, retried, disk, nor, baseband, result, log,
                     passes>>
      /\ stage' \in {stage, op'}
  BY DEF NextStage, GoesOn, Request, run, phone
<1>2. \/ op = "Partition" /\ op' = "Erase"
      \/ op = "Erase" /\ op' = "Image"
      \/ op = "Image" /\ op' = "FlashFirmware"
      \/ op = "FlashFirmware" /\ op' = "SetBootStage" /\ exclude
      \/ op = "FlashFirmware" /\ op' = "UpdateBaseBand" /\ (exclude => protocol = "other")
      \/ op = "UpdateBaseBand" /\ op' = "SetBootStage"
  <2>1. op \in Operation /\ op # "SetBootStage"
    BY DEF SInv, SessionTypeOK, NextStage, GoesOn
  <2>2. CASE NextStage
    BY <2>1, <2>2 DEF NextStage, Next7, Request, Operation
  <2>3. CASE GoesOn
    BY <2>1, <2>3 DEF GoesOn, NextOther, Request, Operation
  <2>4. QED
    BY <2>2, <2>3
<1>3. SessionTypeOK'
  BY <1>1, <1>2 DEF SInv, SessionTypeOK, Operation
<1>4. stage' = "CREATE_PARTITION_MAP_0" => stage = "CREATE_PARTITION_MAP_0"
  BY <1>1, <1>2
<1>5. DoneSoFar'
  BY <1>1, <1>2, <1>4 DEF SInv, DoneSoFar
<1>6. QED
  BY <1>1, <1>2, <1>3, <1>5 DEF SInv, NoResultYet, Spared, OkMeansRestored

\* Data is sent only where it is not excluded.
LEMMA DataInvariant ==
  SInv /\ (SendNor \/ SendBaseband \/ AskData) => SInv'
<1> SUFFICES ASSUME SInv, SendNor \/ SendBaseband \/ AskData
             PROVE  SInv'
  OBVIOUS
<1>1. /\ UNCHANGED <<version, protocol, exclude, retried, progress, stage, result, log,
                     op, answer, passes, disk, nor, baseband>>
      /\ data' \in {"asked", "sent"}
      /\ data' = "sent" => op = "FlashFirmware" \/ ~exclude
  BY DEF SendNor, SendBaseband, AskData, run, phone
<1>2. SessionTypeOK'
  BY <1>1 DEF SInv, SessionTypeOK, Operation
<1>3. QED
  BY <1>1, <1>2 DEF SInv, NoResultYet, DoneSoFar, Spared, OkMeansRestored

\* The session ends well only where both images have been written.
LEMMA EndInvariantOfSession ==
  SInv /\ (RebootInstead \/ Finished \/ Breaks \/ Status7)
    => SInv'
<1> SUFFICES ASSUME SInv,
                    RebootInstead \/ Finished \/ Breaks \/ Status7
             PROVE  SInv'
  OBVIOUS
<1>1. /\ UNCHANGED <<version, protocol, exclude, retried, stage, op, data, answer, passes,
                     disk, nor, baseband>>
      /\ progress = "session" /\ progress' = "ended"
      /\ log' \in {log, log \cup {"status2"}}
      /\ \/ result' = "failed"
         \/ result' = "ok" /\ op = "UpdateBaseBand" /\ exclude
         \/ result' = "ok" /\ op = "SetBootStage"
  BY DEF RebootInstead, Finished, Breaks, Status7, End,
     run, phone, daemon
<1>2. SessionTypeOK'
  BY <1>1 DEF SInv, SessionTypeOK
<1>3. OkMeansRestored'
  BY <1>1 DEF SInv, DoneSoFar, OkMeansRestored
<1>4. QED
  BY <1>1, <1>2, <1>3 DEF SInv, NoResultYet, DoneSoFar, Spared

\* What completes is done, except that the updater may have refused; with -x the
\* baseband stays as it is.
LEMMA CompletesStep ==
  ASSUME SInv, Completes
  PROVE  /\ progress = "session" /\ answer = "none"
         /\ UNCHANGED <<version, protocol, exclude, retried, progress, stage, result,
                        op, data, passes>>
         /\ answer' \in {"0", "1", "2"} /\ log' \in {log, log \cup {"rollback"}}
         /\ disk' \in {disk, "mapped", "formatted", "written"} /\ nor' \in {nor, "new"}
         /\ baseband' \in {baseband, "target", "damaged"}
         /\ op \in {"Image", "FlashFirmware", "UpdateBaseBand", "SetBootStage"}
              => disk' \in {disk, "written"}
         /\ answer' = "0" /\ op = "Image" => disk' = "written"
         /\ answer' = "0" /\ op = "FlashFirmware" => nor' = "new"
         /\ answer' = "0" /\ op = "UpdateBaseBand" => baseband' = "target" \/ "rollback" \in log'
         /\ baseband' # baseband => op = "UpdateBaseBand"
         /\ op = "UpdateBaseBand" => data = "sent" \/ (data = "none" /\ protocol = "v7")
<1>1. /\ progress = "session" /\ answer = "none"
      /\ UNCHANGED <<version, protocol, exclude, retried, progress, stage, result,
                     op, data, passes>>
      /\ op = "UpdateBaseBand" => data = "sent" \/ (data = "none" /\ protocol = "v7")
  BY DEF Completes, HasBaseband, run
<1>2. CASE answer' = "0" /\ Effect
  BY <1>1, <1>2 DEF Effect, phone
<1>3. CASE answer' \in {"0", "1"} /\ Refuse
  BY <1>1, <1>3 DEF Refuse, phone
<1>4. CASE answer' \in {"1", "2"} /\ UNCHANGED <<phone, log>>
  BY <1>1, <1>4 DEF phone
<1>5. CASE /\ answer' = "1" /\ op = "UpdateBaseBand" /\ baseband # "newer"
           /\ baseband' = "damaged" /\ UNCHANGED <<disk, nor, log>>
  BY <1>1, <1>5
<1>6. QED
  BY <1>2, <1>3, <1>4, <1>5 DEF Completes

\* An operation that completes makes its part of DoneSoFar true.
LEMMA CompletesInvariant == SInv /\ Completes => SInv'
<1> SUFFICES ASSUME SInv, Completes PROVE SInv'
  OBVIOUS
<1> USE CompletesStep
<1>1. SessionTypeOK'
  <2>1. log' \subseteq {"status2", "rollback"}
    BY DEF SInv, SessionTypeOK
  <2>2. QED
    BY <2>1 DEF SInv, SessionTypeOK
<1>2. DoneSoFar'
  BY DEF SInv, DoneSoFar, SessionTypeOK
<1>3. NoResultYet' /\ Spared'
  BY DEF SInv, NoResultYet, Spared
<1>4. OkMeansRestored'
  BY DEF SInv, NoResultYet, OkMeansRestored
<1>5. QED
  BY <1>1, <1>2, <1>3, <1>4 DEF SInv

\* The script starts the session once more, or is done with it.
LEMMA ScriptInvariant == SInv /\ (Retry \/ Done) => SInv'
<1> SUFFICES ASSUME SInv, Retry \/ Done PROVE SInv'
  OBVIOUS
<1>1. /\ UNCHANGED <<version, protocol, stage, op, data, answer, passes, disk, nor, baseband>>
      /\ \/ progress' = "start" /\ retried' = TRUE /\ exclude' = TRUE /\ result' = "none" /\ log' = {}
         \/ progress' = "done" /\ UNCHANGED <<retried, exclude, result, log>>
  BY DEF Retry, Done, run, phone, daemon
<1>2. SessionTypeOK'
  <2>1. log' \subseteq {"status2", "rollback"}
    BY <1>1 DEF SInv, SessionTypeOK
  <2>2. retried' \in BOOLEAN /\ exclude' \in BOOLEAN /\ result' \in {"none", "ok", "failed"}
    BY <1>1 DEF SInv, SessionTypeOK
  <2>3. QED
    BY <1>1, <2>1, <2>2 DEF SInv, SessionTypeOK
<1>3. QED
  BY <1>1, <1>2 DEF SInv, NoResultYet, DoneSoFar, Spared, OkMeansRestored

\* Every step of a session preserves the invariant.
LEMMA SessionStep == SInv /\ [SessionNext]_sessionVars => SInv'
<1> SUFFICES ASSUME SInv, [SessionNext]_sessionVars PROVE SInv'
  OBVIOUS
<1>1. CASE UNCHANGED sessionVars
  <2>1. UNCHANGED <<version, protocol, exclude, retried, progress, stage, result, log,
                    op, data, answer, passes, disk, nor, baseband>>
    BY <1>1 DEF sessionVars, run, phone, daemon
  <2>2. QED
    BY <2>1 DEF SInv, SessionTypeOK, NoResultYet, DoneSoFar, Spared, OkMeansRestored
<1>2. QED
  BY <1>1, BeginInvariant, StageInvariant, DataInvariant, EndInvariantOfSession,
     CompletesInvariant, ScriptInvariant DEF SessionNext

\* What the session has done agrees with what it says, in every reachable state.
THEOREM SessionInvariance == SessionSpec => []SInv
BY SessionInitially, SessionStep, PTL DEF SessionSpec

\* Type correctness of the session, the daemon and the phone.
THEOREM SessionTypeCorrect == SessionSpec => []SessionTypeOK
<1>1. SInv => SessionTypeOK
  BY DEF SInv
<1>2. QED
  BY <1>1, SessionInvariance, PTL

\* Status 0 of idevicerestore is a written filesystem and NOR, in both protocols,
\* with and without -x, and a baseband that is the IPSW's, excluded, or refused.
THEOREM OkIsRestored == SessionSpec => []OkMeansRestored
<1>1. SInv => OkMeansRestored
  BY DEF SInv
<1>2. QED
  BY <1>1, SessionInvariance, PTL

\* No step with -x in force changes the baseband, whichever side chooses the
\* operations.
THEOREM ExclusionHolds == SessionSpec => ExcludedPreserves
<1>1. SInv /\ [SessionNext]_sessionVars
        => [exclude => baseband' = baseband]_sessionVars
  <2> SUFFICES ASSUME SInv, SessionNext, exclude PROVE baseband' = baseband
    OBVIOUS
  <2>1. CASE Completes
    BY <2>1, CompletesStep DEF SInv, Spared
  <2>2. CASE ~Completes
    BY <2>2 DEF SessionNext, Begin, SecondPass, Status7,
       NextStage, SendNor, SendBaseband, RebootInstead,
       Finished, Breaks, AskData, GoesOn, Retry,
       Done, phone
  <2>3. QED
    BY <2>1, <2>2
<1>2. QED
  BY <1>1, SessionInvariance, PTL DEF SessionSpec, ExcludedPreserves
=============================================================================
