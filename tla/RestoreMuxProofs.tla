--------------------------- MODULE RestoreMuxProofs ---------------------------
(***************************************************************************)
(* Theorems about RestoreMux, for any number of attempts and any process    *)
(* IDs.                                                                    *)
(***************************************************************************)
EXTENDS RestoreMux, TLAPS

\* Where the script has no mux.
Bare == {"prepare", "start", "fallback", "retryWait", "untrapped"}

\* A run that was ended abruptly does nothing but end.
EndsAbruptly == abrupt => pc \in {"exiting", "cleaning", "gone"}

\* The run's mux is the last one started, and MUX_PID names it, except between the
\* start and the assignment.
Named ==
  /\ Own \subseteq {lastPid}
  /\ pc # "spawned" /\ ~abrupt => Own \subseteq {MUX_PID}

\* Where the mux has been waited for there is none.
Awaited ==
  /\ pc \in Bare => Own = {}
  /\ pc = "gone" /\ ~abrupt => Own = {}
  /\ pc = "restore" /\ via = "system" => Own = {}

\* After a stop for another attempt there is an attempt left.
Again == pc = "stopRetry" => attempt < Attempts

\* The invariant: the shell knows which mux it has, and whether it has one.
IInv == TypeOK /\ EndsAbruptly /\ Named /\ Awaited /\ Again
-----------------------------------------------------------------------------
\* There is at least one attempt.
LEMMA FirstAttempt == 1 \in 1..Attempts
BY AttemptsAssumption

\* Before the first run there is no mux.
LEMMA Initially == Init => IInv
<1> SUFFICES ASSUME Init PROVE IInv
  OBVIOUS
<1>1. Own = {}
  BY DEF Init, Own
<1>2. TypeOK
  BY FirstAttempt DEF Init, TypeOK, Trapped
<1>3. QED
  BY <1>1, <1>2 DEF Init, IInv, EndsAbruptly, Named, Awaited, Again, Bare

\* A new run takes every mux that still runs for somebody else's.
LEMMA LaunchInvariant == IInv /\ Launch => IInv'
<1> SUFFICES ASSUME IInv, Launch PROVE IInv'
  OBVIOUS
<1>1. Own' = {} /\ pc' = "prepare" /\ abrupt' = FALSE
  BY DEF Launch, Begin, Own
<1>2. TypeOK'
  BY FirstAttempt DEF IInv, TypeOK, Launch, Begin, Trapped
<1>3. QED
  BY <1>1, <1>2 DEF IInv, EndsAbruptly, Named, Awaited, Again, Bare

\* The retry starts with no mux, because RetryCleaned has waited for it.
LEMMA ExecInvariant == IInv /\ Exec => IInv'
<1> SUFFICES ASSUME IInv, Exec PROVE IInv'
  OBVIOUS
<1>1. /\ pc = "untrapped" /\ pc' = "prepare" /\ Own' = Own
      /\ abrupt' = abrupt /\ ~abrupt
  BY DEF Exec, Begin, Own, muxes, IInv, EndsAbruptly
<1>2. Own = {}
  BY <1>1 DEF IInv, Awaited, Bare
<1>3. TypeOK'
  BY FirstAttempt DEF IInv, TypeOK, Exec, Begin, Trapped, muxes
<1>4. QED
  BY <1>1, <1>2, <1>3 DEF IInv, EndsAbruptly, Named, Awaited, Again, Bare

\* The new mux is the only one of the run.
LEMMA SpawnInvariant == IInv /\ Spawn => IInv'
<1> SUFFICES ASSUME IInv, Spawn PROVE IInv'
  OBVIOUS
<1>1. PICK p \in Pid \ alive : lastPid' = p /\ alive' = alive \cup {p}
  BY DEF Spawn
<1>2. /\ pc = "start" /\ pc' = "spawned" /\ abrupt' = abrupt /\ ~abrupt
      /\ left' = left /\ Own = {}
  BY DEF Spawn, IInv, EndsAbruptly, Awaited, Bare
<1>3. Own' \subseteq {lastPid'}
  BY <1>1, <1>2 DEF Own
<1>4. TypeOK'
  BY <1>1 DEF IInv, TypeOK, Spawn, Trapped
<1>5. QED
  BY <1>2, <1>3, <1>4 DEF IInv, EndsAbruptly, Named, Awaited, Again, Bare

\* From here on MUX_PID names the mux.
LEMMA RecordInvariant == IInv /\ Record => IInv'
<1> SUFFICES ASSUME IInv, Record PROVE IInv'
  OBVIOUS
<1>1. /\ pc = "spawned" /\ pc' \in {"boot", "attach"} /\ MUX_PID' = lastPid
      /\ lastPid' = lastPid /\ abrupt' = abrupt /\ Own' = Own
  BY DEF Record, muxes, Own
<1>2. TypeOK'
  BY <1>1 DEF IInv, TypeOK, Record, Trapped, muxes
<1>3. QED
  BY <1>1, <1>2 DEF IInv, EndsAbruptly, Named, Awaited, Again, Bare

\* Commands that start, stop and wait for nothing, between places where the mux may
\* run, or after it is gone.
LEMMA PlainInvariant ==
  ASSUME IInv, Prepare \/ BootStock \/ RestoreSucceeds \/ Untrap \/ Exits
  PROVE  IInv'
<1>1. /\ UNCHANGED <<MUX_PID, lastPid, attempt, retried, via, abrupt, muxes>>
      /\ Own' = Own
      /\ \/ pc = "prepare" /\ pc' = "start"
         \/ pc = "boot" /\ pc' = "attach"
         \/ pc = "restore" /\ pc' = "finish"
         \/ pc = "retryWait" /\ pc' = "untrapped"
         \/ pc # "spawned" /\ pc' = "exiting"
  BY DEF Prepare, BootStock, RestoreSucceeds, Untrap, Exits, Goto, muxes, Own
<1>2. TypeOK'
  BY <1>1 DEF IInv, TypeOK, Trapped, muxes
<1>3. QED
  BY <1>1, <1>2 DEF IInv, EndsAbruptly, Named, Awaited, Again, Bare

\* idevicerestore starts: through the private mux, or through the other one after
\* the private mux has been waited for.
LEMMA ViaInvariant == IInv /\ (Attach \/ Fallback) => IInv'
<1> SUFFICES ASSUME IInv, Attach \/ Fallback PROVE IInv'
  OBVIOUS
<1>1. /\ UNCHANGED <<MUX_PID, lastPid, attempt, retried, abrupt, muxes>>
      /\ Own' = Own /\ pc' = "restore"
      /\ \/ pc = "attach" /\ via' = "private"
         \/ pc = "fallback" /\ via' = "system"
  BY DEF Attach, Fallback, muxes, Own
<1>2. TypeOK'
  BY <1>1 DEF IInv, TypeOK, Trapped, muxes
<1>3. QED
  BY <1>1, <1>2 DEF IInv, EndsAbruptly, Named, Awaited, Again, Bare

\* Sending SIGTERM does not end a mux.
LEMMA KillInvariant ==
  ASSUME IInv, AttachFails \/ PartitionFails \/ CleanupKill
  PROVE  IInv'
<1>1. /\ UNCHANGED <<MUX_PID, lastPid, attempt, retried, via, abrupt, alive, left>>
      /\ dying' = dying \cup ({MUX_PID} \cap alive)
      /\ \/ pc = "attach" /\ pc' = "stopRetry" /\ attempt < Attempts
         \/ pc = "attach" /\ pc' = "stopFallback"
         \/ pc = "restore" /\ pc' = "retryCleanup"
         \/ pc = "exiting" /\ pc' = "cleaning"
  BY DEF AttachFails, PartitionFails, CleanupKill, Goto, Kill
<1>2. Own' = Own
  BY <1>1 DEF Own
<1>3. TypeOK'
  BY <1>1 DEF IInv, TypeOK, Trapped
<1>4. QED
  BY <1>1, <1>2, <1>3 DEF IInv, EndsAbruptly, Named, Awaited, Again, Bare

\* A wait that returns leaves the script without a mux: MUX_PID named the only one.
LEMMA WaitInvariant ==
  ASSUME IInv, Stopped \/ RetryCleaned \/ CleanupDone
  PROVE  IInv'
<1>1. /\ UNCHANGED <<lastPid, retried, via, abrupt, muxes>>
      /\ MUX_PID' \in {MUX_PID, NoPid} /\ MUX_PID \notin alive
      /\ \/ /\ pc = "stopRetry" /\ pc' = "start" /\ attempt' = attempt + 1
         \/ /\ pc = "stopFallback" /\ pc' = "fallback" /\ attempt' = attempt
         \/ /\ pc = "retryCleanup" /\ pc' = "retryWait" /\ attempt' = attempt
         \/ /\ pc = "cleaning" /\ pc' = "gone" /\ attempt' = attempt
  BY DEF Stopped, RetryCleaned, CleanupDone, Waited, Goto
<1>2. Own' = Own /\ (~abrupt => Own = {})
  BY <1>1 DEF Own, muxes, IInv, Named
<1>3. TypeOK'
  BY <1>1, AttemptsAssumption DEF IInv, TypeOK, Again, Trapped, muxes
<1>4. QED
  BY <1>1, <1>2, <1>3 DEF IInv, EndsAbruptly, Named, Awaited, Again, Bare

\* A trapped signal leads to cleanup with MUX_PID set; whatever ends the script
\* before that is abrupt, or comes after its mux is gone.
LEMMA SignalInvariant == IInv /\ (Signal \/ Killed) => IInv'
<1> SUFFICES ASSUME IInv, Signal \/ Killed PROVE IInv'
  OBVIOUS
<1>1. /\ UNCHANGED <<MUX_PID, lastPid, attempt, retried, via, muxes>>
      /\ Own' = Own
      /\ \/ pc' = "exiting" /\ abrupt' \in BOOLEAN
            /\ (~abrupt' => ~abrupt /\ pc # "spawned")
         \/ pc = "untrapped" /\ pc' = "gone" /\ abrupt' = abrupt
         \/ pc' = "gone" /\ abrupt' = TRUE
  BY DEF Signal, Killed, muxes, Own, IInv, EndsAbruptly, Trapped
<1>2. TypeOK'
  BY <1>1 DEF IInv, TypeOK, Trapped, muxes
<1>3. QED
  BY <1>1, <1>2 DEF IInv, EndsAbruptly, Named, Awaited, Again, Bare

\* A mux that ends is nobody's any more.
LEMMA MuxInvariant ==
  ASSUME IInv, NEW p \in Pid, MuxEnds(p)
  PROVE  IInv'
<1>1. UNCHANGED <<pc, MUX_PID, lastPid, attempt, retried, via, abrupt>>
  BY DEF MuxEnds, script
<1>2. Own' \subseteq Own
  BY DEF MuxEnds, Own
<1>3. TypeOK'
  BY <1>1 DEF IInv, TypeOK, MuxEnds, Trapped
<1>4. QED
  BY <1>1, <1>2, <1>3 DEF IInv, EndsAbruptly, Named, Awaited, Again, Bare

\* Every step preserves the invariant.
LEMMA StepInvariant == IInv /\ [Next]_vars => IInv'
<1> SUFFICES ASSUME IInv, [Next]_vars PROVE IInv'
  OBVIOUS
<1>1. CASE UNCHANGED vars
  BY <1>1 DEF vars, script, muxes, IInv, TypeOK, EndsAbruptly, Named, Awaited, Again,
              Own
<1>2. CASE Launch
  BY <1>2, LaunchInvariant
<1>3. CASE ScriptStep
  BY <1>3, PlainInvariant, SpawnInvariant, RecordInvariant, ViaInvariant,
     KillInvariant, WaitInvariant, ExecInvariant DEF ScriptStep
<1>4. CASE Signal \/ Killed
  BY <1>4, SignalInvariant
<1>5. CASE \E p \in Pid : MuxEnds(p)
  BY <1>5, MuxInvariant
<1>6. QED
  BY <1>1, <1>2, <1>3, <1>4, <1>5 DEF Next

\* In every reachable state the script knows which mux it has.
THEOREM Invariance == Spec => []IInv
BY Initially, StepInvariant, PTL DEF Spec

\* Type correctness of the script, its muxes and the signals.
THEOREM TypeCorrect == Spec => []TypeOK
<1>1. IInv => TypeOK
  BY DEF IInv
<1>2. QED
  BY <1>1, Invariance, PTL

\* Whatever fails and whenever signals arrive, a run has at most one mux,
\* and none when idevicerestore goes through the system's.
THEOREM OneMux == Spec => []AtMostOneMux
<1>1. IInv => AtMostOneMux
  BY DEF IInv, Named, Awaited, AtMostOneMux
<1>2. QED
  BY <1>1, Invariance, PTL

\* A run that does not end in one of the ways named by abrupt has left no mux.
THEOREM CleansUp == Spec => []NoMuxLeftBehind
<1>1. IInv => NoMuxLeftBehind
  BY DEF IInv, Awaited, NoMuxLeftBehind
<1>2. QED
  BY <1>1, Invariance, PTL
=============================================================================
