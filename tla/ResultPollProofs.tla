---------------------------- MODULE ResultPollProofs ----------------------------
(***************************************************************************)
(* Theorems about ResultPoll, for all windows, watchdogs and times of the   *)
(* phone that leave the slack of SlackAssumption.                           *)
(***************************************************************************)
EXTENDS ResultPoll, TLAPS

\* The longest time before a phase begins.
Before(p) ==
  CASE p = "boot"   -> 0
    [] p = "work"   -> Boot
    [] p = "finish" -> Boot + Watchdog[stage]
    [] p = "reset"  -> Boot + Watchdog[stage] + Finish

\* The longest way to the recovery console.
Longest == Boot + Watchdog[stage] + Finish + Reset

\* A poll and the second after it, while the phone is on its way.
OnTheWay ==
  pc = "poll" /\ phase \in Timed =>
    /\ misses = 0
    /\ polls <= Before(phase) + age + (IF wait > 0 THEN 1 ELSE 0)

\* Once it is back, only missed answers cost polls.
Back == pc = "poll" /\ phase = "recovery" => polls <= Longest + misses + 1

\* The invariant: no more polls than seconds.
IInv == TypeOK /\ OnTheWay /\ Back /\ SuccessIsSeen
-----------------------------------------------------------------------------
\* The times of the present stage, and their slack.
LEMMA Numbers ==
  ASSUME TypeOK
  PROVE  /\ Boot \in Nat /\ Finish \in Nat /\ Reset \in Nat /\ Misses \in Nat
         /\ Slow \in Nat /\ Watchdog[stage] \in Nat /\ Polls[stage] \in Nat
         /\ age \in Nat /\ polls \in Nat /\ wait \in Nat /\ misses \in Nat
         /\ misses <= Misses
         /\ Longest + Misses + 2 <= Polls[stage]
<1>1. /\ Boot \in Nat /\ Finish \in Nat /\ Reset \in Nat /\ Misses \in Nat /\ Slow \in Nat
      /\ Watchdog[stage] \in Nat /\ Polls[stage] \in Nat
  BY BoundsAssumption DEF TypeOK
<1>2. age \in Nat /\ polls \in Nat /\ wait \in Nat /\ misses \in Nat /\ misses <= Misses
  BY <1>1 DEF TypeOK
<1>3. Longest + Misses + 2 <= Polls[stage]
  BY <1>1, SlackAssumption DEF TypeOK, Longest
<1>4. QED
  BY <1>1, <1>2, <1>3

\* The script polls for the first time when the phone has begun to boot.
LEMMA Initially == Init => IInv
<1> SUFFICES ASSUME Init PROVE IInv
  OBVIOUS
<1>1. /\ 0 \in 0..Polls[stage] /\ 0 \in 0..(Slow + 1) /\ 0 \in 0..Misses /\ 0 <= Boot
  BY BoundsAssumption DEF Init
<1>2. TypeOK
  BY <1>1 DEF Init, TypeOK, Timed, Limit
<1>3. OnTheWay
  BY DEF Init, OnTheWay, Before
<1>4. QED
  BY <1>2, <1>3 DEF Init, IInv, Back, SuccessIsSeen

\* The next phase begins when the one before has lasted no longer than its limit.
LEMMA PhoneInvariant == IInv /\ Phone => IInv'
<1> SUFFICES ASSUME IInv, Phone PROVE IInv'
  OBVIOUS
<1>1. /\ UNCHANGED <<stage, pc, polls, wait, misses>> /\ age' = 0
      /\ phase # "iOS" => \/ phase = "boot" /\ phase' = "work"
                          \/ phase = "work" /\ phase' = "finish"
                          \/ phase = "finish" /\ phase' = "reset"
                          \/ phase = "reset" /\ phase' = "recovery"
                          \/ phase' = "iOS"
      /\ phase = "iOS" => phase' = "iOS"
  BY DEF Phone, Start, Succeed, Restart, PowerUp, FallBack, Enter, host
<1>2. \A p \in Timed : Limit(p)' \in Nat
  BY <1>1, Numbers DEF IInv, Timed, Limit
<1>3. TypeOK'
  <2>1. phase' \in Timed \cup {"recovery", "iOS"}
    BY <1>1 DEF IInv, TypeOK, Timed
  <2>2. age' \in Nat /\ (phase' \in Timed => age' <= Limit(phase'))
    BY <1>1, Numbers DEF IInv, Timed, Limit
  <2>3. QED
    BY <1>1, <2>1, <2>2 DEF IInv, TypeOK, Limit
<1>4. OnTheWay' /\ Back'
  <2>1. phase \in Timed => age <= Limit(phase)
    BY DEF IInv, TypeOK
  <2>2. QED
    BY <1>1, <2>1, Numbers DEF IInv, OnTheWay, Back, Timed, Limit, Before, Longest
<1>5. SuccessIsSeen'
  BY <1>1 DEF IInv, SuccessIsSeen
<1>6. QED
  BY <1>3, <1>4, <1>5 DEF IInv

\* While the phone is on its way there are fewer polls than seconds in the window, and
\* the slack covers the answers that are missed when it is back.
LEMMA GiveUpInvariant == IInv /\ GiveUp => IInv'
<1> SUFFICES ASSUME IInv, GiveUp PROVE IInv'
  OBVIOUS
<1>1. /\ pc = "poll" /\ wait = 0 /\ polls = Polls[stage] /\ pc' = "gaveUp"
      /\ UNCHANGED <<stage, phase, age, polls, wait, misses>>
  BY DEF GiveUp, Exhausted, payload
<1>2. phase \notin Timed
  <2>1. phase \in Timed => age <= Limit(phase)
    BY DEF IInv, TypeOK
  <2>2. QED
    BY <1>1, <2>1, Numbers DEF IInv, OnTheWay, Timed, Limit, Before, Longest
<1>3. phase # "recovery"
  BY <1>1, Numbers DEF IInv, Back, Longest
<1>4. phase = "iOS"
  BY <1>2, <1>3 DEF IInv, TypeOK
<1>5. TypeOK'
  BY <1>1 DEF IInv, TypeOK, Limit
<1>6. QED
  BY <1>1, <1>4, <1>5 DEF IInv, OnTheWay, Back, SuccessIsSeen

\* A poll is one more, and the second after it has not yet passed.
LEMMA LookInvariant == IInv /\ (NoConsole \/ NoResult \/ SeeResult) => IInv'
<1> SUFFICES ASSUME IInv, NoConsole \/ NoResult \/ SeeResult PROVE IInv'
  OBVIOUS
<1>1. /\ pc = "poll" /\ wait = 0 /\ polls # Polls[stage] /\ polls' = polls + 1
      /\ UNCHANGED <<stage, phase, age>>
  BY DEF NoConsole, NoResult, SeeResult, Exhausted, payload
<1>2. \/ phase # "recovery" /\ wait' \in 1..(Slow + 1) /\ misses' = misses /\ pc' = pc
      \/ /\ phase = "recovery" /\ wait' \in 1..(Slow + 1) /\ pc' = pc
         /\ misses < Misses /\ misses' = misses + 1
      \/ pc' = "seen" /\ wait' = wait /\ misses' = misses
  BY Numbers DEF NoConsole, NoResult, SeeResult, IInv
<1>3. polls' \in 0..Polls[stage]
  BY <1>1, Numbers DEF IInv, TypeOK
<1>4. wait' \in 0..(Slow + 1) /\ misses' \in 0..Misses
  BY <1>1, <1>2, Numbers DEF IInv, TypeOK
<1>5. TypeOK'
  BY <1>1, <1>2, <1>3, <1>4 DEF IInv, TypeOK, Limit
<1>6. OnTheWay'
  <2>1. Before(phase)' = Before(phase) /\ (phase \in Timed => Before(phase) \in Nat)
    BY <1>1, Numbers DEF IInv, Before, Timed
  <2>2. SUFFICES ASSUME pc' = "poll", phase \in Timed
                 PROVE  /\ misses' = 0
                        /\ polls' <= Before(phase) + age + (IF wait' > 0 THEN 1 ELSE 0)
    BY <1>1, <2>1 DEF OnTheWay
  <2>3. misses = 0 /\ polls <= Before(phase) + age
    BY <1>1, <2>1, <2>2, Numbers DEF IInv, OnTheWay
  <2>4. wait' > 0 /\ misses' = misses
    BY <1>1, <1>2, <2>2, Numbers DEF IInv, Timed
  <2>5. QED
    BY <1>1, <2>1, <2>2, <2>3, <2>4, Numbers DEF IInv
<1>7. Back'
  BY <1>1, <1>2, Numbers DEF IInv, Back, Longest
<1>8. SuccessIsSeen'
  BY <1>1, <1>2 DEF SuccessIsSeen
<1>9. QED
  BY <1>5, <1>6, <1>7, <1>8 DEF IInv

\* A second that passes is one more in which the poll is paid for.
LEMMA TickInvariant == IInv /\ Tick => IInv'
<1> SUFFICES ASSUME IInv, Tick PROVE IInv'
  OBVIOUS
<1>1. /\ pc = "poll" /\ wait > 0 /\ wait' = wait - 1
      /\ UNCHANGED <<stage, phase, pc, polls, misses>>
      /\ phase \in Timed => age < Limit(phase) /\ age' = age + 1
      /\ phase \notin Timed => age' = age
  BY DEF Tick
<1>2. TypeOK'
  <2>1. wait' \in 0..(Slow + 1)
    BY <1>1, Numbers DEF IInv, TypeOK
  <2>2. age' \in Nat /\ (phase' \in Timed => age' <= Limit(phase)')
    <3>1. phase \in Timed => Limit(phase) \in Nat /\ Limit(phase)' = Limit(phase)
      BY <1>1, Numbers DEF IInv, Timed, Limit
    <3>2. QED
      BY <1>1, <3>1, Numbers DEF IInv
  <2>3. QED
    BY <1>1, <2>1, <2>2 DEF IInv, TypeOK
<1>3. OnTheWay'
  <2>1. Before(phase)' = Before(phase) /\ (phase \in Timed => Before(phase) \in Nat)
    BY <1>1, Numbers DEF IInv, Before, Timed
  <2>2. QED
    BY <1>1, <2>1, Numbers DEF IInv, OnTheWay
<1>4. Back'
  BY <1>1 DEF IInv, Back, Longest
<1>5. SuccessIsSeen'
  BY <1>1 DEF SuccessIsSeen
<1>6. QED
  BY <1>2, <1>3, <1>4, <1>5 DEF IInv

\* Every step preserves the invariant.
LEMMA StepInvariant == IInv /\ [Next]_vars => IInv'
<1> SUFFICES ASSUME IInv, [Next]_vars PROVE IInv'
  OBVIOUS
<1>1. CASE UNCHANGED vars
  BY <1>1 DEF vars, payload, host, IInv, TypeOK, OnTheWay, Back, SuccessIsSeen, Limit,
              Before, Longest
<1>2. QED
  BY <1>1, PhoneInvariant, GiveUpInvariant, LookInvariant, TickInvariant
  DEF Next, Script

\* In every reachable state no more polls are used than seconds have passed.
THEOREM Invariance == Spec => []IInv
BY Initially, StepInvariant, PTL DEF Spec

\* Type correctness of the poll and the phases.
THEOREM TypeCorrect == Spec => []TypeOK
<1>1. IInv => TypeOK
  BY DEF IInv
<1>2. QED
  BY <1>1, Invariance, PTL

\* For all times that leave the slack, the script never gives up on a success.
THEOREM WindowSuffices == Spec => []SuccessIsSeen
<1>1. IInv => SuccessIsSeen
  BY DEF IInv
<1>2. QED
  BY <1>1, Invariance, PTL
=============================================================================
