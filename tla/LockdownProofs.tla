---------------------------- MODULE LockdownProofs -----------------------------
(***************************************************************************)
(* Theorems about Lockdown, for any number of attempts of either tool and   *)
(* any number of faults.                                                    *)
(***************************************************************************)
EXTENDS Lockdown, SequenceTheorems, TLAPS

\* It has a connection.
Asking == pc \in {"ask", "wait"}

\* The request it is all about.
Final == IF tool = "activate" THEN "SetValue" ELSE "EnterRecovery"

\* The request of which it is the turn when there are m left, of a tool t and, as p says,
\* with pairing or without.
JobOf(t, p, m) ==
  CASE m = 1 -> IF t = "activate" THEN "SetValue" ELSE "EnterRecovery"
    [] m = 2 -> "StartSession"
    [] m = 3 /\ p -> "Pair"
    [] m = (IF p THEN 5 ELSE 4) /\ t = "activate" -> "SetValue"
    [] OTHER -> "GetValue"

Job(m) == JobOf(tool, needsPair, m)

\* The requests still to be made are the last ones of the program.
Jobs == Asking => todo # <<>> /\ \A i \in 1..Len(todo) : todo[i] = Job(Len(todo) + 1 - i)

\* Nothing outlives a connection that is given up.
Closed == pc \in {"open", "failed"} => inbox = <<>> /\ replies = <<>> /\ ~needsPair

\* The phone is asked to pair with the host ID of this attempt only.
OwnPairs == \A i \in 1..Len(inbox) : inbox[i][1] = "Pair" => inbox[i][2] = NewId

-----------------------------------------------------------------------------
\* A record is made where there was none, and is the attempt's own from Pair on.
Records ==
  Asking => IF needsPair THEN record = (IF Len(todo) > 2 THEN NoRecord ELSE NewId)
            ELSE record # NoRecord

\* Once it is sent, Pair is in the inbox until the phone has paired.
PairSent ==
  Asking /\ needsPair /\ (Len(todo) <= 2 \/ (Len(todo) = 3 /\ pc = "wait")) =>
    NewId \in trusted \/ \E i \in 1..Len(inbox) : inbox[i][1] = "Pair"

\* The request the tool waits for is the last of the inbox, unless it is answered.
Newest == pc = "wait" /\ inbox # <<>> => inbox[Len(inbox)][1] = Head(todo)

\* The phone changes, and says so, for the request it is all about alone.
Honest ==
  /\ \A i \in 1..Len(inbox) : inbox[i][1] \in {"SetValue", "EnterRecovery"} => inbox[i][1] = Final
  /\ \A i \in 1..Len(replies) :
       /\ replies[i].to = Final => replies[i].result # "Success"
       /\ replies[i].to = "Pair" => replies[i].result = "Success"

\* What the tool has sent.
Sent == <<Head(todo), IF Head(todo) = "Pair" THEN NewId ELSE record>>

\* Without a late answer there is one exchange at a time, and StartSession has told the
\* tool of the session.
InTurn ==
  ~late =>
    /\ pc = "ask" => inbox = <<>> /\ replies = <<>>
    /\ pc = "wait" =>
         \/ replies = <<>> /\ Len(inbox) = 1 /\ inbox[1] = Sent
         \/ /\ inbox = <<>> /\ Len(replies) = 1 /\ replies[1].to = Head(todo)
            /\ Len(todo) # 1
            /\ Len(todo) = 2 => IF record \in trusted THEN session /\ replies[1].result = "Success"
                                ELSE replies[1].result = "InvalidHostID"
    /\ Asking /\ Len(todo) = 1 => session

\* Requests and answers on their way.
Afloat == Len(inbox) + Len(replies)

\* The one that is waited for.
Awaited == IF pc = "wait" THEN 1 ELSE 0

\* A given up answer stays ahead of all that follow.
Behind == Asking => Afloat >= Awaited + (IF late THEN 1 ELSE 0)

\* A record the phone does not know, which will cost an attempt.
Bad == IF ~needsPair /\ record # NoRecord /\ record \notin trusted THEN 1 ELSE 0

\* An attempt is lost, or may be, on a fault or on the record of the beginning.
Budget ==
  /\ Asking => attempt + Bad + Afloat <= 2 + faults + Awaited
  /\ pc = "open" => attempt + Bad <= 2 + faults
  /\ pc = "failed" => attempt = Attempts[tool] /\ attempt <= 1 + faults

\* The phone has not done what it is asked for, and the tool has not said it has.
OnTheWay ==
  /\ pc # "done" /\ ~left
  /\ Records /\ PairSent /\ Newest /\ Honest /\ InTurn /\ Behind /\ Budget

\* The queues and the counters are what they should be.
Sound == TypeOK /\ Jobs /\ Closed /\ OwnPairs

\* The invariant: the phone has done what it is asked for, or a late answer is taken
\* for it, or the attempts left are enough.
IInv == Sound /\ (Goal \/ (pc = "done" /\ late) \/ OnTheWay)
-----------------------------------------------------------------------------
\* The counters are numbers, and the host ID of this attempt is one of those there can be.
LEMMA Numbers ==
  ASSUME TypeOK
  PROVE  /\ Attempts[tool] \in Nat /\ attempt \in Nat /\ 1 <= attempt
         /\ attempt <= Attempts[tool] /\ faults \in Nat /\ MaxFaults \in Nat
         /\ record \in Nat /\ NewId \in 1..(Attempts[tool] + 1) /\ NewId \in Nat
         /\ Len(todo) \in Nat /\ Len(inbox) \in Nat /\ Len(replies) \in Nat
<1>1. Attempts[tool] \in Nat
  BY AttemptsAssumption DEF TypeOK
<1>2. Len(todo) \in Nat /\ Len(inbox) \in Nat /\ Len(replies) \in Nat
  BY LenProperties DEF TypeOK
<1>3. QED
  BY <1>1, <1>2, FaultsAssumption DEF TypeOK, NewId

\* What a queue is when something is taken from it.
LEMMA Taken ==
  ASSUME NEW S, NEW s \in Seq(S), s # <<>>
  PROVE  /\ Len(s) \in Nat \ {0} /\ Head(s) = s[1] /\ Head(s) \in S /\ Tail(s) \in Seq(S)
         /\ Len(Tail(s)) = Len(s) - 1
         /\ \A i \in 1..Len(Tail(s)) : i + 1 \in 1..Len(s) /\ Tail(s)[i] = s[i + 1]
<1>1. Len(s) \in Nat \ {0}
  BY EmptySeq
<1>2. Head(s) \in S /\ Tail(s) \in Seq(S) /\ Len(Tail(s)) = Len(s) - 1
  BY HeadTailProperties
<1>3. \A i \in 1..Len(Tail(s)) : Tail(s)[i] = s[i + 1]
  BY HeadTailProperties
<1>4. QED
  BY <1>1, <1>2, <1>3

\* A sequence with nothing in it is empty.
LEMMA Nothing ==
  ASSUME NEW S, NEW s \in Seq(S), Len(s) = 0
  PROVE  s = <<>>
BY EmptySeq

\* The tool's next request is its job.
LEMMA Turn ==
  ASSUME TypeOK, Jobs, Asking
  PROVE  /\ todo # <<>> /\ Len(todo) >= 1 /\ Head(todo) = Job(Len(todo)) /\ Head(todo) \in Request
         /\ Tail(todo) \in Seq(Request) /\ Len(Tail(todo)) = Len(todo) - 1
         /\ \A i \in 1..Len(Tail(todo)) : Tail(todo)[i] = Job(Len(Tail(todo)) + 1 - i)
<1>1. todo \in Seq(Request) /\ todo # <<>>
  BY DEF TypeOK, Jobs, Asking
<1>2. /\ Len(todo) \in Nat \ {0} /\ Head(todo) = todo[1] /\ Head(todo) \in Request
      /\ Tail(todo) \in Seq(Request) /\ Len(Tail(todo)) = Len(todo) - 1
      /\ \A i \in 1..Len(Tail(todo)) : i + 1 \in 1..Len(todo) /\ Tail(todo)[i] = todo[i + 1]
  BY <1>1, Taken
<1>3. \A i \in 1..Len(todo) : todo[i] = Job(Len(todo) + 1 - i)
  BY DEF Jobs
<1>4. todo[1] = Job(Len(todo))
  <2>1. 1 \in 1..Len(todo) /\ Len(todo) + 1 - 1 = Len(todo)
    BY <1>2
  <2>2. QED
    BY <1>3, <2>1
<1>5. ASSUME NEW i \in 1..Len(Tail(todo))
      PROVE  Tail(todo)[i] = Job(Len(Tail(todo)) + 1 - i)
  <2>1. todo[i + 1] = Job(Len(todo) + 1 - (i + 1))
    BY <1>2, <1>3, <1>5
  <2>2. Len(todo) + 1 - (i + 1) = Len(Tail(todo)) + 1 - i
    <3> DEFINE n == Len(todo)
               m == Len(Tail(todo))
    <3>1. n \in Nat \ {0} /\ m = n - 1 /\ i \in 1..m
      BY <1>2, <1>5
    <3> HIDE DEF n, m
    <3>2. n + 1 - (i + 1) = m + 1 - i
      BY <3>1
    <3>3. QED
      BY <3>2 DEF n, m
  <2>3. QED
    BY <1>2, <1>5, <2>1, <2>2
<1>6. QED
  BY <1>1, <1>2, <1>4, <1>5

\* The requests of an attempt, from its beginning to its end.
LEMMA ProgramJobs ==
  ASSUME tool \in {"activate", "enterRecovery"}
  PROVE  /\ Program \in Seq(Request) /\ Len(Program) \in 4..6
         /\ \A i \in 1..Len(Program) :
              Program[i] = JobOf(tool, record = NoRecord, Len(Program) + 1 - i)
<1>1. CASE tool = "activate" /\ record = NoRecord
  <2>1. Program \in Seq(Request) /\ Len(Program) = 5
    BY <1>1 DEF Program, Paired, Request
  <2>2. /\ Program[1] = "SetValue" /\ Program[2] = "GetValue"
        /\ Program[3] = "Pair" /\ Program[4] = "StartSession"
        /\ Program[5] = "SetValue"
    BY <1>1 DEF Program, Paired
  <2>3. \A i \in 1..Len(Program) :
          Program[i] = JobOf(tool, record = NoRecord, Len(Program) + 1 - i)
    BY <1>1, <2>1, <2>2 DEF JobOf
  <2>4. QED
    BY <2>1, <2>3
<1>2. CASE tool = "activate" /\ record # NoRecord
  <2>1. Program \in Seq(Request) /\ Len(Program) = 4
    BY <1>2 DEF Program, Paired, Request
  <2>2. /\ Program[1] = "SetValue" /\ Program[2] = "GetValue"
        /\ Program[3] = "StartSession" /\ Program[4] = "SetValue"
    BY <1>2 DEF Program, Paired
  <2>3. \A i \in 1..Len(Program) :
          Program[i] = JobOf(tool, record = NoRecord, Len(Program) + 1 - i)
    BY <1>2, <2>1, <2>2 DEF JobOf
  <2>4. QED
    BY <2>1, <2>3
<1>3. CASE tool = "enterRecovery" /\ record = NoRecord
  <2>1. Program \in Seq(Request) /\ Len(Program) = 6
    BY <1>3 DEF Program, Paired, Request
  <2>2. /\ Program[1] = "GetValue" /\ Program[2] = "GetValue"
        /\ Program[3] = "GetValue" /\ Program[4] = "Pair"
        /\ Program[5] = "StartSession" /\ Program[6] = "EnterRecovery"
    BY <1>3 DEF Program, Paired
  <2>3. \A i \in 1..Len(Program) :
          Program[i] = JobOf(tool, record = NoRecord, Len(Program) + 1 - i)
    BY <1>3, <2>1, <2>2 DEF JobOf
  <2>4. QED
    BY <2>1, <2>3
<1>4. CASE tool = "enterRecovery" /\ record # NoRecord
  <2>1. Program \in Seq(Request) /\ Len(Program) = 5
    BY <1>4 DEF Program, Paired, Request
  <2>2. /\ Program[1] = "GetValue" /\ Program[2] = "GetValue"
        /\ Program[3] = "GetValue" /\ Program[4] = "StartSession"
        /\ Program[5] = "EnterRecovery"
    BY <1>4 DEF Program, Paired
  <2>3. \A i \in 1..Len(Program) :
          Program[i] = JobOf(tool, record = NoRecord, Len(Program) + 1 - i)
    BY <1>4, <2>1, <2>2 DEF JobOf
  <2>4. QED
    BY <2>1, <2>3
<1>5. QED
  BY <1>1, <1>2, <1>3, <1>4
-----------------------------------------------------------------------------
(* What every step leaves sound.                                           *)

\* The tool has not opened a connection yet.
LEMMA InitialSound == Init => Sound
<1> SUFFICES ASSUME Init PROVE Sound
  OBVIOUS
<1>1. /\ <<>> \in Seq(Request) /\ <<>> \in Seq(Request \X Nat) /\ <<>> \in Seq(Reply)
      /\ Len(<<>>) = 0
  BY EmptySeq
<1>2. Attempts[tool] \in Nat \ {0} /\ MaxFaults \in Nat
  BY AttemptsAssumption, FaultsAssumption DEF Init
<1>3. /\ 1 \in 1..Attempts[tool] /\ 0 \in 0..MaxFaults
      /\ NoRecord \in 0..(Attempts[tool] + 1) /\ 1 \in 0..(Attempts[tool] + 1)
      /\ 1 \in 1..(Attempts[tool] + 1)
  BY <1>2 DEF NoRecord
<1>4. trusted \subseteq 1..(Attempts[tool] + 1)
  <2>1. trusted = {} \/ trusted = {1}
    BY DEF Init
  <2>2. QED
    BY <1>3, <2>1
<1>5. TypeOK
  <2>1. record \in 0..(Attempts[tool] + 1) /\ attempt \in 1..Attempts[tool]
    BY <1>3 DEF Init
  <2>2. QED
    BY <1>1, <1>3, <1>4, <2>1 DEF Init, TypeOK
<1>6. Jobs /\ Closed /\ OwnPairs
  BY <1>1 DEF Init, Jobs, Asking, Closed, OwnPairs
<1>7. QED
  BY <1>5, <1>6 DEF Sound

\* A new connection has the whole program before it.
LEMMA OpenSound == Sound /\ Open => Sound'
<1> SUFFICES ASSUME Sound, Open PROVE Sound'
  OBVIOUS
<1>1. /\ <<>> \in Seq(Request \X Nat) /\ <<>> \in Seq(Reply) /\ Len(<<>>) = 0
  BY EmptySeq
<1>2. /\ pc' = "ask" /\ todo' = Program /\ needsPair' = (record = NoRecord)
      /\ usb' \in BOOLEAN /\ inbox' = <<>> /\ replies' = <<>> /\ late' = FALSE
      /\ session' = FALSE
      /\ UNCHANGED <<tool, attempt, record, open, trusted, connected, left, faults>>
  BY DEF Open
<1>3. /\ Program \in Seq(Request) /\ Len(Program) \in 4..6
      /\ \A i \in 1..Len(Program) :
           Program[i] = JobOf(tool, record = NoRecord, Len(Program) + 1 - i)
  BY ProgramJobs DEF Sound, TypeOK
<1>4. Program # <<>>
  <2>1. Len(Program) \in 4..6
    BY <1>3, Zenon
  <2>2. Len(Program) # 0
    BY <2>1
  <2>3. QED
    BY <1>1, <2>2, Zenon
<1>5. TypeOK'
  <2>1. needsPair' \in BOOLEAN /\ late' \in BOOLEAN /\ session' \in BOOLEAN
    BY <1>2, Zenon
  <2>2. /\ UNCHANGED <<tool, attempt, record, open, trusted, connected, left, faults>>
        /\ pc' = "ask" /\ todo' \in Seq(Request) /\ todo' # <<>> /\ usb' \in BOOLEAN
        /\ inbox' \in Seq(Request \X Nat) /\ replies' \in Seq(Reply)
    BY <1>1, <1>2, <1>3, <1>4, Zenon
  <2>3. QED
    BY <2>1, <2>2 DEF Sound, TypeOK
<1>6. Jobs'
  <2>1. \A i \in 1..Len(todo') : todo'[i] = JobOf(tool', needsPair', Len(todo') + 1 - i)
    BY <1>2, <1>3, Zenon
  <2>2. todo' # <<>>
    BY <1>2, <1>4
  <2>3. QED
    BY <2>1, <2>2 DEF Jobs, Job
<1>7. Closed' /\ OwnPairs'
  BY <1>1, <1>2 DEF Closed, OwnPairs
<1>8. QED
  BY <1>5, <1>6, <1>7 DEF Sound

\* A connection given up leaves nothing behind.
LEMMA GiveUpSound ==
  ASSUME Sound, GiveUp, tool' = tool, usb' = usb, late' \in BOOLEAN,
         UNCHANGED <<open, trusted, session, connected, left>>,
         record' \in {record, NoRecord}, faults' \in 0..MaxFaults
  PROVE  Sound'
<1>1. /\ <<>> \in Seq(Request) /\ <<>> \in Seq(Request \X Nat) /\ <<>> \in Seq(Reply)
      /\ Len(<<>>) = 0
  BY EmptySeq
<1>2. /\ todo' = <<>> /\ needsPair' = FALSE /\ inbox' = <<>> /\ replies' = <<>>
      /\ \/ attempt = Attempts[tool] /\ pc' = "failed" /\ attempt' = attempt
         \/ attempt # Attempts[tool] /\ pc' = "open" /\ attempt' = attempt + 1
  BY DEF GiveUp, LastAttempt
<1>3. attempt' \in 1..Attempts[tool] /\ pc' \in {"open", "failed"}
  <2> DEFINE n == Attempts[tool]
  <2>1. n \in Nat /\ attempt \in Nat /\ 1 <= attempt /\ attempt <= n
    BY Numbers DEF Sound
  <2>2. (attempt = n /\ attempt' = attempt) \/ (attempt # n /\ attempt' = attempt + 1)
    BY <1>2
  <2> HIDE DEF n
  <2>3. attempt' \in 1..n
    BY <2>1, <2>2
  <2>4. QED
    BY <1>2, <2>3 DEF n
<1>4. record' \in 0..(Attempts[tool] + 1)
  <2>1. record \in 0..(Attempts[tool] + 1)
    BY DEF Sound, TypeOK
  <2>2. NoRecord \in 0..(Attempts[tool] + 1)
    BY Numbers DEF Sound, NoRecord
  <2>3. QED
    BY <2>1, <2>2
<1>5. TypeOK'
  BY <1>1, <1>2, <1>3, <1>4 DEF Sound, TypeOK
<1>6. Jobs' /\ Closed' /\ OwnPairs'
  BY <1>1, <1>2, <1>3 DEF Jobs, Asking, Closed, OwnPairs
<1>7. QED
  BY <1>5, <1>6 DEF Sound

\* A fault is counted up to the bound.
LEMMA FaultCounted == TypeOK /\ Fault => faults' = faults + 1 /\ faults' \in 0..MaxFaults
BY FaultsAssumption DEF TypeOK, Fault

\* The request that is sent to pair has the host ID of this attempt.
LEMMA SendSound == Sound /\ Send => Sound'
<1> SUFFICES ASSUME Sound, Send PROVE Sound'
  OBVIOUS
<1>1. /\ pc = "ask" /\ pc' = "wait" /\ inbox' = Append(inbox, Sent)
      /\ UNCHANGED <<tool, attempt, todo, needsPair, record, usb, replies, late,
                     open, trusted, session, connected, left, faults>>
  BY DEF Send, Sent, phone
<1>2. Sent \in Request \X Nat
  BY <1>1, Turn, Numbers DEF Sound, Sent, Asking
<1>3. /\ inbox' \in Seq(Request \X Nat) /\ Len(inbox') = Len(inbox) + 1
      /\ \A i \in 1..Len(inbox) : inbox'[i] = inbox[i]
      /\ inbox'[Len(inbox) + 1] = Sent
  BY <1>1, <1>2, AppendProperties DEF Sound, TypeOK
<1>4. TypeOK'
  BY <1>1, <1>3 DEF Sound, TypeOK
<1>5. Jobs' /\ Closed'
  BY <1>1 DEF Sound, Jobs, Asking, Closed, Job
<1>6. OwnPairs'
  <2> SUFFICES ASSUME NEW i \in 1..Len(inbox'), inbox'[i][1] = "Pair"
               PROVE  inbox'[i][2] = NewId
    BY <1>1 DEF OwnPairs, NewId
  <2>1. CASE i \in 1..Len(inbox)
    BY <1>3, <2>1 DEF Sound, OwnPairs
  <2>2. CASE i = Len(inbox) + 1
    BY <1>3, <2>2 DEF Sent
  <2>3. i \in 1..Len(inbox) \/ i = Len(inbox) + 1
    BY <1>3, Numbers DEF Sound
  <2>4. QED
    BY <2>1, <2>2, <2>3
<1>7. QED
  BY <1>4, <1>5, <1>6 DEF Sound
\* Which request it is follows from how many are left.
LEMMA TurnOf ==
  ASSUME TypeOK, Jobs, Asking
  PROVE  /\ Head(todo) = "Pair" <=> Len(todo) = 3 /\ needsPair
         /\ Head(todo) = "StartSession" <=> Len(todo) = 2
         /\ Head(todo) \in {"SetValue", "EnterRecovery"} => Head(todo) = Final
         /\ Len(todo) = 1 => Head(todo) = Final
         /\ Optional => Len(todo) >= 3 /\ (needsPair => Len(todo) >= 4)
         /\ ~Optional => Len(todo) = 1 \/ Len(todo) = 2 \/ (Len(todo) = 3 /\ needsPair)
<1> DEFINE m == Len(todo)
           h == Head(todo)
<1>1. m \in Nat /\ m >= 1 /\ h = JobOf(tool, needsPair, m)
  BY Turn, Numbers DEF Job
<1>2. tool \in {"activate", "enterRecovery"} /\ needsPair \in BOOLEAN
  BY DEF TypeOK
<1>3. Optional <=> h = "GetValue" \/ (h = "SetValue" /\ m > 1)
  BY DEF Optional
<1> HIDE DEF m, h
<1>4. \/ m = 1 /\ h = Final
      \/ m = 2 /\ h = "StartSession"
      \/ m = 3 /\ needsPair /\ h = "Pair"
      \/ m >= 3 /\ (needsPair => m >= 4) /\ h = "SetValue" /\ h = Final
      \/ m >= 3 /\ (needsPair => m >= 4) /\ h = "GetValue"
  <2>1. CASE needsPair
    BY <1>1, <1>2, <2>1 DEF JobOf, Final
  <2>2. CASE ~needsPair
    BY <1>1, <1>2, <2>2 DEF JobOf, Final
  <2>3. QED
    BY <2>1, <2>2
<1>5. Final \in {"SetValue", "EnterRecovery"}
  BY DEF Final
<1>6. /\ h = "Pair" <=> m = 3 /\ needsPair
      /\ h = "StartSession" <=> m = 2
      /\ h \in {"SetValue", "EnterRecovery"} => h = Final
      /\ m = 1 => h = Final
      /\ Optional => m >= 3 /\ (needsPair => m >= 4)
      /\ ~Optional => m = 1 \/ m = 2 \/ (m = 3 /\ needsPair)
  BY <1>1, <1>3, <1>4, <1>5
<1>7. QED
  BY <1>6 DEF m, h

\* What is left when a request is done with is what follows it.
LEMMA Onward ==
  ASSUME Sound, Asking, Len(todo) # 1, todo' = Tail(todo), pc' = "ask",
         tool' = tool, needsPair' = needsPair
  PROVE  /\ todo' \in Seq(Request) /\ todo' # <<>> /\ Len(todo') = Len(todo) - 1
         /\ Jobs'
<1>1. /\ Len(todo) >= 1 /\ Tail(todo) \in Seq(Request) /\ Len(Tail(todo)) = Len(todo) - 1
      /\ \A i \in 1..Len(Tail(todo)) : Tail(todo)[i] = Job(Len(Tail(todo)) + 1 - i)
  BY Turn DEF Sound
<1>2. Len(todo') # 0
  <2>1. Len(todo) \in Nat /\ Len(todo) >= 1 /\ Len(todo') = Len(todo) - 1
    BY <1>1, Numbers DEF Sound
  <2>2. QED
    BY <2>1
<1>3. todo' # <<>>
  <2>1. Len(<<>>) = 0
    BY EmptySeq
  <2>2. QED
    BY <1>2, <2>1, Zenon
<1>4. Jobs'
  <2>1. \A i \in 1..Len(todo') : todo'[i] = JobOf(tool', needsPair', Len(todo') + 1 - i)
    BY <1>1, Zenon DEF Job
  <2>2. QED
    BY <1>3, <2>1 DEF Jobs, Job
<1>5. QED
  BY <1>1, <1>3, <1>4

\* An answer is taken, and the tool goes on or is done.
LEMMA SucceedsSound == Sound /\ Succeeds => Sound'
<1> SUFFICES ASSUME Sound, Succeeds PROVE Sound'
  OBVIOUS
<1>1. /\ pc = "wait" /\ replies # <<>> /\ replies' = Tail(replies)
      /\ record' \in {NewId, record}
      /\ \/ pc' = "done" /\ todo' = <<>>
         \/ Len(todo) # 1 /\ pc' = "ask" /\ todo' = Tail(todo)
      /\ UNCHANGED <<tool, attempt, needsPair, usb, inbox, late, open, trusted, session,
                     connected, left, faults>>
  BY DEF Succeeds, Proceed, phone
<1>2. Asking
  BY <1>1 DEF Asking
<1>3. replies' \in Seq(Reply)
  BY <1>1, Taken DEF Sound, TypeOK
<1>4. record' \in 0..(Attempts[tool] + 1)
  BY <1>1, Numbers DEF Sound, TypeOK
<1>5. Closed' /\ OwnPairs'
  BY <1>1 DEF Sound, Closed, OwnPairs, NewId
<1>6. CASE pc' = "done" /\ todo' = <<>>
  <2>1. todo' \in Seq(Request)
    BY <1>6, EmptySeq
  <2>2. TypeOK'
    BY <1>1, <1>3, <1>4, <1>6, <2>1 DEF Sound, TypeOK
  <2>3. Jobs'
    BY <1>6 DEF Jobs, Asking
  <2>4. QED
    BY <1>5, <2>2, <2>3 DEF Sound
<1>7. CASE Len(todo) # 1 /\ pc' = "ask" /\ todo' = Tail(todo)
  <2>1. todo' \in Seq(Request) /\ todo' # <<>> /\ Jobs'
    BY <1>1, <1>2, <1>7, Onward
  <2>2. TypeOK'
    BY <1>1, <1>3, <1>4, <1>7, <2>1 DEF Sound, TypeOK
  <2>3. QED
    BY <1>5, <2>1, <2>2 DEF Sound
<1>8. QED
  BY <1>1, <1>6, <1>7

\* A refusal ends the attempt.
LEMMA RefusedSound == Sound /\ Refused => Sound'
<1> SUFFICES ASSUME Sound, Refused PROVE Sound'
  OBVIOUS
<1>1. /\ GiveUp /\ record' \in {record, NoRecord}
      /\ UNCHANGED <<tool, usb, late, open, trusted, session, connected, left, faults>>
  BY DEF Refused, phone
<1>2. late' \in BOOLEAN /\ faults' \in 0..MaxFaults
  BY <1>1 DEF Sound, TypeOK
<1>3. QED
  BY <1>1, <1>2, GiveUpSound

\* So does a connection that fails or is lost.
LEMMA FailureSound == Sound /\ (OpenFails \/ Dropped) => Sound'
<1> SUFFICES ASSUME Sound, OpenFails \/ Dropped PROVE Sound'
  OBVIOUS
<1>1. /\ GiveUp /\ (faults' = faults \/ Fault)
      /\ UNCHANGED <<tool, record, usb, late, open, trusted, session, connected, left>>
  BY DEF OpenFails, Dropped, phone
<1>2. late' \in BOOLEAN
  BY <1>1 DEF Sound, TypeOK
<1>3. faults' \in 0..MaxFaults
  BY <1>1, FaultCounted DEF Sound, TypeOK
<1>4. QED
  BY <1>1, <1>2, <1>3, GiveUpSound

\* The tool does without an answer, or gives up.
LEMMA TimesOutSound == Sound /\ TimesOut => Sound'
<1> SUFFICES ASSUME Sound, TimesOut PROVE Sound'
  OBVIOUS
<1>1. /\ pc = "wait" /\ Fault /\ late' = TRUE
      /\ UNCHANGED <<tool, record, usb, open, trusted, session, connected, left>>
  BY DEF TimesOut, phone
<1>2. faults' \in 0..MaxFaults
  BY <1>1, FaultCounted DEF Sound
<1>3. CASE Optional
  <2>1. /\ pc' = "ask" /\ todo' = Tail(todo)
        /\ UNCHANGED <<attempt, needsPair, inbox, replies>>
    BY <1>3 DEF TimesOut
  <2>2. Asking /\ Len(todo) # 1
    <3>1. Asking
      BY <1>1 DEF Asking
    <3>2. Len(todo) >= 3 /\ Len(todo) \in Nat
      BY <1>3, <3>1, TurnOf, Numbers DEF Sound
    <3>3. QED
      BY <3>1, <3>2
  <2>3. todo' \in Seq(Request) /\ todo' # <<>> /\ Jobs'
    BY <1>1, <2>1, <2>2, Onward
  <2>4. TypeOK'
    BY <1>1, <1>2, <2>1, <2>3 DEF Sound, TypeOK
  <2>5. Closed' /\ OwnPairs'
    BY <1>1, <2>1 DEF Sound, Closed, OwnPairs, NewId
  <2>6. QED
    BY <2>3, <2>4, <2>5 DEF Sound
<1>4. CASE ~Optional
  <2>1. GiveUp
    BY <1>4 DEF TimesOut
  <2>2. QED
    BY <1>1, <1>2, <2>1, GiveUpSound
<1>5. QED
  BY <1>3, <1>4
-----------------------------------------------------------------------------
(* lockdownd.                                                              *)

\* What the answer r to a request of kind k and host ID i does and means.
Means(k, i, r) ==
  /\ \/ replies' = Append(replies, [to |-> k, result |-> r])
     \/ replies' = replies /\ k = "EnterRecovery" /\ left'
  /\ k = "SetValue" => (session => r = "Success") /\ (r = "Success" => connected')
  /\ k = "Pair" => r = "Success" /\ trusted' = trusted \cup {i}
  /\ k = "StartSession" => IF i \in trusted THEN session' /\ r = "Success"
                           ELSE ~session' /\ r = "InvalidHostID"
  /\ k = "EnterRecovery" => (session => left') /\ (r = "Success" => left')
  /\ k # "Pair" => trusted' = trusted
  /\ k # "StartSession" => session' = session
  /\ k # "EnterRecovery" => left' = left
  /\ k # "SetValue" => connected' = connected
  /\ connected => connected'

\* The types of what the phone changes.
Answered ==
  /\ replies' \in Seq(Reply) /\ connected' \in BOOLEAN /\ session' \in BOOLEAN
  /\ left' \in BOOLEAN

Results == {"Success", "InvalidHostID", "Error"}

\* An answer is added to the others.
LEMMA AnswerType ==
  ASSUME TypeOK, NEW k \in Request, NEW r \in Results
  PROVE  Append(replies, [to |-> k, result |-> r]) \in Seq(Reply)
<1>1. [to |-> k, result |-> r] \in Reply
  BY DEF Reply, Results
<1>2. QED
  BY <1>1, AppendProperties DEF TypeOK

\* Every step of the phone answers the first request of the inbox.
LEMMA Served ==
  ASSUME TypeOK, Serve
  PROVE  \E k \in Request, i \in Nat, r \in Results :
           inbox # <<>> /\ inbox[1] = <<k, i>> /\ Means(k, i, r) /\ Answered
<1>1. inbox # <<>> /\ inbox \in Seq(Request \X Nat)
  BY DEF TypeOK, Serve
<1>2. Head(inbox) = inbox[1] /\ Head(inbox) \in Request \X Nat
  BY <1>1, Taken
<1>3. PICK k \in Request, i \in Nat : inbox[1] = <<k, i>>
  BY <1>2
<1>4. Head(inbox)[1] = k /\ Head(inbox)[2] = i
  BY <1>2, <1>3
<1>5. /\ replies \in Seq(Reply) /\ connected \in BOOLEAN /\ session \in BOOLEAN
      /\ left \in BOOLEAN /\ ~left
  BY DEF TypeOK, Serve
<1>6. \A r \in Results : Append(replies, [to |-> k, result |-> r]) \in Seq(Reply)
  BY AnswerType
<1> SUFFICES \E r \in Results : Means(k, i, r) /\ Answered
  BY <1>1, <1>3
<1>7. CASE OnSetValue
  <2>1. k = "SetValue" /\ UNCHANGED <<trusted, session, left>>
    BY <1>4, <1>7 DEF OnSetValue
  <2>2. CASE open \/ session
    <3>1. replies' = Append(replies, [to |-> k, result |-> "Success"]) /\ connected' = TRUE
      BY <1>4, <1>7, <2>2 DEF OnSetValue, Answers
    <3>2. Means(k, i, "Success") /\ Answered
      BY <1>5, <1>6, <2>1, <3>1 DEF Means, Answered, Results
    <3>3. QED
      BY <3>2 DEF Results
  <2>3. CASE ~(open \/ session)
    <3>1. replies' = Append(replies, [to |-> k, result |-> "Error"]) /\ connected' = connected
      BY <1>4, <1>7, <2>3 DEF OnSetValue, Answers
    <3>2. Means(k, i, "Error") /\ Answered
      BY <1>5, <1>6, <2>1, <2>3, <3>1 DEF Means, Answered, Results
    <3>3. QED
      BY <3>2 DEF Results
  <2>4. QED
    BY <2>2, <2>3
<1>8. CASE OnGetValue
  <2>1. k = "GetValue" /\ UNCHANGED <<trusted, session, connected, left>>
    BY <1>4, <1>8 DEF OnGetValue
  <2>2. PICK r \in Results : replies' = Append(replies, [to |-> k, result |-> r])
    BY <1>4, <1>8 DEF OnGetValue, Answers, Results
  <2>3. Means(k, i, r) /\ Answered
    BY <1>5, <1>6, <2>1, <2>2 DEF Means, Answered
  <2>4. QED
    BY <2>3
<1>9. CASE OnPair
  <2>1. /\ k = "Pair" /\ UNCHANGED <<session, connected, left>>
        /\ trusted' = trusted \cup {i}
        /\ replies' = Append(replies, [to |-> k, result |-> "Success"])
    BY <1>4, <1>9 DEF OnPair, Answers
  <2>2. Means(k, i, "Success") /\ Answered
    BY <1>5, <1>6, <2>1 DEF Means, Answered, Results
  <2>3. QED
    BY <2>2 DEF Results
<1>10. CASE OnStartSession
  <2>1. k = "StartSession" /\ UNCHANGED <<trusted, connected, left>> /\ session' = (i \in trusted)
    BY <1>4, <1>10 DEF OnStartSession
  <2>2. CASE i \in trusted
    <3>1. session' = TRUE
      BY <2>1, <2>2
    <3>2. replies' = Append(replies, [to |-> k, result |-> "Success"])
      BY <1>4, <1>10, <3>1 DEF OnStartSession, Answers
    <3>3. Means(k, i, "Success") /\ Answered
      BY <1>5, <1>6, <2>1, <2>2, <3>1, <3>2 DEF Means, Answered, Results
    <3>4. QED
      BY <3>3 DEF Results
  <2>3. CASE i \notin trusted
    <3>1. session' = FALSE
      <4>1. (i \in trusted) = FALSE
        BY <2>3
      <4>2. QED
        BY <2>1, <4>1, Zenon
    <3>2. replies' = Append(replies, [to |-> k, result |-> "InvalidHostID"])
      BY <1>4, <1>10, <3>1 DEF OnStartSession, Answers
    <3>3. Means(k, i, "InvalidHostID") /\ Answered
      BY <1>5, <1>6, <2>1, <2>3, <3>1, <3>2 DEF Means, Answered, Results
    <3>4. QED
      BY <3>3 DEF Results
  <2>4. QED
    BY <2>2, <2>3
<1>11. CASE OnEnterRecovery
  <2>1. k = "EnterRecovery" /\ left' = session /\ UNCHANGED <<trusted, session, connected>>
    BY <1>4, <1>11 DEF OnEnterRecovery
  <2>2. CASE session
    <3>1. replies' = Append(replies, [to |-> k, result |-> "Success"]) \/ replies' = replies
      BY <1>4, <1>11, <2>2 DEF OnEnterRecovery, Answers
    <3>2. Means(k, i, "Success") /\ Answered
      BY <1>5, <1>6, <2>1, <2>2, <3>1 DEF Means, Answered, Results
    <3>3. QED
      BY <3>2 DEF Results
  <2>3. CASE ~session
    <3>1. replies' = Append(replies, [to |-> k, result |-> "Error"])
      BY <1>4, <1>11, <2>3 DEF OnEnterRecovery, Answers
    <3>2. Means(k, i, "Error") /\ Answered
      BY <1>5, <1>6, <2>1, <2>3, <3>1 DEF Means, Answered, Results
    <3>3. QED
      BY <3>2 DEF Results
  <2>4. QED
    BY <2>2, <2>3
<1>12. QED
  BY <1>7, <1>8, <1>9, <1>10, <1>11 DEF Serve

\* What an answered request leaves in the inbox.
LEMMA Rest ==
  ASSUME TypeOK, Serve
  PROVE  /\ inbox # <<>> /\ inbox' \in Seq(Request \X Nat) /\ Len(inbox') = Len(inbox) - 1
         /\ \A i \in 1..Len(inbox') : i + 1 \in 1..Len(inbox) /\ inbox'[i] = inbox[i + 1]
         /\ ~left
         /\ UNCHANGED <<tool, attempt, pc, todo, needsPair, record, usb, late, open, faults>>
<1>1. /\ inbox # <<>> /\ inbox' = Tail(inbox) /\ ~left
      /\ UNCHANGED <<tool, attempt, pc, todo, needsPair, record, usb, late, open, faults>>
  BY DEF Serve, host
<1>2. inbox \in Seq(Request \X Nat)
  BY DEF TypeOK
<1>3. /\ inbox' \in Seq(Request \X Nat) /\ Len(inbox') = Len(inbox) - 1
      /\ \A i \in 1..Len(inbox') : i + 1 \in 1..Len(inbox) /\ inbox'[i] = inbox[i + 1]
  BY <1>1, <1>2, Taken
<1>4. QED
  BY <1>1, <1>3

\* The phone trusts no host ID but that of this attempt or one before.
LEMMA ServeSound == Sound /\ Serve => Sound'
<1> SUFFICES ASSUME Sound, Serve PROVE Sound'
  OBVIOUS
<1>1. /\ inbox # <<>> /\ inbox' \in Seq(Request \X Nat) /\ Len(inbox') = Len(inbox) - 1
      /\ \A i \in 1..Len(inbox') : i + 1 \in 1..Len(inbox) /\ inbox'[i] = inbox[i + 1]
      /\ ~left
      /\ UNCHANGED <<tool, attempt, pc, todo, needsPair, record, usb, late, open, faults>>
  BY Rest DEF Sound
<1>2. PICK k \in Request, i \in Nat, r \in Results :
        inbox # <<>> /\ inbox[1] = <<k, i>> /\ Means(k, i, r) /\ Answered
  BY Served DEF Sound
<1>3. trusted' \subseteq 1..(Attempts[tool] + 1)
  <2>1. trusted \subseteq 1..(Attempts[tool] + 1)
    BY DEF Sound, TypeOK
  <2>2. CASE k # "Pair"
    BY <1>2, <2>1, <2>2 DEF Means
  <2>3. CASE k = "Pair"
    <3>1. 1 \in 1..Len(inbox)
      BY <1>1, EmptySeq DEF Sound, TypeOK
    <3>2. i = NewId
      BY <1>2, <2>3, <3>1 DEF Sound, OwnPairs
    <3>3. i \in 1..(Attempts[tool] + 1)
      BY <3>2, Numbers DEF Sound
    <3>4. trusted' = trusted \cup {i}
      BY <1>2, <2>3 DEF Means
    <3>5. QED
      BY <2>1, <3>3, <3>4
  <2>4. QED
    BY <2>2, <2>3
<1>4. TypeOK'
  <2>1. replies' \in Seq(Reply) /\ connected' \in BOOLEAN /\ session' \in BOOLEAN
        /\ left' \in BOOLEAN
    BY <1>2 DEF Answered
  <2>2. QED
    BY <1>1, <1>3, <2>1 DEF Sound, TypeOK
<1>5. Jobs'
  BY <1>1 DEF Sound, Jobs, Asking, Job
<1>6. Closed'
  BY <1>1 DEF Sound, Closed
<1>7. OwnPairs'
  BY <1>1 DEF Sound, OwnPairs, NewId
<1>8. QED
  BY <1>4, <1>5, <1>6, <1>7 DEF Sound
-----------------------------------------------------------------------------
(* What the host does on the way.                                          *)

\* A tool that is started has all its attempts, and at worst a bad record.
LEMMA InitialWay == Init => Goal \/ OnTheWay
<1> SUFFICES ASSUME Init, ~Goal PROVE OnTheWay
  OBVIOUS
<1>1. /\ pc = "open" /\ attempt = 1 /\ needsPair = FALSE /\ inbox = <<>> /\ replies = <<>>
      /\ left = FALSE /\ faults = 0 /\ Len(<<>>) = 0
  BY EmptySeq DEF Init
<1>2. Bad \in {0, 1}
  BY DEF Bad
<1>3. Records /\ PairSent /\ Newest /\ InTurn /\ Behind
  BY <1>1 DEF Records, PairSent, Newest, InTurn, Behind, Asking
<1>4. Honest
  BY <1>1 DEF Honest
<1>5. Budget
  BY <1>1, <1>2 DEF Budget, Asking
<1>6. QED
  BY <1>1, <1>3, <1>4, <1>5 DEF OnTheWay

\* A record that is not on the phone and was made in this attempt is still to be paired
\* with: the request is in the inbox, before the one that is waited for.
LEMMA OwnRecordUnknown ==
  ASSUME Sound, OnTheWay, Asking, needsPair, record # NoRecord, record \notin trusted
  PROVE  Len(inbox) >= 1 + Awaited
<1>1. Len(todo) <= 2 /\ record = NewId
  BY Numbers DEF Sound, OnTheWay, Records
<1>2. PICK i \in 1..Len(inbox) : inbox[i][1] = "Pair"
  BY <1>1 DEF OnTheWay, PairSent
<1>3. Len(inbox) \in Nat /\ Len(inbox) >= 1
  BY Numbers DEF Sound
<1>4. ASSUME pc = "wait" PROVE i # Len(inbox)
  <2>1. inbox # <<>>
    BY <1>3, EmptySeq
  <2>2. inbox[Len(inbox)][1] = Head(todo)
    BY <1>4, <2>1 DEF OnTheWay, Newest
  <2>3. Head(todo) # "Pair"
    BY <1>1, TurnOf DEF Sound
  <2>4. QED
    BY <1>2, <2>2, <2>3
<1>5. QED
  BY <1>3, <1>4 DEF Awaited

\* An attempt that is given up must have been paid for.
LEMMA GiveUpWay ==
  ASSUME Sound, OnTheWay, GiveUp, tool' = tool, left' = left, faults' \in Nat,
         attempt <= 1 + faults',
         record' # NoRecord /\ record' \notin trusted' => attempt + 1 <= 1 + faults'
  PROVE  OnTheWay'
<1>1. /\ needsPair' = FALSE /\ inbox' = <<>> /\ replies' = <<>>
      /\ \/ attempt = Attempts[tool] /\ pc' = "failed" /\ attempt' = attempt
         \/ pc' = "open" /\ attempt' = attempt + 1
  BY DEF GiveUp, LastAttempt
<1>2. pc' # "done" /\ ~left'
  BY <1>1 DEF OnTheWay
<1>3. Records' /\ PairSent' /\ Newest' /\ InTurn' /\ Behind'
  BY <1>1 DEF Records, PairSent, Newest, InTurn, Behind, Asking
<1>4. Honest'
  <2>1. Len(<<>>) = 0
    BY EmptySeq
  <2>2. QED
    BY <1>1, <2>1 DEF Honest
<1>5. Budget'
  <2>1. Bad' = IF record' # NoRecord /\ record' \notin trusted' THEN 1 ELSE 0
    BY <1>1 DEF Bad
  <2>2. attempt \in Nat
    BY Numbers DEF Sound
  <2>3. CASE attempt = Attempts[tool] /\ pc' = "failed" /\ attempt' = attempt
    BY <2>3 DEF Budget, Asking
  <2>4. CASE pc' = "open" /\ attempt' = attempt + 1
    <3> DEFINE b == Bad'
               f == faults'
    <3>1. b \in {0, 1} /\ f \in Nat
      BY <2>1
    <3>2. attempt <= 1 + f
      OBVIOUS
    <3>3. b = 1 => attempt + 1 <= 1 + f
      BY <2>1
    <3> HIDE DEF b, f
    <3>4. attempt + 1 + b <= 2 + f
      BY <2>2, <3>1, <3>2, <3>3
    <3>5. attempt' + Bad' <= 2 + faults'
      BY <2>4, <3>4 DEF b, f
    <3>6. QED
      BY <2>4, <3>5 DEF Budget, Asking
  <2>5. QED
    BY <1>1, <2>3, <2>4
<1>6. QED
  BY <1>2, <1>3, <1>4, <1>5 DEF OnTheWay

\* The connection is new, and so is what is asked of the phone.
LEMMA OpenWay ==
  ASSUME Sound, OnTheWay, Open, Sound'
  PROVE  OnTheWay'
<1>1. /\ pc = "open" /\ pc' = "ask" /\ todo' = Program /\ needsPair' = (record = NoRecord)
      /\ inbox' = <<>> /\ replies' = <<>> /\ late' = FALSE
      /\ UNCHANGED <<tool, attempt, record, trusted, left, faults>> /\ Len(<<>>) = 0
  BY EmptySeq DEF Open
<1>2. Len(todo') \in 4..6
  <2>1. Len(Program) \in 4..6
    BY ProgramJobs, Zenon DEF Sound, TypeOK
  <2>2. QED
    BY <1>1, <2>1
<1>3. needsPair = FALSE
  BY <1>1 DEF Sound, TypeOK, Closed
<1>4. needsPair' => record = NoRecord
  BY <1>1
<1>5. ~needsPair' => record # NoRecord
  BY <1>1
<1>6. Records' /\ PairSent'
  BY <1>1, <1>2, <1>4, <1>5 DEF Records, PairSent, Asking
<1>7. Newest' /\ InTurn' /\ Behind' /\ Honest'
  <2>1. Newest' /\ Honest'
    BY <1>1 DEF Newest, Honest
  <2>2. InTurn'
    BY <1>1, <1>2 DEF InTurn, Asking
  <2>3. Behind'
    BY <1>1 DEF Behind, Afloat, Awaited
  <2>4. QED
    BY <2>1, <2>2, <2>3
<1>8. Budget'
  <2>1. attempt + Bad <= 2 + faults
    BY <1>1 DEF OnTheWay, Budget
  <2>2. Bad' \in {0, 1} /\ (Bad' = 1 => Bad = 1) /\ Bad \in {0, 1}
    BY <1>1, <1>3, <1>4 DEF Bad
  <2>3. Afloat' = 0 /\ Awaited' = 0
    BY <1>1 DEF Afloat, Awaited
  <2>4. attempt' + Bad' + Afloat' <= 2 + faults' + Awaited'
    <3>1. UNCHANGED <<attempt, faults>> /\ attempt \in Nat /\ faults \in Nat
      BY <1>1, Numbers DEF Sound
    <3> DEFINE b == Bad
               c == Bad'
    <3>2. b \in {0, 1} /\ c \in {0, 1} /\ (c = 1 => b = 1) /\ attempt + b <= 2 + faults
      BY <2>1, <2>2
    <3> HIDE DEF b, c
    <3>3. attempt + c + 0 <= 2 + faults + 0
      BY <3>1, <3>2
    <3>4. QED
      BY <2>3, <3>1, <3>3 DEF c
  <2>5. QED
    BY <1>1, <2>4 DEF Budget
<1>9. QED
  BY <1>1, <1>6, <1>7, <1>8 DEF OnTheWay

\* A connection that is not to be had costs a fault.
LEMMA OpenFailsWay ==
  ASSUME Sound, OnTheWay, OpenFails
  PROVE  OnTheWay'
<1>1. /\ pc = "open" /\ GiveUp /\ Fault
      /\ UNCHANGED <<tool, record, trusted, left>>
  BY DEF OpenFails, OnTheWay, phone
<1>2. faults' = faults + 1
  BY <1>1, FaultCounted DEF Sound
<1>3. attempt + Bad <= 2 + faults
  BY <1>1 DEF OnTheWay, Budget
<1>4. Bad = IF record # NoRecord /\ record \notin trusted THEN 1 ELSE 0
  BY <1>1 DEF Bad, Sound, Closed
<1>5. attempt \in Nat /\ faults \in Nat
  BY Numbers DEF Sound
<1>6. attempt <= 1 + faults' /\ faults' \in Nat
  BY <1>2, <1>3, <1>4, <1>5
<1>7. record' # NoRecord /\ record' \notin trusted' => attempt + 1 <= 1 + faults'
  BY <1>1, <1>2, <1>3, <1>4, <1>5
<1>8. QED
  BY <1>1, <1>6, <1>7, GiveUpWay
\* The request joins those on their way, and is waited for.
LEMMA SendWay ==
  ASSUME Sound, OnTheWay, Send, Sound'
  PROVE  OnTheWay'
<1>1. /\ pc = "ask" /\ pc' = "wait" /\ inbox' = Append(inbox, Sent)
      /\ UNCHANGED <<tool, attempt, todo, needsPair, record, replies, late, trusted,
                     session, left, faults>>
  BY DEF Send, Sent, phone
<1>2. Asking /\ Asking'
  BY <1>1 DEF Asking
<1>3. Sent \in Request \X Nat
  BY <1>2, Turn, Numbers DEF Sound, Sent
<1>4. /\ Len(inbox') = Len(inbox) + 1 /\ Len(inbox) \in Nat
      /\ \A i \in 1..Len(inbox) : inbox'[i] = inbox[i]
      /\ inbox'[Len(inbox) + 1] = Sent
  BY <1>1, <1>3, AppendProperties, Numbers DEF Sound, TypeOK
<1>5. \A i \in 1..Len(inbox') : i \in 1..Len(inbox) \/ i = Len(inbox')
  BY <1>4
<1>6. Records'
  BY <1>1, <1>2 DEF OnTheWay, Records, NewId
<1>7. PairSent'
  <2> SUFFICES ASSUME needsPair, Len(todo) <= 2 \/ Len(todo) = 3, NewId \notin trusted
               PROVE  \E i \in 1..Len(inbox') : inbox'[i][1] = "Pair"
    BY <1>1 DEF PairSent, NewId
  <2>1. CASE Len(todo) <= 2
    <3>1. PICK i \in 1..Len(inbox) : inbox[i][1] = "Pair"
      BY <1>2, <2>1 DEF OnTheWay, PairSent
    <3>2. QED
      BY <1>4, <3>1
  <2>2. CASE Len(todo) = 3
    <3>1. Head(todo) = "Pair"
      BY <1>2, <2>2, TurnOf DEF Sound
    <3>2. QED
      BY <1>4, <3>1 DEF Sent
  <2>3. QED
    BY <2>1, <2>2
<1>8. Newest'
  BY <1>1, <1>4 DEF Newest, Sent
<1>9. Honest'
  <2>1. \A i \in 1..Len(replies') :
          /\ replies'[i].to = Final' => replies'[i].result # "Success"
          /\ replies'[i].to = "Pair" => replies'[i].result = "Success"
    BY <1>1 DEF OnTheWay, Honest, Final
  <2>2. Head(todo) \in {"SetValue", "EnterRecovery"} => Head(todo) = Final
    BY <1>2, TurnOf DEF Sound
  <2>3. \A i \in 1..Len(inbox') :
          inbox'[i][1] \in {"SetValue", "EnterRecovery"} => inbox'[i][1] = Final
    BY <1>4, <1>5, <2>2 DEF OnTheWay, Honest, Sent
  <2>4. Final' = Final
    BY <1>1 DEF Final
  <2>5. QED
    BY <2>1, <2>3, <2>4 DEF Honest
<1>10. InTurn'
  <2> SUFFICES ASSUME ~late PROVE InTurn'
    BY <1>1 DEF InTurn
  <2>1. inbox = <<>> /\ replies = <<>> /\ Len(inbox) = 0
    BY <1>1, EmptySeq DEF OnTheWay, InTurn
  <2>2. replies' = <<>> /\ Len(inbox') = 1 /\ inbox'[1] = Sent'
    BY <1>1, <1>4, <2>1 DEF Sent, NewId
  <2>3. Len(todo) = 1 => session
    BY <1>2 DEF OnTheWay, InTurn
  <2>4. QED
    BY <1>1, <2>2, <2>3 DEF InTurn
<1>11. Afloat' = Afloat + 1 /\ Awaited = 0 /\ Awaited' = 1 /\ Afloat \in Nat
  BY <1>1, <1>4, Numbers DEF Sound, Afloat, Awaited
<1>12. Behind'
  BY <1>1, <1>2, <1>11 DEF OnTheWay, Behind
<1>13. Budget'
  <2>1. Bad' = Bad /\ Bad \in {0, 1}
    BY <1>1 DEF Bad
  <2>2. attempt + Bad + Afloat <= 2 + faults + Awaited
    BY <1>2 DEF OnTheWay, Budget
  <2>3. attempt' + Bad' + Afloat' <= 2 + faults' + Awaited'
    <3>1. UNCHANGED <<attempt, faults>> /\ attempt \in Nat /\ faults \in Nat
      BY <1>1, Numbers DEF Sound
    <3>2. QED
      BY <1>11, <2>1, <2>2, <3>1
  <2>4. QED
    BY <1>1, <2>3 DEF Budget
<1>14. QED
  BY <1>1, <1>6, <1>7, <1>8, <1>9, <1>10, <1>12, <1>13 DEF OnTheWay

\* What is on its way is a number.
LEMMA Numbered ==
  ASSUME Sound
  PROVE  Afloat \in Nat /\ Bad \in {0, 1} /\ Awaited \in {0, 1}
BY Numbers DEF Sound, Afloat, Bad, Awaited

\* A bad record costs no more than what there was to pay for it already, or than what is
\* on its way beside the answer that is waited for.
LEMMA BadPaid ==
  ASSUME Sound, OnTheWay, Asking, record' = record, trusted' = trusted,
         record' # NoRecord, record' \notin trusted'
  PROVE  Bad + Afloat >= 1 + Awaited
<1>1. CASE needsPair
  <2>1. Len(inbox) >= 1 + Awaited
    BY <1>1, OwnRecordUnknown
  <2>2. QED
    BY <2>1, Numbers, Numbered DEF Sound, Afloat
<1>2. CASE ~needsPair
  <2>1. Bad = 1
    BY <1>2 DEF Bad
  <2>2. Afloat >= Awaited
    BY Numbered DEF OnTheWay, Behind
  <2>3. QED
    BY <2>1, <2>2, Numbered
<1>3. QED
  BY <1>1, <1>2

\* A lost connection costs a fault.
LEMMA LostWay ==
  ASSUME Sound, OnTheWay, Asking, GiveUp, Fault, UNCHANGED <<tool, record, trusted, left>>
  PROVE  OnTheWay'
<1>1. faults' = faults + 1 /\ attempt \in Nat /\ faults \in Nat
  BY FaultCounted, Numbers DEF Sound
<1>2. attempt + Bad + Afloat <= 2 + faults + Awaited
  BY DEF OnTheWay, Budget
<1>3. Afloat >= Awaited
  BY Numbered DEF OnTheWay, Behind
<1>4. faults' \in Nat /\ attempt <= 1 + faults'
  BY <1>1, <1>2, <1>3, Numbered
<1>5. ASSUME record' # NoRecord, record' \notin trusted'
      PROVE  attempt + 1 <= 1 + faults'
  <2>1. Bad + Afloat >= 1 + Awaited
    BY <1>5, BadPaid
  <2>2. QED
    BY <1>1, <1>2, <2>1, Numbered
<1>6. QED
  BY <1>4, <1>5, GiveUpWay

\* It ends the attempt.
LEMMA DroppedWay ==
  ASSUME Sound, OnTheWay, Dropped
  PROVE  OnTheWay'
<1>1. Asking /\ GiveUp /\ Fault /\ UNCHANGED <<tool, record, trusted, left>>
  BY DEF Dropped, OnTheWay, Asking, phone
<1>2. QED
  BY <1>1, LostWay

\* So does an answer that is waited for no longer, if it is needed; if not, it stays on
\* its way, which is paid for with the fault.
LEMMA TimesOutWay ==
  ASSUME Sound, OnTheWay, TimesOut
  PROVE  OnTheWay'
<1>1. /\ pc = "wait" /\ Asking /\ Fault /\ late' = TRUE
      /\ UNCHANGED <<tool, record, trusted, left>>
  BY DEF TimesOut, Asking, phone
<1>2. CASE ~Optional
  <2>1. GiveUp
    BY <1>2 DEF TimesOut
  <2>2. QED
    BY <1>1, <2>1, LostWay
<1>3. CASE Optional
  <2>1. /\ pc' = "ask" /\ todo' = Tail(todo)
        /\ UNCHANGED <<attempt, needsPair, inbox, replies>>
    BY <1>3 DEF TimesOut
  <2>2. Len(todo) \in Nat /\ Len(todo) >= 3 /\ (needsPair => Len(todo) >= 4)
    BY <1>1, <1>3, TurnOf, Numbers DEF Sound
  <2>3. Len(todo') = Len(todo) - 1
    BY <1>1, <2>1, Turn DEF Sound
  <2>4. Records'
    BY <1>1, <2>1, <2>2, <2>3 DEF OnTheWay, Records, Asking, NewId
  <2>5. PairSent'
    BY <1>1, <2>1, <2>2, <2>3 DEF PairSent
  <2>6. Newest' /\ InTurn'
    BY <1>1, <2>1 DEF Newest, InTurn
  <2>7. Honest'
    BY <1>1, <2>1 DEF OnTheWay, Honest, Final
  <2>8. Afloat' = Afloat /\ Awaited = 1 /\ Awaited' = 0
    BY <1>1, <2>1 DEF Afloat, Awaited
  <2>9. Behind'
    <3>1. Afloat >= 1
      BY <1>1, <2>8, Numbered DEF OnTheWay, Behind
    <3>2. QED
      BY <1>1, <2>8, <3>1 DEF Behind
  <2>10. Budget'
    <3>1. Bad' = Bad /\ faults' = faults + 1
      BY <1>1, <2>1, FaultCounted DEF Bad, Sound
    <3>2. attempt + Bad + Afloat <= 2 + faults + Awaited
      BY <1>1 DEF OnTheWay, Budget
    <3>3. attempt' = attempt /\ attempt \in Nat /\ faults \in Nat
      BY <2>1, Numbers DEF Sound
    <3>4. attempt' + Bad' + Afloat' <= 2 + faults' + Awaited'
      BY <2>8, <3>1, <3>2, <3>3, Numbered
    <3>5. QED
      BY <2>1, <3>4 DEF Budget
  <2>11. QED
    BY <1>1, <2>1, <2>4, <2>5, <2>6, <2>7, <2>9, <2>10 DEF OnTheWay
<1>4. QED
  BY <1>2, <1>3
\* A refusal costs the record of the beginning, or an answer that came late.
LEMMA RefusedWay ==
  ASSUME Sound, OnTheWay, Refused
  PROVE  OnTheWay'
<1>1. /\ pc = "wait" /\ Asking /\ replies # <<>> /\ ~Optional /\ GiveUp
      /\ \/ ~Accepted(Head(replies))
         \/ Head(todo) \in {"Pair", "StartSession"} /\ Head(replies).to # Head(todo)
      /\ record' = IF Rejected(Head(replies)) THEN NoRecord ELSE record
      /\ UNCHANGED <<tool, trusted, left, faults>>
  BY DEF Refused, Asking, phone
<1>2. /\ Len(replies) \in Nat \ {0} /\ Head(replies) = replies[1]
  BY <1>1, Taken DEF Sound, TypeOK
<1>3. Awaited = 1 /\ attempt \in Nat /\ faults \in Nat /\ Len(inbox) \in Nat
  BY <1>1, Numbers DEF Sound, Awaited
<1>4. attempt + Bad + Afloat <= 3 + faults
  <2>1. attempt + Bad + Afloat <= 2 + faults + Awaited
    BY <1>1 DEF OnTheWay, Budget
  <2>2. QED
    BY <1>3, <2>1, Numbered
<1>5. /\ Bad + Afloat >= 2
      /\ record' # NoRecord /\ record' \notin trusted' => Bad + Afloat >= 3
  <2>1. CASE late
    <3>1. Afloat >= 2
      BY <1>1, <1>3, <2>1, Numbered DEF OnTheWay, Behind
    <3>2. ASSUME record' # NoRecord, record' \notin trusted'
          PROVE  Bad + Afloat >= 3
      <4>1. record # NoRecord /\ record \notin trusted
        BY <1>1, <3>2
      <4>2. CASE needsPair
        <5>1. Len(inbox) >= 2
          BY <1>1, <1>3, <4>1, <4>2, OwnRecordUnknown
        <5>2. QED
          BY <1>2, <1>3, <5>1, Numbered DEF Afloat
      <4>3. CASE ~needsPair
        <5>1. Bad = 1
          BY <4>1, <4>3 DEF Bad
        <5>2. QED
          BY <3>1, <5>1, Numbered
      <4>4. QED
        BY <4>2, <4>3
    <3>3. QED
      BY <3>1, <3>2, Numbered
  <2>2. CASE ~late
    <3>1. /\ inbox = <<>> /\ Len(replies) = 1 /\ replies[1].to = Head(todo) /\ Len(todo) # 1
          /\ Len(todo) = 2 => IF record \in trusted THEN replies[1].result = "Success"
                              ELSE replies[1].result = "InvalidHostID"
      BY <1>1, <2>2 DEF OnTheWay, InTurn
    <3>2. ~Accepted(Head(replies))
      BY <1>1, <1>2, <3>1
    <3>3. replies[1].result # "Success"
      BY <1>2, <3>2 DEF Accepted
    <3>4. Head(todo) # "Pair"
      BY <3>1, <3>3 DEF OnTheWay, Honest
    <3>5. Len(todo) = 2 /\ Head(todo) = "StartSession"
      BY <1>1, <3>1, <3>4, TurnOf DEF Sound
    <3>6. replies[1].result = "InvalidHostID" /\ record \notin trusted
      BY <3>1, <3>3, <3>5
    <3>7. record # NoRecord
      BY <1>1, <3>5, Numbers DEF OnTheWay, Records, NoRecord, Sound
    <3>8. ~needsPair
      <4>1. Len(inbox) = 0
        BY <3>1, EmptySeq
      <4>2. QED
        BY <1>1, <1>3, <3>6, <3>7, <4>1, OwnRecordUnknown
    <3>9. record' = NoRecord
      BY <1>1, <1>2, <3>5, <3>6, <3>8 DEF Rejected
    <3>10. Bad = 1
      BY <3>6, <3>7, <3>8 DEF Bad
    <3>11. Afloat >= 1
      BY <1>2, <1>3 DEF Afloat
    <3>12. QED
      BY <3>9, <3>10, <3>11, Numbered
  <2>3. QED
    BY <2>1, <2>2
<1>6. attempt <= 1 + faults'
  BY <1>1, <1>3, <1>4, <1>5, Numbered
<1>7. record' # NoRecord /\ record' \notin trusted' => attempt + 1 <= 1 + faults'
  BY <1>1, <1>3, <1>4, <1>5, Numbered
<1>8. QED
  BY <1>1, <1>3, <1>6, <1>7, GiveUpWay

\* The tool goes on, or takes a late answer for what it is all about.
LEMMA SucceedsWay ==
  ASSUME Sound, OnTheWay, Succeeds
  PROVE  OnTheWay' \/ (pc' = "done" /\ late')
<1>1. /\ pc = "wait" /\ Asking /\ replies # <<>> /\ replies' = Tail(replies)
      /\ Accepted(Head(replies)) \/ Optional
      /\ record' = IF Head(todo) = "Pair" THEN NewId ELSE record
      /\ \/ /\ Len(todo) = 1 \/ (Head(todo) = "SetValue" /\ Accepted(Head(replies)))
            /\ pc' = "done"
         \/ Len(todo) # 1 /\ pc' = "ask" /\ todo' = Tail(todo)
      /\ UNCHANGED <<tool, attempt, needsPair, inbox, late, trusted, session, left, faults>>
  BY DEF Succeeds, Proceed, Asking, phone
<1>2. /\ Len(replies) \in Nat \ {0} /\ Head(replies) = replies[1]
      /\ replies' \in Seq(Reply) /\ Len(replies') = Len(replies) - 1
      /\ \A i \in 1..Len(replies') : i + 1 \in 1..Len(replies) /\ replies'[i] = replies[i + 1]
  BY <1>1, Taken DEF Sound, TypeOK
<1>3. ~late => /\ inbox = <<>> /\ Len(replies) = 1 /\ replies[1].to = Head(todo)
               /\ Len(todo) # 1
               /\ Len(todo) = 2 => IF record \in trusted THEN session
                                   ELSE replies[1].result = "InvalidHostID"
  BY <1>1 DEF OnTheWay, InTurn
<1>4. CASE pc' = "done"
  <2> SUFFICES ASSUME ~late PROVE FALSE
    BY <1>1, <1>4
  <2>1. Head(todo) = "SetValue" /\ Accepted(Head(replies))
    BY <1>1, <1>3, <1>4
  <2>2. Final = "SetValue"
    BY <1>1, <2>1, TurnOf DEF Sound
  <2>3. 1 \in 1..Len(replies) /\ replies[1].to = Final /\ replies[1].result = "Success"
    BY <1>2, <1>3, <2>1, <2>2 DEF Accepted
  <2>4. QED
    BY <2>3 DEF OnTheWay, Honest
<1>5. CASE Len(todo) # 1 /\ pc' = "ask" /\ todo' = Tail(todo)
  <2>1. Len(todo) \in Nat /\ Len(todo) >= 2 /\ Len(todo') = Len(todo) - 1
    <3>1. Len(todo) >= 1 /\ Len(Tail(todo)) = Len(todo) - 1
      BY <1>1, Turn DEF Sound
    <3>2. Len(todo) \in Nat
      BY Numbers DEF Sound
    <3>3. Len(todo') = Len(todo) - 1
      BY <1>5, <3>1, Zenon
    <3> DEFINE n == Len(todo)
    <3>4. n \in Nat /\ n >= 1 /\ n # 1
      BY <1>5, <3>1, <3>2
    <3> HIDE DEF n
    <3>5. n >= 2
      BY <3>4
    <3>6. QED
      BY <3>2, <3>3, <3>5 DEF n
  <2>2. Asking' /\ NewId' = NewId
    BY <1>1, <1>5 DEF Asking, NewId
  <2>3. Records' /\ PairSent'
    <3>1. CASE Head(todo) = "Pair"
      <4>1. Len(todo) = 3 /\ needsPair /\ record' = NewId
        BY <1>1, <3>1, TurnOf DEF Sound
      <4>2. NewId \in trusted \/ \E i \in 1..Len(inbox) : inbox[i][1] = "Pair"
        BY <1>1, <4>1 DEF OnTheWay, PairSent
      <4>3. Records'
        BY <1>1, <2>1, <2>2, <4>1 DEF Records
      <4>4. PairSent'
        BY <1>1, <2>2, <4>2 DEF PairSent
      <4>5. QED
        BY <4>3, <4>4
    <3>2. CASE Head(todo) # "Pair"
      <4>1. record' = record /\ ~(Len(todo) = 3 /\ needsPair)
        BY <1>1, <3>2, TurnOf DEF Sound
      <4>2. Records'
        BY <1>1, <2>1, <2>2, <4>1 DEF OnTheWay, Records
      <4>3. SUFFICES ASSUME needsPair', Len(todo') <= 2
                     PROVE  NewId \in trusted \/ \E i \in 1..Len(inbox) : inbox[i][1] = "Pair"
        BY <1>1, <1>5, <2>2, <4>2 DEF PairSent
      <4>4. needsPair /\ Len(todo) <= 2
        BY <1>1, <2>1, <4>1, <4>3
      <4>5. QED
        BY <1>1, <4>4 DEF OnTheWay, PairSent
    <3>3. QED
      BY <3>1, <3>2
  <2>5. Newest'
    BY <1>5 DEF Newest
  <2>6. Honest'
    BY <1>1, <1>2 DEF OnTheWay, Honest, Final
  <2>7. InTurn'
    <3> SUFFICES ASSUME ~late PROVE InTurn'
      BY <1>1 DEF InTurn
    <3>1. inbox' = <<>> /\ replies' = <<>>
      <4>1. Len(replies') = 0
        <5>1. Len(replies) = 1 /\ Len(replies') = Len(replies) - 1
          BY <1>2, <1>3
        <5>2. QED
          BY <5>1
      <4>2. QED
        BY <1>1, <1>2, <1>3, <4>1, Nothing
    <3>2. Len(todo') = 1 => session'
      <4> SUFFICES ASSUME Len(todo') = 1 PROVE session
        BY <1>1
      <4>0. Len(todo) = 2
        <5> DEFINE n == Len(todo)
                   m == Len(todo')
        <5>1. n \in Nat /\ m = n - 1 /\ m = 1
          BY <2>1
        <5> HIDE DEF n, m
        <5>2. n = 2
          BY <5>1
        <5>3. QED
          BY <5>2 DEF n
      <4>1. Head(todo) = "StartSession"
        BY <1>1, <4>0, TurnOf DEF Sound
      <4>2. replies[1].result = "Success"
        BY <1>1, <1>2, <4>1 DEF Accepted, Optional
      <4>3. QED
        BY <1>3, <4>0, <4>2
    <3>3. QED
      BY <1>5, <3>1, <3>2 DEF InTurn
  <2>8. Afloat' = Afloat - 1 /\ Awaited = 1 /\ Awaited' = 0 /\ Afloat >= 1
    BY <1>1, <1>2, <1>5, Numbers DEF Sound, Afloat, Awaited
  <2>9. Behind'
    BY <1>1, <2>8, Numbered DEF OnTheWay, Behind
  <2>10. Budget'
    <3>1. Bad' = Bad
      BY <1>1, TurnOf DEF Sound, Bad
    <3>2. attempt + Bad + Afloat <= 2 + faults + Awaited
      BY <1>1 DEF OnTheWay, Budget
    <3>3. UNCHANGED <<attempt, faults>> /\ attempt \in Nat /\ faults \in Nat
      BY <1>1, Numbers DEF Sound
    <3>4. attempt' + Bad' + Afloat' <= 2 + faults' + Awaited'
      BY <2>8, <3>1, <3>2, <3>3, Numbered
    <3>5. QED
      BY <1>5, <3>4 DEF Budget
  <2>11. QED
    BY <1>1, <1>5, <2>3, <2>5, <2>6, <2>7, <2>9, <2>10 DEF OnTheWay
<1>6. QED
  BY <1>1, <1>4, <1>5
\* The phone answers what it is asked; if that is what it is all about, it refuses, or
\* the goal is reached.
LEMMA ServeWay ==
  ASSUME Sound, OnTheWay, Serve, ~Goal'
  PROVE  OnTheWay'
<1>1. /\ inbox # <<>> /\ inbox' \in Seq(Request \X Nat) /\ Len(inbox') = Len(inbox) - 1
      /\ \A i \in 1..Len(inbox') : i + 1 \in 1..Len(inbox) /\ inbox'[i] = inbox[i + 1]
      /\ ~left
      /\ UNCHANGED <<tool, attempt, pc, todo, needsPair, record, usb, late, open, faults>>
  BY Rest DEF Sound
<1>2. PICK k \in Request, i \in Nat, r \in Results : inbox[1] = <<k, i>> /\ Means(k, i, r)
  BY Served DEF Sound
<1>3. Len(inbox) \in Nat \ {0} /\ 1 \in 1..Len(inbox) /\ Len(inbox) \in 1..Len(inbox)
  BY <1>1, EmptySeq DEF Sound, TypeOK
<1>4. k \in {"SetValue", "EnterRecovery"} => k = Final
  BY <1>2, <1>3 DEF OnTheWay, Honest
<1>5. Final \in {"SetValue", "EnterRecovery"} /\ Final' = Final
  BY <1>1 DEF Final
<1>6. ~left' /\ (k = Final => r # "Success" /\ ~session)
  BY <1>1, <1>2, <1>4 DEF Means, Goal, Final
<1>7. replies' = Append(replies, [to |-> k, result |-> r])
  BY <1>2, <1>6 DEF Means
<1>8. /\ Len(replies') = Len(replies) + 1 /\ Len(replies) \in Nat
      /\ \A j \in 1..Len(replies) : replies'[j] = replies[j]
      /\ replies'[Len(replies) + 1] = [to |-> k, result |-> r]
  <2>1. [to |-> k, result |-> r] \in Reply
    BY DEF Reply, Results
  <2>2. QED
    BY <1>7, <2>1, AppendProperties, Numbers DEF Sound, TypeOK
<1>9. trusted \subseteq trusted'
  BY <1>2 DEF Means
<1>10. Records'
  BY <1>1 DEF OnTheWay, Records, Asking, NewId
<1>11. PairSent'
  <2> SUFFICES ASSUME Asking, needsPair, Len(todo) <= 2 \/ (Len(todo) = 3 /\ pc = "wait"),
                      NewId \notin trusted'
               PROVE  \E j \in 1..Len(inbox') : inbox'[j][1] = "Pair"
    BY <1>1 DEF PairSent, Asking, NewId
  <2>1. PICK n \in 1..Len(inbox) : inbox[n][1] = "Pair"
    BY <1>9 DEF OnTheWay, PairSent
  <2>2. n # 1
    <3> SUFFICES ASSUME n = 1 PROVE FALSE
      OBVIOUS
    <3>1. k = "Pair" /\ i = NewId
      BY <1>2, <1>3, <2>1 DEF Sound, OwnPairs
    <3>2. QED
      BY <1>2, <3>1 DEF Means
  <2>3. n - 1 \in 1..Len(inbox') /\ (n - 1) + 1 = n
    BY <1>1, <1>3, <2>1, <2>2
  <2>4. QED
    BY <1>1, <2>1, <2>3
<1>12. Newest'
  <2> SUFFICES ASSUME pc = "wait", inbox' # <<>>
               PROVE  inbox'[Len(inbox')][1] = Head(todo)
    BY <1>1 DEF Newest
  <2>1. Len(inbox') \in Nat \ {0}
    BY <1>1, EmptySeq
  <2>2. Len(inbox') \in 1..Len(inbox') /\ Len(inbox') + 1 = Len(inbox)
    BY <1>1, <1>3, <2>1
  <2>3. inbox'[Len(inbox')] = inbox[Len(inbox)]
    BY <1>1, <2>2
  <2>4. QED
    BY <1>1, <2>3 DEF OnTheWay, Newest
<1>13. Honest'
  <2>1. \A j \in 1..Len(inbox') :
          inbox'[j][1] \in {"SetValue", "EnterRecovery"} => inbox'[j][1] = Final'
    BY <1>1, <1>5 DEF OnTheWay, Honest
  <2>2. \A j \in 1..Len(replies') : j \in 1..Len(replies) \/ j = Len(replies) + 1
    BY <1>8
  <2>3. k = "Pair" => r = "Success"
    BY <1>2 DEF Means
  <2>4. \A j \in 1..Len(replies') :
          /\ replies'[j].to = Final' => replies'[j].result # "Success"
          /\ replies'[j].to = "Pair" => replies'[j].result = "Success"
    BY <1>5, <1>6, <1>8, <2>2, <2>3 DEF OnTheWay, Honest
  <2>5. QED
    BY <2>1, <2>4 DEF Honest
<1>14. InTurn'
  <2> SUFFICES ASSUME ~late, Asking PROVE InTurn'
    BY <1>1 DEF InTurn, Asking
  <2>1. /\ pc = "wait" /\ replies = <<>> /\ Len(inbox) = 1 /\ inbox[1] = Sent
        /\ Len(todo) = 1 => session
    BY <1>1 DEF OnTheWay, InTurn, Asking
  <2>2. k = Head(todo) /\ i = IF Head(todo) = "Pair" THEN NewId ELSE record
    BY <1>2, <2>1 DEF Sent
  <2>3. Len(todo) # 1
    BY <1>6, <2>1, <2>2, TurnOf DEF Sound
  <2>4. inbox' = <<>>
    BY <1>1, <2>1, Nothing
  <2>5. Len(replies') = 1 /\ replies'[1] = [to |-> k, result |-> r]
    <3>1. Len(replies) = 0
      BY <2>1, EmptySeq
    <3>2. QED
      BY <1>8, <3>1
  <2>6. Len(todo) = 2 => IF record \in trusted' THEN session' /\ r = "Success"
                         ELSE r = "InvalidHostID"
    <3> SUFFICES ASSUME Len(todo) = 2
                 PROVE  IF record \in trusted' THEN session' /\ r = "Success"
                        ELSE r = "InvalidHostID"
      OBVIOUS
    <3>1. k = "StartSession"
      BY <2>2, TurnOf DEF Sound
    <3>2. i = record
      BY <2>2, <3>1
    <3>3. QED
      BY <1>2, <3>1, <3>2 DEF Means
  <2>7. QED
    BY <1>1, <2>1, <2>2, <2>3, <2>4, <2>5, <2>6 DEF InTurn
<1>15. Afloat' = Afloat /\ Awaited' = Awaited
  BY <1>1, <1>3, <1>8 DEF Afloat, Awaited
<1>16. Behind'
  BY <1>1, <1>15 DEF OnTheWay, Behind, Asking
<1>17. Budget'
  <2>1. Bad' \in {0, 1} /\ Bad' <= Bad
    BY <1>1, <1>9 DEF Bad
  <2>2. Asking => attempt' + Bad' + Afloat' <= 2 + faults' + Awaited'
    <3>1. UNCHANGED <<attempt, faults>> /\ attempt \in Nat /\ faults \in Nat
      BY <1>1, Numbers DEF Sound
    <3>2. Asking => attempt + Bad + Afloat <= 2 + faults + Awaited
      BY DEF OnTheWay, Budget
    <3>3. QED
      BY <1>15, <2>1, <3>1, <3>2, Numbered
  <2>3. pc # "open" /\ pc # "failed"
    BY <1>1 DEF Sound, Closed
  <2>4. QED
    BY <1>1, <2>2, <2>3 DEF Budget, Asking
<1>18. QED
  BY <1>1, <1>6, <1>10, <1>11, <1>12, <1>13, <1>14, <1>16, <1>17 DEF OnTheWay
-----------------------------------------------------------------------------
(* The theorems.                                                           *)

\* What is done stays done.
LEMMA GoalStays == TypeOK /\ Goal /\ Next => Goal'
<1> SUFFICES ASSUME TypeOK, Goal, Next PROVE Goal'
  OBVIOUS
<1>1. CASE Serve
  <2>1. tool' = tool /\ ~left
    BY <1>1, Rest
  <2>2. connected => connected'
    <3>1. PICK k \in Request, i \in Nat, r \in Results : Means(k, i, r)
      BY <1>1, Served
    <3>2. QED
      BY <3>1 DEF Means
  <2>3. QED
    BY <2>1, <2>2 DEF Goal
<1>2. CASE ~Serve
  <2>1. UNCHANGED <<tool, connected, left>>
    BY <1>2 DEF Next, Open, Send, Succeeds, Refused, OpenFails, TimesOut, Dropped, phone
  <2>2. QED
    BY <2>1 DEF Goal
<1>3. QED
  BY <1>1, <1>2

\* A tool that has exited does nothing more.
LEMMA DoneStays == TypeOK /\ pc = "done" /\ late /\ Next => pc' = "done" /\ late'
<1> SUFFICES ASSUME TypeOK, pc = "done", late, Next PROVE pc' = "done" /\ late'
  OBVIOUS
<1>1. Serve
  BY DEF Next, Open, Send, Succeeds, Refused, OpenFails, TimesOut, Dropped
<1>2. QED
  BY <1>1, Rest

\* Every step keeps the state sound.
LEMMA SoundStep == Sound /\ [Next]_vars => Sound'
<1> SUFFICES ASSUME Sound, [Next]_vars PROVE Sound'
  OBVIOUS
<1>1. CASE UNCHANGED vars
  <2>1. UNCHANGED <<tool, attempt, pc, todo, needsPair, record, usb, inbox, replies, late,
                    open, trusted, session, connected, left, faults>>
    BY <1>1 DEF vars, host, link, phone
  <2>2. TypeOK'
    BY <2>1 DEF Sound, TypeOK
  <2>3. Jobs' /\ Closed' /\ OwnPairs'
    BY <2>1 DEF Sound, Jobs, Job, Asking, Closed, OwnPairs, NewId
  <2>4. QED
    BY <2>2, <2>3 DEF Sound
<1>2. CASE Next
  BY <1>2, OpenSound, SendSound, SucceedsSound, RefusedSound, FailureSound, TimesOutSound,
     ServeSound DEF Next
<1>3. QED
  BY <1>1, <1>2

\* Every step preserves the invariant.
LEMMA Step == IInv /\ [Next]_vars => IInv'
<1> SUFFICES ASSUME IInv, [Next]_vars PROVE IInv'
  OBVIOUS
<1>1. Sound /\ Sound' /\ TypeOK
  BY SoundStep DEF IInv, Sound
<1>2. CASE UNCHANGED vars
  <2>1. UNCHANGED <<tool, attempt, pc, todo, needsPair, record, usb, inbox, replies, late,
                    open, trusted, session, connected, left, faults>>
    BY <1>2 DEF vars, host, link, phone
  <2>2. Goal => Goal'
    BY <2>1 DEF Goal
  <2>3. ASSUME OnTheWay PROVE OnTheWay'
    <3>1. Records' /\ PairSent' /\ Newest' /\ Behind'
      BY <2>1, <2>3 DEF OnTheWay, Records, PairSent, Newest, Behind, Asking, NewId, Afloat,
                        Awaited
    <3>2. Honest'
      BY <2>1, <2>3 DEF OnTheWay, Honest, Final
    <3>3. InTurn'
      BY <2>1, <2>3 DEF OnTheWay, InTurn, Asking, Sent, NewId
    <3>4. Budget'
      BY <2>1, <2>3 DEF OnTheWay, Budget, Asking, Bad, Afloat, Awaited
    <3>5. QED
      BY <2>1, <2>3, <3>1, <3>2, <3>3, <3>4 DEF OnTheWay
  <2>4. QED
    BY <1>1, <2>1, <2>2, <2>3 DEF IInv
<1>3. CASE Next
  <2>1. CASE Goal
    BY <1>1, <1>3, <2>1, GoalStays DEF IInv
  <2>2. CASE pc = "done" /\ late
    BY <1>1, <1>3, <2>2, DoneStays DEF IInv
  <2>3. CASE OnTheWay
    <3>1. ASSUME ~Goal' PROVE OnTheWay' \/ (pc' = "done" /\ late')
      BY <1>1, <1>3, <2>3, <3>1, OpenWay, SendWay, SucceedsWay, RefusedWay, OpenFailsWay,
         TimesOutWay, DroppedWay, ServeWay DEF Next
    <3>2. QED
      BY <1>1, <3>1 DEF IInv
  <2>4. QED
    BY <2>1, <2>2, <2>3 DEF IInv
<1>4. QED
  BY <1>2, <1>3

\* In every reachable state the queues and counters are sound, and the goal is reached,
\* a late answer has been taken for it, or the attempts left outweigh what can still
\* cost one.
THEOREM Invariance == Spec => []IInv
<1>1. Init => IInv
  BY InitialSound, InitialWay DEF IInv
<1>2. QED
  BY <1>1, Step, PTL DEF Spec

\* Type correctness of the tools, the connection and the phone.
THEOREM TypeCorrect == Spec => []TypeOK
<1>1. IInv => TypeOK
  BY DEF IInv, Sound
<1>2. QED
  BY <1>1, Invariance, PTL

\* A tool that exits with 0 has done what it says, unless an answer on its
\* connection has been given up, with any number of attempts and any faults.
THEOREM ReportsAreTrue == Spec => []NoFalseReport
<1>1. IInv => NoFalseReport
  BY DEF IInv, NoFalseReport, OnTheWay
<1>2. QED
  BY <1>1, Invariance, PTL

\* A script that fails has reached its goal all the same, or there have been faults enough
\* to spoil all its attempts but one, whatever the number of attempts.
THEOREM AttemptsSuffice == Spec => []Converges
<1>1. IInv => Converges
  BY Numbers DEF IInv, Converges, OnTheWay, Budget
<1>2. QED
  BY <1>1, Invariance, PTL
=============================================================================
