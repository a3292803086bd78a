----------------------------- MODULE ConsoleProofs -----------------------------
(***************************************************************************)
(* Theorems about what talks to the recovery console: the response reader   *)
(* (ConsoleReader), for any size of the buffer, any number of attempts and  *)
(* polls, and any pieces that iBoot reports; and the tools that load images *)
(* (LegacyBoot), for any sizes of the images and any queue.                 *)
(***************************************************************************)
EXTENDS ConsoleReader, LegacyBoot, SequenceTheorems, FiniteSetTheorems, TLAPS

-----------------------------------------------------------------------------
(* The reader.                                                             *)

\* Between two commands the buffer is empty; before a bulk read there is room in it for
\* one byte and the zero.
Room ==
  /\ used < size
  /\ pc = "dump" => used + 1 < size
  /\ pc \notin {"dump", "check"} => response = <<>>

\* The poll counts only the looks it has had.
PollsLeft == pc \in {"connect", "dump", "check"} => misses < Polls

\* The invariant.
IInv == TypeOK /\ Room /\ PollsLeft
-----------------------------------------------------------------------------
\* The sizes of the buffers and the bounds are numbers.
LEMMA Numbers ==
  ASSUME TypeOK
  PROVE  /\ size \in Nat /\ size >= 2 /\ attempt \in Nat /\ misses \in Nat
         /\ used \in Nat /\ Attempts \in Nat /\ Attempts >= 1
         /\ Polls \in Nat /\ Polls >= 1 /\ MaxFailures \in Nat
<1>1. size \in Nat /\ size >= 2
  BY SizeAssumption DEF TypeOK
<1>2. used \in Nat
  BY LenProperties DEF TypeOK, used
<1>3. QED
  BY <1>1, <1>2, BoundsAssumption DEF TypeOK

\* The console has its banner and the buffer is empty.
LEMMA Initially == Init => IInv
<1> SUFFICES ASSUME Init PROVE IInv
  OBVIOUS
<1>1. <<>> \in Seq(Byte) /\ Len(<<>>) = 0
  BY EmptySeq
<1>2. TypeOK
  <2>1. response \in Seq(Byte) /\ out \in Seq(Byte)
    BY <1>1, BannerAssumption DEF Init
  <2>2. attempt \in 0..(Attempts - 1) /\ failures \in 0..MaxFailures /\ misses \in 0..Polls
    BY BoundsAssumption DEF Init
  <2>3. QED
    BY <2>1, <2>2 DEF Init, TypeOK
<1>3. Room
  BY <1>1, SizeAssumption DEF Init, Room, used
<1>4. PollsLeft
  BY BoundsAssumption DEF Init, PollsLeft
<1>5. QED
  BY <1>2, <1>3, <1>4 DEF IInv

\* A tool that returns leaves the next one an empty buffer, and counts as a look.
LEMMA ReturnInvariant ==
  ASSUME IInv, NEW found \in BOOLEAN, Return(found), pc \in {"connect", "dump", "check"},
         size' = size, owed' \in BOOLEAN, out' \in Seq(Byte), failures' \in 0..MaxFailures
  PROVE  IInv'
<1>1. <<>> \in Seq(Byte) /\ Len(<<>>) = 0
  BY EmptySeq
<1>2. response' = <<>> /\ attempt' = 0
  BY DEF Return
<1>3. /\ misses' \in 0..Polls /\ pc' \in {"connect", "found", "gaveUp"}
      /\ pc' = "connect" => misses' < Polls
  BY Numbers DEF Return, IInv, PollsLeft, TypeOK
<1>4. TypeOK'
  BY <1>1, <1>2, <1>3, Numbers DEF IInv, TypeOK
<1>5. Room'
  BY <1>1, <1>2, <1>3, Numbers DEF IInv, Room, used
<1>6. QED
  BY <1>3, <1>4, <1>5 DEF IInv, PollsLeft

\* One more attempt is made with room in the buffer, or none.
LEMMA AgainInvariant ==
  ASSUME IInv, Again, pc \in {"dump", "check"}, used + 1 < size,
         UNCHANGED <<size, owed, out, failures>>
  PROVE  IInv'
<1>1. CASE attempt + 1 < Attempts
  <2>1. pc' = "dump" /\ attempt' = attempt + 1 /\ UNCHANGED <<response, misses>>
    BY <1>1 DEF Again
  <2>2. TypeOK'
    BY <1>1, <2>1, Numbers DEF IInv, TypeOK
  <2>3. QED
    BY <2>1, <2>2, Numbers DEF IInv, Room, PollsLeft, used
<1>2. CASE ~(attempt + 1 < Attempts)
  <2>1. Return(HasResult(response))
    BY <1>2 DEF Again
  <2>2. HasResult(response) \in BOOLEAN
    BY DEF HasResult
  <2>3. QED
    BY <2>1, <2>2, ReturnInvariant DEF IInv, TypeOK
<1>3. QED
  BY <1>1, <1>2

\* The buffer is empty when the command has been accepted.
LEMMA SendInvariant == IInv /\ Send => IInv'
<1> SUFFICES ASSUME IInv, Send PROVE IInv'
  OBVIOUS
<1>1. /\ pc = "connect" /\ pc' = "dump" /\ owed' = TRUE
      /\ UNCHANGED <<size, attempt, response, out, failures, misses>>
  BY DEF Send
<1>2. response = <<>> /\ Len(<<>>) = 0
  BY <1>1, EmptySeq DEF IInv, Room
<1>3. TypeOK'
  BY <1>1 DEF IInv, TypeOK
<1>4. Room'
  BY <1>1, <1>2, Numbers DEF IInv, Room, used
<1>5. QED
  BY <1>1, <1>3, <1>4 DEF IInv, PollsLeft

\* No more is read than fits, and the rest stays with iBoot.
LEMMA BulkReadInvariant ==
  ASSUME IInv, NEW n \in 1..Len(out), BulkRead(n)
  PROVE  IInv'
<1> DEFINE wanted == Least(n, Available)
<1>1. /\ pc = "dump" /\ pc' = "check"
      /\ response' = response \o SubSeq(out, 1, wanted)
      /\ out' = SubSeq(out, wanted + 1, Len(out))
      /\ UNCHANGED <<size, attempt, owed, failures, misses>>
  BY DEF BulkRead, Stored
<1>2. out \in Seq(Byte) /\ response \in Seq(Byte) /\ Len(out) \in Nat
  BY LenProperties DEF IInv, TypeOK
<1>3. wanted \in 1..Len(out) /\ wanted <= size - used - 1
  <2>1. Available \in Nat /\ Available >= 1
    <3>1. used + 1 < size
      BY <1>1 DEF IInv, Room
    <3>2. used \in Nat /\ size \in Nat
      BY Numbers DEF IInv
    <3>3. QED
      BY <3>1, <3>2 DEF Available
  <2>2. QED
    BY <1>2, <2>1 DEF Least, Available
<1>4. \A i \in 1..Len(out) : out[i] \in Byte
  BY <1>2, LenProperties
<1> HIDE DEF wanted
<1>5. SubSeq(out, 1, wanted) \in Seq(Byte) /\ Len(SubSeq(out, 1, wanted)) = wanted
  <2>1. \A i \in 1..wanted : out[i] \in Byte
    BY <1>2, <1>3, <1>4
  <2>2. QED
    BY <1>3, <2>1, SubSeqProperties
<1>6. out' \in Seq(Byte)
  <2>1. \A i \in (wanted + 1)..Len(out) : out[i] \in Byte
    BY <1>2, <1>3, <1>4
  <2>2. QED
    BY <1>1, <1>2, <1>3, <2>1, SubSeqProperties
<1>7. response' \in Seq(Byte) /\ used' = used + wanted
  BY <1>1, <1>2, <1>5, ConcatProperties DEF used
<1>8. TypeOK'
  BY <1>1, <1>6, <1>7 DEF IInv, TypeOK
<1>9. Room'
  <2>1. used' < size'
    <3>1. used \in Nat /\ size \in Nat /\ wanted \in Nat
      BY <1>2, <1>3, Numbers DEF IInv
    <3>2. QED
      BY <1>1, <1>3, <1>7, <3>1
  <2>2. QED
    BY <1>1, <2>1 DEF Room
<1>10. QED
  BY <1>1, <1>8, <1>9 DEF IInv, PollsLeft

\* What is printed does not touch the buffer.
LEMMA PrintInvariant == IInv /\ IBootPrints => IInv'
<1> SUFFICES ASSUME IInv, IBootPrints PROVE IInv'
  OBVIOUS
<1>1. /\ out' = out \o Answer /\ owed' = FALSE
      /\ UNCHANGED <<size, pc, attempt, response, failures, misses>>
  BY DEF IBootPrints
<1>2. Answer \in Seq(Byte)
  BY DEF Answer, Byte
<1>3. out' \in Seq(Byte)
  BY <1>1, <1>2, ConcatProperties DEF IInv, TypeOK
<1>4. TypeOK'
  BY <1>1, <1>3 DEF IInv, TypeOK
<1>5. QED
  BY <1>1, <1>4 DEF IInv, Room, PollsLeft, used

\* A full buffer ends the tool unless it ends in a prompt.
LEMMA CheckInvariant == IInv /\ Check => IInv'
<1> SUFFICES ASSUME IInv, Check PROVE IInv'
  OBVIOUS
<1>1. pc = "check" /\ UNCHANGED <<size, owed, out, failures>>
  BY DEF Check
<1>2. \/ Return(HasResult(response)) \/ Return(FALSE)
      \/ Again /\ ~(used + 1 >= size)
  BY DEF Check
<1>3. CASE Return(HasResult(response)) \/ Return(FALSE)
  <2>1. HasResult(response) \in BOOLEAN
    BY DEF HasResult
  <2>2. QED
    BY <1>1, <1>3, <2>1, ReturnInvariant DEF IInv, TypeOK
<1>4. CASE Again /\ ~(used + 1 >= size)
  <2>1. used + 1 < size
    BY <1>4, Numbers DEF IInv
  <2>2. QED
    BY <1>1, <1>4, <2>1, AgainInvariant
<1>5. QED
  BY <1>2, <1>3, <1>4

\* A failed transfer ends the tool.
LEMMA TransferFailsInvariant == IInv /\ TransferFails => IInv'
<1> SUFFICES ASSUME IInv, TransferFails PROVE IInv'
  OBVIOUS
<1>1. /\ pc \in {"connect", "dump"} /\ Return(FALSE)
      /\ UNCHANGED <<size, owed, out>>
  BY DEF TransferFails
<1>2. failures' \in 0..MaxFailures
  BY BoundsAssumption DEF TransferFails, IInv, TypeOK
<1>3. QED
  BY <1>1, <1>2, ReturnInvariant DEF IInv, TypeOK

\* Every step preserves the invariant.
LEMMA StepInvariant == IInv /\ [Next]_vars => IInv'
<1> SUFFICES ASSUME IInv, [Next]_vars PROVE IInv'
  OBVIOUS
<1>1. CASE UNCHANGED vars
  BY <1>1 DEF vars, IInv, TypeOK, Room, PollsLeft, used
<1>2. CASE NoOutput
  <2>1. /\ pc = "dump" /\ Again /\ UNCHANGED <<size, owed, out, failures>>
    BY <1>2 DEF NoOutput
  <2>2. used + 1 < size
    BY <2>1 DEF IInv, Room
  <2>3. QED
    BY <2>1, <2>2, AgainInvariant
<1>3. QED
  BY <1>1, <1>2, SendInvariant, BulkReadInvariant, CheckInvariant,
     TransferFailsInvariant, PrintInvariant DEF Next

\* In every reachable state the buffer has room for what is read next.
THEOREM Invariance == Spec => []IInv
BY Initially, StepInvariant, PTL DEF Spec

\* Type correctness of the reader and of the poll.
THEOREM TypeCorrect == Spec => []TypeOK
<1>1. IInv => TypeOK
  BY DEF IInv
<1>2. QED
  BY <1>1, Invariance, PTL

\* For a buffer of any size of two bytes or more, and whatever iBoot reports, the
\* response and its zero fit.
THEOREM NeverOverflows == Spec => []FitsBuffer
<1>1. IInv => FitsBuffer
  BY Numbers DEF IInv, Room, FitsBuffer, Available
<1>2. QED
  BY <1>1, Invariance, PTL
-----------------------------------------------------------------------------
(* The looks that the poll misses.                                         *)

\* The byte at position i of all that iBoot prints: the banner, and one answer after
\* the other.
Printed(i) ==
  IF i <= Len(Banner) THEN Banner[i]
  ELSE LET d == (i - Len(Banner)) % 5 IN
       IF d = 1 THEN "t" ELSE IF d = 2 THEN "r1" ELSE IF d = 3 THEN "r2"
       ELSE IF d = 4 THEN "]" ELSE "sp"

\* A prompt ends there.
PromptAt(i) == i >= 2 /\ Printed(i) = "sp" /\ Printed(i - 1) = "]"

\* The result is between these positions, the first one exclusive.
ResultIn(q, p) == \E m \in Nat : q < Len(Banner) + 5 * m + 2 /\ Len(Banner) + 5 * m + 3 <= p

\* Of n answers and the banner, q bytes are gone; the rest is in the buffer or unread.
Stream(q, n) ==
  /\ q + Len(response) + Len(out) = Len(Banner) + 5 * n
  /\ \A j \in 1..Len(response) : response[j] = Printed(q + j)
  /\ \A j \in 1..Len(out) : out[j] = Printed(q + Len(response) + j)

\* The old prompts still to come after position q.
Ahead(q) == {i \in 1..Len(Banner) : i > q /\ PromptAt(i)}

\* What comes next is the rest of an answer whose result is gone.
CutOff(q) == IF q > Len(Banner) /\ (q - Len(Banner)) % 5 \in {2, 3, 4} THEN 1 ELSE 0

\* The looks that may still be missed for what has been printed.
Owing(q) == Cardinality(Ahead(q)) + CutOff(q)

Reading == pc \in {"dump", "check"}

\* The answers that iBoot has printed or will print.
Asked == IF owed THEN 1 ELSE 0

\* Where the poll is when q bytes are gone and n answers printed.  While a tool reads
\* there is something to be read; the answer it waits for is all there or owed.
Place(q, n) ==
  /\ Stream(q, n)
  /\ n + Asked <= misses + (IF Reading THEN 1 ELSE 0)
  /\ misses + Owing(q) <= Excused
  /\ pc = "connect" => attempt = 0 /\ response = <<>> /\ (owed \/ out # <<>>)
  /\ Reading => q < Len(Banner) + 5 * n
  /\ Reading /\ ~owed => n >= 1 /\ q + 5 <= Len(Banner) + 5 * n
  /\ pc = "dump" => ~EndsInPrompt(response)
  /\ pc = "dump" /\ out # <<>> => Readable(Len(out), Attempts - attempt)
  /\ pc = "check" /\ out # <<>> => Readable(Len(out), Attempts - attempt - 1)

\* The looks missed so far and those that may follow are accounted for.
Accounted ==
  Roomy =>
    /\ misses <= Excused
    /\ pc \in {"connect", "dump", "check"} => \E q, n \in Nat : Place(q, n)
-----------------------------------------------------------------------------
\* There is a prompt at the end of the banner.
LEMMA BannerEnds ==
  /\ Len(Banner) \in Nat /\ Len(Banner) >= 2
  /\ Printed(Len(Banner)) = "sp" /\ Printed(Len(Banner) - 1) = "]"
<1>1. Len(Banner) \in Nat
  BY BannerAssumption, LenProperties
<1>2. /\ Len(Banner) >= 2 /\ Banner[Len(Banner)] = "sp" /\ Banner[Len(Banner) - 1] = "]"
  BY BannerAssumption DEF EndsInPrompt
<1>3. QED
  BY <1>1, <1>2 DEF Printed

\* The bytes of an answer.
LEMMA AnswerBytes ==
  ASSUME NEW m \in Nat
  PROVE  /\ Printed(Len(Banner) + 5 * m + 1) = "t"
         /\ Printed(Len(Banner) + 5 * m + 2) = "r1"
         /\ Printed(Len(Banner) + 5 * m + 3) = "r2"
         /\ Printed(Len(Banner) + 5 * m + 4) = "]"
         /\ Printed(Len(Banner) + 5 * m + 5) = "sp"
<1> DEFINE L == Len(Banner)
<1>1. L \in Nat
  BY BannerEnds
<1> HIDE DEF L
<1>2. ASSUME NEW k \in 1..5
      PROVE  ~(L + 5 * m + k <= L) /\ ((L + 5 * m + k) - L) % 5 = (IF k = 5 THEN 0 ELSE k)
  BY <1>1
<1>3. /\ ~(L + 5 * m + 1 <= L) /\ ((L + 5 * m + 1) - L) % 5 = 1
      /\ ~(L + 5 * m + 2 <= L) /\ ((L + 5 * m + 2) - L) % 5 = 2
      /\ ~(L + 5 * m + 3 <= L) /\ ((L + 5 * m + 3) - L) % 5 = 3
      /\ ~(L + 5 * m + 4 <= L) /\ ((L + 5 * m + 4) - L) % 5 = 4
      /\ ~(L + 5 * m + 5 <= L) /\ ((L + 5 * m + 5) - L) % 5 = 0
  BY <1>2
<1>4. QED
  BY <1>3 DEF Printed, L

\* There is a prompt at the end of every answer.
LEMMA PromptAfter ==
  ASSUME NEW n \in Nat
  PROVE  PromptAt(Len(Banner) + 5 * n)
<1> DEFINE L == Len(Banner)
<1>1. L \in Nat /\ L >= 2
  BY BannerEnds
<1>2. CASE n = 0
  BY <1>1, <1>2, BannerEnds DEF PromptAt
<1>3. CASE n # 0
  <2>1. n - 1 \in Nat
    BY <1>3
  <2>2. Printed(L + 5 * (n - 1) + 4) = "]" /\ Printed(L + 5 * (n - 1) + 5) = "sp"
    BY <2>1, AnswerBytes
  <2> HIDE DEF L
  <2>3. /\ L + 5 * (n - 1) + 4 = (L + 5 * n) - 1
        /\ L + 5 * (n - 1) + 5 = L + 5 * n
        /\ L + 5 * n >= 2
    BY <1>1
  <2>4. PromptAt(L + 5 * n)
    BY <2>2, <2>3 DEF PromptAt
  <2>5. QED
    BY <2>4 DEF L
<1>4. QED
  BY <1>2, <1>3

\* There are no other prompts after the banner.
LEMMA PromptBeyond ==
  ASSUME NEW i \in Nat, i > Len(Banner), PromptAt(i)
  PROVE  \E m \in Nat : i = Len(Banner) + 5 * m
<1> DEFINE L == Len(Banner)
<1> DEFINE d == (i - L) % 5
<1>1. L \in Nat /\ i > L
  BY BannerEnds
<1>2. ~(d = 1) /\ ~(d = 2) /\ ~(d = 3) /\ ~(d = 4)
  BY <1>1 DEF PromptAt, Printed
<1> HIDE DEF L
<1>3. d \in 0..4
  BY <1>1
<1>4. d = 0
  BY <1>2, <1>3
<1>5. i = L + 5 * ((i - L) \div 5) /\ (i - L) \div 5 \in Nat
  BY <1>1, <1>4
<1>6. QED
  BY <1>5 DEF L

\* The looks that are owing are a number.
LEMMA OwingType ==
  ASSUME NEW q \in Nat
  PROVE  /\ IsFiniteSet(Ahead(q)) /\ Cardinality(Ahead(q)) \in Nat
         /\ CutOff(q) \in {0, 1} /\ Owing(q) \in Nat
<1>1. IsFiniteSet(1..Len(Banner))
  BY BannerEnds, FS_Interval
<1>2. IsFiniteSet(Ahead(q))
  BY <1>1, FS_Subset DEF Ahead
<1>3. Cardinality(Ahead(q)) \in Nat
  BY <1>2, FS_CardinalityType
<1>4. CutOff(q) \in {0, 1}
  BY DEF CutOff
<1>5. QED
  BY <1>2, <1>3, <1>4 DEF Owing

\* Later there are no more old prompts ahead.
LEMMA AheadShrinks ==
  ASSUME NEW q \in Nat, NEW p \in Nat, q <= p
  PROVE  /\ Cardinality(Ahead(p)) <= Cardinality(Ahead(q))
         /\ q < p /\ p <= Len(Banner) /\ PromptAt(p) =>
              Cardinality(Ahead(p)) + 1 <= Cardinality(Ahead(q))
<1>1. IsFiniteSet(Ahead(p)) /\ IsFiniteSet(Ahead(q)) /\ Cardinality(Ahead(p)) \in Nat
  BY OwingType
<1>2. Ahead(p) \subseteq Ahead(q) /\ p \notin Ahead(p)
  BY BannerEnds DEF Ahead
<1>3. Cardinality(Ahead(p)) <= Cardinality(Ahead(q))
  BY <1>1, <1>2, FS_Subset
<1>4. ASSUME q < p, p <= Len(Banner), PromptAt(p)
      PROVE  Cardinality(Ahead(p)) + 1 <= Cardinality(Ahead(q))
  <2>1. p \in Ahead(q)
    BY <1>4, BannerEnds DEF Ahead
  <2>2. Ahead(p) \cup {p} \in SUBSET Ahead(q)
    BY <1>2, <2>1
  <2>3. Cardinality(Ahead(p) \cup {p}) = Cardinality(Ahead(p)) + 1
    BY <1>1, <1>2, FS_AddElement
  <2>4. Cardinality(Ahead(p) \cup {p}) <= Cardinality(Ahead(q))
    BY <1>1, <2>2, FS_Subset
  <2>5. QED
    BY <2>3, <2>4
<1>5. QED
  BY <1>3, <1>4

\* However much is lost, it costs one look more at most.
LEMMA OwingOneMore ==
  ASSUME NEW q \in Nat, NEW p \in Nat, q <= p
  PROVE  Owing(p) <= Owing(q) + 1
<1> DEFINE a == Cardinality(Ahead(q))
<1> DEFINE b == Cardinality(Ahead(p))
<1>1. a \in Nat /\ b \in Nat /\ b <= a /\ CutOff(q) \in {0, 1} /\ CutOff(p) \in {0, 1}
  BY OwingType, AheadShrinks
<1> HIDE DEF a, b
<1>2. b + CutOff(p) <= a + CutOff(q) + 1
  BY <1>1
<1>3. QED
  BY <1>2 DEF Owing, a, b

\* A look that ends at a prompt without the result pays for itself.
LEMMA MissPaid ==
  ASSUME NEW q \in Nat, NEW p \in Nat, q < p, PromptAt(p), ~ResultIn(q, p)
  PROVE  Owing(p) + 1 <= Owing(q)
<1> DEFINE L == Len(Banner)
<1> DEFINE a == Cardinality(Ahead(q))
<1> DEFINE b == Cardinality(Ahead(p))
<1>1. L \in Nat
  BY BannerEnds
<1>2. a \in Nat /\ b \in Nat /\ CutOff(q) \in {0, 1} /\ b <= a
  BY OwingType, AheadShrinks
<1>3. CASE p <= L
  <2>1. b + 1 <= a
    BY <1>3, AheadShrinks
  <2>2. CutOff(p) = 0
    BY <1>1, <1>3 DEF CutOff
  <2> HIDE DEF a, b
  <2>3. b + CutOff(p) + 1 <= a + CutOff(q)
    BY <1>2, <2>1, <2>2
  <2>4. QED
    BY <2>3 DEF Owing, a, b
<1>4. CASE p > L
  <2>1. PICK m \in Nat : p = L + 5 * m
    BY <1>4, PromptBeyond
  <2>2. m >= 1
    BY <1>1, <1>4, <2>1
  <2>3. ~(q < L + 5 * (m - 1) + 2)
    <3>1. m - 1 \in Nat
      BY <2>2
    <3>2. L + 5 * (m - 1) + 3 <= p
      BY <1>1, <2>1
    <3>3. QED
      BY <3>1, <3>2 DEF ResultIn
  <2>4. CutOff(p) = 0
    BY <1>1, <2>1 DEF CutOff
  <2>5. CutOff(q) = 1
    <3> HIDE DEF L
    <3>1. q > L /\ (q - L) % 5 \in {2, 3, 4}
      <4>1. q - L \in {5 * (m - 1) + 2, 5 * (m - 1) + 3, 5 * (m - 1) + 4}
        BY <1>1, <2>1, <2>3
      <4>2. QED
        BY <1>1, <2>2, <4>1
    <3>2. QED
      BY <3>1 DEF CutOff, L
  <2> HIDE DEF a, b
  <2>6. b + CutOff(p) + 1 <= a + CutOff(q)
    BY <1>2, <2>4, <2>5
  <2>7. QED
    BY <2>6 DEF Owing, a, b
<1>5. QED
  BY <1>1, <1>3, <1>4

\* At first the old prompts are owing.
LEMMA OwingFirst == OldPrompts \in Nat /\ Owing(0) = OldPrompts
<1>1. ASSUME NEW i \in 1..Len(Banner)
      PROVE  EndsInPrompt(SubSeq(Banner, 1, i)) <=> PromptAt(i)
  <2> DEFINE s == SubSeq(Banner, 1, i)
  <2>1. Len(Banner) \in Nat
    BY BannerEnds
  <2>2. \A j \in 1..i : Banner[j] \in Byte
    BY <2>1, BannerAssumption, LenProperties
  <2>3. Len(s) = i /\ \A j \in 1..i : s[j] = Banner[j]
    <3>1. /\ Len(s) = i /\ \A j \in 1..i : s[j] = Banner[1 + j - 1]
      BY <2>1, <2>2, SubSeqProperties
    <3>2. \A j \in 1..i : 1 + j - 1 = j
      BY <2>1
    <3>3. QED
      BY <3>1, <3>2
  <2>4. CASE i = 1
    BY <2>3, <2>4 DEF EndsInPrompt, PromptAt
  <2>5. CASE i # 1
    <3> HIDE DEF s
    <3>1. i \in 1..i /\ i - 1 \in 1..i /\ i >= 2 /\ i <= Len(Banner) /\ i - 1 <= Len(Banner)
      BY <2>1, <2>5
    <3>2. EndsInPrompt(s) <=> PromptAt(i)
      BY <2>3, <3>1 DEF EndsInPrompt, PromptAt, Printed
    <3>3. QED
      BY <3>2 DEF s
  <2>6. QED
    BY <2>4, <2>5
<1>2. Ahead(0) = {i \in 1..Len(Banner) : EndsInPrompt(SubSeq(Banner, 1, i))}
  BY <1>1, BannerEnds DEF Ahead
<1>3. Cardinality(Ahead(0)) = OldPrompts
  BY <1>2 DEF OldPrompts
<1>4. CutOff(0) = 0
  BY BannerEnds DEF CutOff
<1>5. Cardinality(Ahead(0)) \in Nat
  BY OwingType
<1>6. QED
  BY <1>3, <1>4, <1>5 DEF Owing
-----------------------------------------------------------------------------
\* The lengths of what is in the buffer and of what is unread are numbers.
LEMMA Lengths ==
  ASSUME TypeOK
  PROVE  /\ Len(response) \in Nat /\ Len(out) \in Nat /\ Len(Banner) \in Nat
         /\ out = <<>> <=> Len(out) = 0
         /\ Len(Answer) = 5 /\ Answer \in Seq(Byte)
<1>1. Len(response) \in Nat /\ Len(out) \in Nat /\ Len(Banner) \in Nat
  BY LenProperties, BannerEnds DEF TypeOK
<1>2. out = <<>> <=> Len(out) = 0
  BY EmptySeq DEF TypeOK
<1>3. Len(Answer) = 5 /\ Answer \in Seq(Byte)
  BY DEF Answer, Byte
<1>4. QED
  BY <1>1, <1>2, <1>3

\* The buffer ends in a prompt if there is one at its end and it was read whole.
LEMMA ResponsePrompt ==
  ASSUME TypeOK, NEW q \in Nat, NEW n \in Nat, Stream(q, n)
  PROVE  EndsInPrompt(response) <=> Len(response) >= 2 /\ PromptAt(q + Len(response))
<1> DEFINE u == Len(response)
<1>1. u \in Nat /\ \A j \in 1..u : response[j] = Printed(q + j)
  BY Lengths DEF Stream
<1>2. CASE u >= 2
  <2> HIDE DEF u
  <2>1. u \in 1..u /\ u - 1 \in 1..u /\ q + (u - 1) = (q + u) - 1 /\ q + u >= 2
    BY <1>1, <1>2
  <2>2. response[u] = Printed(q + u) /\ response[u - 1] = Printed((q + u) - 1)
    BY <1>1, <2>1
  <2>3. EndsInPrompt(response) <=> PromptAt(q + u)
    BY <1>2, <2>1, <2>2 DEF EndsInPrompt, PromptAt, u
  <2>4. QED
    BY <1>2, <2>3 DEF u
<1>3. CASE ~(u >= 2)
  BY <1>3 DEF EndsInPrompt
<1>4. QED
  BY <1>2, <1>3

\* A buffer that the result is in has it.
LEMMA ResponseResult ==
  ASSUME TypeOK, NEW q \in Nat, NEW n \in Nat, Stream(q, n), ResultIn(q, q + Len(response))
  PROVE  HasResult(response)
<1> DEFINE u == Len(response)
<1> DEFINE L == Len(Banner)
<1>1. u \in Nat /\ L \in Nat /\ \A j \in 1..u : response[j] = Printed(q + j)
  BY Lengths DEF Stream
<1>2. PICK m \in Nat : q < L + 5 * m + 2 /\ L + 5 * m + 3 <= q + u
  BY DEF ResultIn
<1>3. Printed(L + 5 * m + 2) = "r1" /\ Printed(L + 5 * m + 3) = "r2"
  BY AnswerBytes
<1> DEFINE i == L + 5 * m + 2 - q
<1> HIDE DEF u, L
<1>4. /\ i \in 1..u /\ i + 1 \in 1..u /\ i < u
      /\ q + i = L + 5 * m + 2 /\ q + (i + 1) = L + 5 * m + 3
  BY <1>1, <1>2
<1> HIDE DEF i
<1>5. response[i] = "r1" /\ response[i + 1] = "r2"
  <2>1. response[i] = Printed(q + i) /\ response[i + 1] = Printed(q + (i + 1))
    BY <1>1, <1>4
  <2>2. QED
    BY <1>3, <1>4, <2>1
<1>6. QED
  BY <1>4, <1>5 DEF HasResult, u

\* When a tool returns, what was in the buffer is gone.
LEMMA StreamGone ==
  ASSUME TypeOK, NEW q \in Nat, NEW n \in Nat, Stream(q, n), NEW u \in Nat,
         u = Len(response), response' = <<>>, out' = out
  PROVE  Stream(q + u, n)'
<1>1. Len(out) \in Nat
  BY Lengths
<1>2. Len(response') = 0
  BY EmptySeq
<1>3. /\ q + u + Len(out) = Len(Banner) + 5 * n
      /\ \A j \in 1..Len(out) : out[j] = Printed(q + u + j)
  BY DEF Stream
<1>4. (q + u) + 0 = q + u
  OBVIOUS
<1>5. (q + u) + Len(response') + Len(out') = Len(Banner) + 5 * n
  BY <1>2, <1>3, <1>4
<1>6. \A j \in 1..Len(response') : response'[j] = Printed((q + u) + j)
  BY <1>2
<1>7. \A j \in 1..Len(out') : out'[j] = Printed((q + u) + Len(response') + j)
  BY <1>2, <1>3, <1>4
<1>8. QED
  BY <1>5, <1>6, <1>7 DEF Stream

\* The bytes of two sequences that are joined.
LEMMA JoinedBytes ==
  ASSUME NEW s \in Seq(Byte), NEW t \in Seq(Byte)
  PROVE  /\ Len(s \o t) = Len(s) + Len(t)
         /\ \A j \in 1..(Len(s) + Len(t)) :
              (s \o t)[j] = IF j <= Len(s) THEN s[j] ELSE t[j - Len(s)]
<1> DEFINE B == Byte
<1>1. s \in Seq(B) /\ t \in Seq(B)
  OBVIOUS
<1> HIDE DEF B
<1>2. QED
  BY <1>1, ConcatProperties

\* What iBoot prints comes after all that is unread.
LEMMA StreamPrinted ==
  ASSUME TypeOK, NEW q \in Nat, NEW n \in Nat, Stream(q, n),
         response' = response, out' = out \o Answer
  PROVE  Stream(q, n + 1)' /\ Len(out') = Len(out) + 5
<1> DEFINE u == Len(response)
<1> DEFINE o == Len(out)
<1> DEFINE L == Len(Banner)
<1>1. u \in Nat /\ o \in Nat /\ L \in Nat
  BY Lengths
<1>2. /\ q + u + o = L + 5 * n
      /\ \A j \in 1..u : response[j] = Printed(q + j)
      /\ \A j \in 1..o : out[j] = Printed(q + u + j)
  BY DEF Stream
<1>3. /\ Len(out') = o + 5
      /\ \A j \in 1..(o + 5) : out'[j] = IF j <= o THEN out[j] ELSE Answer[j - o]
  <2>1. out \in Seq(Byte) /\ Answer \in Seq(Byte) /\ Len(Answer) = 5 /\ out' = out \o Answer
    BY Lengths DEF TypeOK
  <2>2. /\ Len(out') = Len(out) + Len(Answer)
        /\ \A j \in 1..(Len(out) + Len(Answer)) :
             out'[j] = IF j <= Len(out) THEN out[j] ELSE Answer[j - Len(out)]
    BY <2>1, JoinedBytes
  <2>3. QED
    BY <2>1, <2>2
<1>4. /\ Answer[1] = "t" /\ Answer[2] = "r1" /\ Answer[3] = "r2" /\ Answer[4] = "]"
      /\ Answer[5] = "sp"
  BY DEF Answer
<1>5. /\ Answer[1] = Printed(L + 5 * n + 1) /\ Answer[2] = Printed(L + 5 * n + 2)
      /\ Answer[3] = Printed(L + 5 * n + 3) /\ Answer[4] = Printed(L + 5 * n + 4)
      /\ Answer[5] = Printed(L + 5 * n + 5)
  BY <1>4, AnswerBytes
<1> HIDE DEF u, o, L
<1>6. \A k \in 1..5 : Answer[k] = Printed(L + 5 * n + k)
  BY <1>5
<1>7. ASSUME NEW j \in 1..(o + 5)
      PROVE  out'[j] = Printed(q + u + j)
  <2>1. CASE j <= o
    BY <1>1, <1>2, <1>3, <2>1
  <2>2. CASE ~(j <= o)
    <3>1. j - o \in 1..5 /\ L + 5 * n + (j - o) = q + u + j
      BY <1>1, <1>2, <2>2
    <3>2. out'[j] = Answer[j - o]
      BY <1>3, <2>2
    <3>3. QED
      BY <1>6, <3>1, <3>2
  <2>3. QED
    BY <2>1, <2>2
<1>8. q + u + (o + 5) = L + 5 * (n + 1)
  BY <1>1, <1>2
<1>9. Stream(q, n + 1)'
  <2>1. q + Len(response') + Len(out') = Len(Banner) + 5 * (n + 1)
    BY <1>3, <1>8 DEF u, L
  <2>2. \A j \in 1..Len(response') : response'[j] = Printed(q + j)
    BY <1>2 DEF u
  <2>3. \A j \in 1..Len(out') : out'[j] = Printed(q + Len(response') + j)
    BY <1>3, <1>7 DEF u
  <2>4. QED
    BY <2>1, <2>2, <2>3 DEF Stream
<1>10. QED
  BY <1>3, <1>9 DEF o

\* What is read goes from the front of the unread to the end of the buffer.
LEMMA StreamRead ==
  ASSUME TypeOK, NEW q \in Nat, NEW n \in Nat, Stream(q, n), NEW w \in 1..Len(out),
         response' = response \o SubSeq(out, 1, w), out' = SubSeq(out, w + 1, Len(out))
  PROVE  Stream(q, n)' /\ Len(out') = Len(out) - w
<1> DEFINE u == Len(response)
<1> DEFINE o == Len(out)
<1> DEFINE L == Len(Banner)
<1> DEFINE piece == SubSeq(out, 1, w)
<1>1. u \in Nat /\ o \in Nat /\ L \in Nat /\ w \in Nat /\ w <= o /\ w >= 1
  BY Lengths
<1>2. /\ q + u + o = L + 5 * n
      /\ \A j \in 1..u : response[j] = Printed(q + j)
      /\ \A j \in 1..o : out[j] = Printed(q + u + j)
  BY DEF Stream
<1>3. \A j \in 1..o : out[j] \in Byte
  BY LenProperties DEF TypeOK
<1>4. piece \in Seq(Byte) /\ Len(piece) = w /\ \A j \in 1..w : piece[j] = out[j]
  <2>1. \A j \in 1..w : out[j] \in Byte
    BY <1>1, <1>3
  <2>2. /\ piece \in Seq(Byte) /\ Len(piece) = w
        /\ \A j \in 1..(w - 1 + 1) : piece[j] = out[1 + j - 1]
    BY <1>1, <2>1, SubSeqProperties
  <2> HIDE DEF piece
  <2>3. w - 1 + 1 = w /\ \A j \in 1..w : 1 + j - 1 = j
    BY <1>1
  <2>4. QED
    BY <2>2, <2>3
<1>5. /\ Len(out') = o - w
      /\ \A j \in 1..(o - w) : out'[j] = out[w + j]
  <2>1. \A j \in (w + 1)..o : out[j] \in Byte
    BY <1>1, <1>3
  <2>2. /\ Len(out') = IF w + 1 <= o THEN o - (w + 1) + 1 ELSE 0
        /\ \A j \in 1..(o - (w + 1) + 1) : out'[j] = out[(w + 1) + j - 1]
    BY <1>1, <2>1, SubSeqProperties
  <2> HIDE DEF o
  <2>3. /\ o - (w + 1) + 1 = o - w /\ (~(w + 1 <= o) => o - w = 0)
        /\ \A j \in 1..(o - w) : (w + 1) + j - 1 = w + j
    BY <1>1
  <2>4. QED
    BY <2>2, <2>3
<1>6. /\ Len(response') = u + w
      /\ \A j \in 1..(u + w) : response'[j] = IF j <= u THEN response[j] ELSE piece[j - u]
  <2>1. response \in Seq(Byte) /\ response' = response \o piece
    BY DEF TypeOK
  <2>2. QED
    BY <1>4, <2>1, ConcatProperties
<1> HIDE DEF u, o, L, piece
<1>7. ASSUME NEW j \in 1..(u + w)
      PROVE  response'[j] = Printed(q + j)
  <2>1. CASE j <= u
    <3>1. j \in 1..u
      BY <1>1, <2>1
    <3>2. response'[j] = response[j]
      BY <1>6, <2>1
    <3>3. QED
      BY <1>2, <3>1, <3>2
  <2>2. CASE ~(j <= u)
    <3>1. j - u \in 1..w /\ j - u \in 1..o /\ q + u + (j - u) = q + j
      BY <1>1, <2>2
    <3>2. response'[j] = piece[j - u]
      BY <1>6, <2>2
    <3>3. piece[j - u] = out[j - u] /\ out[j - u] = Printed(q + u + (j - u))
      BY <1>2, <1>4, <3>1
    <3>4. QED
      BY <3>1, <3>2, <3>3
  <2>3. QED
    BY <2>1, <2>2
<1>8. ASSUME NEW j \in 1..(o - w)
      PROVE  out'[j] = Printed(q + (u + w) + j)
  <2>1. w + j \in 1..o /\ q + u + (w + j) = q + (u + w) + j
    BY <1>1
  <2>2. out[w + j] = Printed(q + u + (w + j))
    BY <1>2, <2>1
  <2>3. QED
    BY <1>5, <2>1, <2>2
<1>9. q + (u + w) + (o - w) = L + 5 * n
  BY <1>1, <1>2
<1>10. Stream(q, n)'
  <2>1. q + Len(response') + Len(out') = Len(Banner) + 5 * n
    BY <1>5, <1>6, <1>9 DEF L
  <2>2. \A j \in 1..Len(response') : response'[j] = Printed(q + j)
    BY <1>6, <1>7
  <2>3. \A j \in 1..Len(out') : out'[j] = Printed(q + Len(response') + j)
    BY <1>5, <1>6, <1>8
  <2>4. QED
    BY <2>1, <2>2, <2>3 DEF Stream
<1>11. QED
  BY <1>5, <1>10 DEF o
-----------------------------------------------------------------------------
\* What is excused is a number, which grows with the failures; room that suffices for
\* more failures suffices for fewer.
LEMMA ExcusedGrows ==
  ASSUME TypeOK, size' = size, failures' \in {failures, failures + 1}
  PROVE  /\ Excused \in Nat /\ Excused' \in Nat
         /\ Excused' = IF failures' = failures THEN Excused ELSE Excused + 2
         /\ Roomy' => Roomy
<1>1. /\ OldPrompts \in Nat /\ failures \in Nat /\ failures' \in Nat /\ Len(Banner) \in Nat
      /\ size \in Nat /\ Len(Answer) = 5 /\ Attempts * Chunk \in Nat
  <2>1. OldPrompts \in Nat
    BY OwingFirst
  <2>2. failures \in Nat /\ failures' \in Nat
    BY BoundsAssumption DEF TypeOK
  <2>3. Len(Banner) \in Nat /\ Len(Answer) = 5 /\ size \in Nat
    BY Lengths, Numbers
  <2>4. Attempts * Chunk \in Nat
    BY BoundsAssumption
  <2>5. QED
    BY <2>1, <2>2, <2>3, <2>4
<1>2. Excused = OldPrompts + 2 * failures /\ Excused' = OldPrompts + 2 * failures'
  BY DEF Excused, OldPrompts
<1>3. /\ Excused \in Nat /\ Excused' \in Nat /\ Excused <= Excused'
      /\ Excused' = IF failures' = failures THEN Excused ELSE Excused + 2
  <2> DEFINE e == Excused
  <2> DEFINE f == Excused'
  <2> DEFINE g == failures'
  <2>1. /\ e = OldPrompts + 2 * failures /\ f = OldPrompts + 2 * g
        /\ g \in {failures, failures + 1}
    BY <1>2
  <2> HIDE DEF e, f, g
  <2>2. e \in Nat /\ f \in Nat /\ e <= f /\ f = IF g = failures THEN e ELSE e + 2
    BY <1>1, <2>1
  <2>3. QED
    BY <2>2 DEF e, f, g
<1>4. Roomy' => Roomy
  <2> DEFINE e == Excused
  <2> DEFINE f == Excused'
  <2> DEFINE all == Attempts * Chunk
  <2>1. Roomy' => size > Len(Banner) + (f + 1) * 5 /\ Len(Banner) + (f + 1) * 5 < all
    BY <1>1 DEF Roomy, Readable
  <2>2. size > Len(Banner) + (e + 1) * 5 /\ Len(Banner) + (e + 1) * 5 < all => Roomy
    BY <1>1 DEF Roomy, Readable
  <2>3. e \in Nat /\ f \in Nat /\ e <= f /\ all \in Nat
    BY <1>1, <1>3
  <2> HIDE DEF e, f, all
  <2>4. size > Len(Banner) + (f + 1) * 5 /\ Len(Banner) + (f + 1) * 5 < all =>
          size > Len(Banner) + (e + 1) * 5 /\ Len(Banner) + (e + 1) * 5 < all
    BY <1>1, <2>3
  <2>5. QED
    BY <2>1, <2>2, <2>4
<1>5. QED
  BY <1>3, <1>4

\* What is gone, read and unread at a place: all of it has room, and can be read within
\* the attempts.
LEMMA PlaceNumbers ==
  ASSUME TypeOK, Roomy, misses <= Excused, NEW q \in Nat, NEW n \in Nat, Place(q, n)
  PROVE  /\ q + Len(response) + Len(out) = Len(Banner) + 5 * n
         /\ Len(Banner) + 5 * n < size
         /\ Len(Banner) + 5 * n < Attempts * Chunk
         /\ misses + Owing(q) <= Excused
<1> DEFINE e == Excused
<1> DEFINE all == Attempts * Chunk
<1>1. /\ Excused \in Nat /\ Len(Answer) = 5 /\ Len(Banner) \in Nat /\ misses \in Nat
      /\ size \in Nat /\ all \in Nat
  BY OwingFirst, Lengths, Numbers, BoundsAssumption DEF TypeOK, Excused
<1>2. size > Len(Banner) + (e + 1) * 5 /\ Len(Banner) + (e + 1) * 5 < all
  BY <1>1 DEF Roomy, Readable
<1>3. n <= misses + 1 /\ misses + Owing(q) <= Excused
  <2>1. n + Asked <= misses + (IF Reading THEN 1 ELSE 0) /\ Asked \in {0, 1}
    BY DEF Place, Asked
  <2>2. QED
    BY <1>1, <2>1 DEF Place
<1>4. q + Len(response) + Len(out) = Len(Banner) + 5 * n
  BY DEF Place, Stream
<1> HIDE DEF e, all
<1>5. Len(Banner) + 5 * n < size /\ Len(Banner) + 5 * n < all
  <2>1. e \in Nat /\ n <= e + 1
    BY <1>1, <1>3 DEF e
  <2>2. Len(Banner) + 5 * n <= Len(Banner) + (e + 1) * 5
    BY <1>1, <2>1
  <2> DEFINE most == Len(Banner) + (e + 1) * 5
  <2>3. most \in Nat
    BY <1>1, <2>1
  <2> HIDE DEF most
  <2>4. QED
    BY <1>1, <1>2, <2>2, <2>3 DEF most
<1>6. QED
  BY <1>3, <1>4, <1>5 DEF all

\* A tool returns: nothing that is gone is owing, and a look that is missed has been
\* excused.
LEMMA ReturnAccounted ==
  ASSUME IInv, misses <= Excused, Excused \in Nat, Excused' \in Nat, Excused <= Excused',
         NEW found \in BOOLEAN, Return(found), owed' = owed, out' = out,
         NEW q \in Nat, NEW n \in Nat, Place(q, n), NEW u \in Nat, u = Len(response),
         ~found => misses + 1 + Owing(q + u) <= Excused' /\ (owed \/ out # <<>>)
  PROVE  Accounted'
<1>1. misses \in Nat /\ Owing(q + u) \in Nat /\ q + u \in Nat
  <2>1. q + u \in Nat
    OBVIOUS
  <2>2. Owing(q + u) \in Nat
    BY <2>1, OwingType
  <2>3. QED
    BY <2>1, <2>2, Numbers DEF IInv
<1>2. misses' = (IF found THEN misses ELSE misses + 1) /\ response' = <<>> /\ attempt' = 0
      /\ pc' \in (IF found THEN {"found"} ELSE {"gaveUp", "connect"})
  BY DEF Return
<1>3. misses' <= Excused'
  <2> DEFINE e == Excused
  <2> DEFINE f == Excused'
  <2> DEFINE m == misses'
  <2> DEFINE w == Owing(q + u)
  <2>1. m = (IF found THEN misses ELSE misses + 1) /\ (~found => misses + 1 + w <= f)
        /\ e \in Nat /\ f \in Nat /\ e <= f /\ w \in Nat /\ misses <= e
    BY <1>1, <1>2
  <2> HIDE DEF e, f, m, w
  <2>2. m <= f
    BY <1>1, <2>1
  <2>3. QED
    BY <2>2 DEF m, f
<1>4. ASSUME pc' = "connect"
      PROVE  Place(q + u, n)'
  <2>1. ~found
    BY <1>2, <1>4
  <2>2. Stream(q + u, n)'
    <3>1. TypeOK /\ Stream(q, n) /\ response' = <<>>
      BY <1>2 DEF Place, IInv
    <3>2. QED
      BY <3>1, StreamGone
  <2>3. n + Asked' <= misses' + (IF Reading' THEN 1 ELSE 0)
    <3>1. n + Asked <= misses + (IF Reading THEN 1 ELSE 0) /\ Asked \in {0, 1}
      BY DEF Place, Asked
    <3>2. Asked' = Asked /\ ~Reading' /\ misses' = misses + 1
      BY <1>2, <1>4, <2>1 DEF Asked, Reading
    <3>3. n + Asked <= misses + 1
      BY <1>1, <3>1
    <3>4. n + Asked' <= (misses + 1) + 0
      BY <1>1, <3>1, <3>2, <3>3
    <3>5. QED
      BY <3>2, <3>4
  <2>4. misses' + Owing(q + u)' <= Excused'
    <3>1. Owing(q + u)' = Owing(q + u)
      BY DEF Owing, Ahead, CutOff, PromptAt, Printed
    <3>2. QED
      BY <1>2, <2>1, <3>1
  <2>5. owed' \/ out' # <<>>
    BY <2>1
  <2>6. ~Reading' /\ pc' # "dump" /\ pc' # "check"
    BY <1>4 DEF Reading
  <2>7. QED
    BY <1>2, <2>2, <2>3, <2>4, <2>5, <2>6 DEF Place
<1>5. pc' \in {"connect", "dump", "check"} => \E r, k \in Nat : Place(r, k)'
  BY <1>1, <1>2, <1>4
<1>6. QED
  BY <1>3, <1>5 DEF Accounted

\* A tool that found no prompt asks once more, or has used up its attempts; then there
\* is nothing to be read, and one byte only has been read, the last of a prompt.
LEMMA AgainAccounted ==
  ASSUME IInv, Roomy, misses <= Excused, NEW q \in Nat, NEW n \in Nat, Place(q, n),
         Again, UNCHANGED <<size, owed, out, failures>>, ~EndsInPrompt(response),
         pc = "check" \/ (pc = "dump" /\ out = <<>>)
  PROVE  Accounted'
<1>1. /\ Excused \in Nat /\ Excused' = Excused
  <2>1. failures' \in {failures, failures + 1}
    OBVIOUS
  <2>2. QED
    BY <2>1, ExcusedGrows DEF IInv
<1>2. CASE attempt + 1 < Attempts
  <2>1. pc' = "dump" /\ attempt' = attempt + 1 /\ response' = response /\ misses' = misses
    BY <1>2 DEF Again
  <2>2. Stream(q, n)'
    BY <2>1 DEF Place, Stream, Printed
  <2>3. /\ n + Asked' <= misses' + (IF Reading' THEN 1 ELSE 0)
        /\ misses' + Owing(q)' <= Excused'
    <3>1. Owing(q)' = Owing(q)
      BY DEF Owing, Ahead, CutOff, PromptAt, Printed
    <3>2. Reading' /\ Reading /\ Asked' = Asked
      BY <2>1 DEF Reading, Asked
    <3>3. QED
      BY <1>1, <2>1, <3>1, <3>2 DEF Place
  <2>4. /\ Reading' => q < Len(Banner) + 5 * n
        /\ Reading' /\ ~owed' => n >= 1 /\ q + 5 <= Len(Banner) + 5 * n
    BY <2>1 DEF Place, Reading
  <2>5. ~EndsInPrompt(response')
    BY <2>1
  <2>6. out' # <<>> => Readable(Len(out'), Attempts - attempt')
    <3>1. out # <<>> => Readable(Len(out), Attempts - attempt - 1)
      BY DEF Place
    <3>2. Attempts - (attempt + 1) = Attempts - attempt - 1
      BY Numbers DEF IInv
    <3>3. QED
      BY <2>1, <3>1, <3>2
  <2>7. Place(q, n)'
    BY <2>1, <2>2, <2>3, <2>4, <2>5, <2>6 DEF Place
  <2>8. QED
    BY <1>1, <2>1, <2>7 DEF Accounted
<1>3. CASE ~(attempt + 1 < Attempts)
  <2>1. Return(HasResult(response)) /\ HasResult(response) \in BOOLEAN
    BY <1>3 DEF Again, HasResult
  <2>2. out = <<>>
    <3>1. Attempts - attempt - 1 = 0
      <4>1. attempt \in 0..(Attempts - 1) /\ Attempts \in Nat
        BY Numbers DEF IInv, TypeOK
      <4>2. QED
        BY <1>3, <4>1
    <3>2. ~Readable(Len(out), 0)
      BY Lengths, BoundsAssumption DEF IInv, Readable
    <3>3. QED
      BY <3>1, <3>2 DEF Place
  <2>3. PICK u \in Nat : u = Len(response)
    BY Lengths DEF IInv
  <2>4. q + u = Len(Banner) + 5 * n /\ PromptAt(q + u)
    <3>1. q + u + Len(out) = Len(Banner) + 5 * n /\ Len(out) = 0
      BY <2>2, <2>3, Lengths DEF Place, Stream, IInv
    <3>2. q + u = Len(Banner) + 5 * n
      BY <3>1
    <3>3. QED
      BY <3>2, PromptAfter
  <2>5. u = 1
    <3>1. ~(u >= 2)
      BY <2>3, <2>4, ResponsePrompt DEF Place, IInv
    <3>2. q < Len(Banner) + 5 * n
      BY DEF Place, Reading
    <3>3. u # 0
      BY <2>4, <3>2
    <3>4. QED
      BY <3>1, <3>3
  <2>6. owed
    <3>1. SUFFICES ASSUME ~owed PROVE FALSE
      OBVIOUS
    <3>2. q + 5 <= Len(Banner) + 5 * n
      BY <3>1 DEF Place, Reading
    <3>3. QED
      BY <2>4, <2>5, <3>2
  <2>7. Owing(q + u) + 1 <= Owing(q)
    <3>1. ~ResultIn(q, q + u)
      BY <2>5, BannerEnds DEF ResultIn
    <3>2. q + u \in Nat /\ q < q + u
      BY <2>5
    <3>3. QED
      BY <2>4, <3>1, <3>2, MissPaid
  <2>8. misses + 1 + Owing(q + u) <= Excused
    <3>1. misses + Owing(q) <= Excused
      BY DEF Place
    <3>2. Owing(q) \in Nat /\ Owing(q + u) \in Nat /\ misses \in Nat
      <4>1. q + u \in Nat
        BY <2>5
      <4>2. QED
        BY <4>1, OwingType, Numbers DEF IInv
    <3>3. QED
      BY <1>1, <2>7, <3>1, <3>2
  <2>9. Excused' \in Nat /\ Excused <= Excused'
    BY <1>1
  <2>10. misses + 1 + Owing(q + u) <= Excused'
    BY <1>1, <2>8
  <2>11. QED
    BY <1>1, <2>1, <2>3, <2>6, <2>9, <2>10, ReturnAccounted
<1>4. QED
  BY <1>2, <1>3

\* What is there to be read when the command is sent can be read within the attempts.
LEMMA SendAccounted == IInv /\ Accounted /\ Send => Accounted'
<1> SUFFICES ASSUME IInv, Accounted, Send, Roomy'
             PROVE  misses' <= Excused' /\ \E q, n \in Nat : Place(q, n)'
  BY DEF Accounted
<1>1. /\ pc = "connect" /\ ~owed /\ pc' = "dump" /\ owed' = TRUE
      /\ UNCHANGED <<size, attempt, response, out, failures, misses>>
  BY DEF Send
<1>2. Roomy /\ Excused' = Excused
  <2>1. failures' \in {failures, failures + 1}
    BY <1>1
  <2>2. QED
    BY <1>1, <2>1, ExcusedGrows DEF IInv
<1>3. misses <= Excused
  BY <1>2 DEF Accounted
<1>4. PICK q \in Nat, n \in Nat : Place(q, n)
  BY <1>1, <1>2 DEF Accounted
<1>5. attempt = 0 /\ response = <<>> /\ out # <<>> /\ Len(response) = 0
  BY <1>1, <1>4, EmptySeq DEF Place
<1>6. q + Len(out) = Len(Banner) + 5 * n /\ Len(Banner) + 5 * n < Attempts * Chunk
  <2>1. q + 0 + Len(out) = Len(Banner) + 5 * n /\ Len(Banner) + 5 * n < Attempts * Chunk
    BY <1>2, <1>3, <1>4, <1>5, PlaceNumbers DEF IInv
  <2>2. q + 0 = q
    OBVIOUS
  <2>3. QED
    BY <2>1, <2>2
<1>7. Stream(q, n)'
  BY <1>1, <1>4 DEF Place, Stream, Printed
<1>8. n + Asked' <= misses' + (IF Reading' THEN 1 ELSE 0)
  <2>1. n + 0 <= misses + 0
    BY <1>1, <1>4 DEF Place, Asked, Reading
  <2>2. n + 1 <= misses + 1
    BY <2>1, Numbers DEF IInv
  <2>3. QED
    BY <1>1, <2>2 DEF Asked, Reading
<1>9. misses' + Owing(q)' <= Excused'
  <2>1. Owing(q)' = Owing(q)
    BY DEF Owing, Ahead, CutOff, PromptAt, Printed
  <2>2. QED
    BY <1>1, <1>2, <1>4, <2>1 DEF Place
<1>10. Len(out) \in Nat /\ Len(out) >= 1 /\ Len(Banner) \in Nat
  BY <1>5, Lengths DEF IInv
<1>11. q < Len(Banner) + 5 * n
  BY <1>6, <1>10
<1>12. ~EndsInPrompt(response')
  BY <1>1, <1>5 DEF EndsInPrompt
<1>13. Readable(Len(out'), Attempts - attempt')
  <2> DEFINE all == Attempts * Chunk
  <2>1. all \in Nat /\ Attempts - 0 = Attempts
    BY BoundsAssumption
  <2>2. Len(out) < all
    <3>1. Len(Banner) + 5 * n < all
      BY <1>6
    <3> HIDE DEF all
    <3>2. QED
      BY <1>6, <1>10, <2>1, <3>1
  <2>3. QED
    BY <1>1, <1>5, <2>1, <2>2 DEF Readable
<1>14. Place(q, n)'
  BY <1>1, <1>7, <1>8, <1>9, <1>11, <1>12, <1>13 DEF Place
<1>15. QED
  BY <1>1, <1>2, <1>3, <1>14

\* iBoot prints the answer after everything that is unread.
LEMMA PrintAccounted == IInv /\ Accounted /\ IBootPrints => Accounted'
<1> SUFFICES ASSUME IInv, Accounted, IBootPrints, Roomy',
                    pc \in {"connect", "dump", "check"} => \E q, n \in Nat : Place(q, n)
             PROVE  /\ misses' <= Excused'
                    /\ pc \in {"connect", "dump", "check"} => \E q, n \in Nat : Place(q, n)'
  <2>1. IBootPrints => pc' = pc
    BY DEF IBootPrints
  <2>2. IBootPrints /\ IInv /\ Roomy' => Roomy
    <3>1. IBootPrints => size' = size /\ failures' \in {failures, failures + 1}
      BY DEF IBootPrints
    <3>2. QED
      BY <3>1, ExcusedGrows DEF IInv
  <2>3. QED
    BY <2>1, <2>2 DEF Accounted
<1>1. /\ owed /\ out' = out \o Answer /\ owed' = FALSE
      /\ UNCHANGED <<size, pc, attempt, response, failures, misses>>
  BY DEF IBootPrints
<1>2. Roomy /\ Excused' = Excused
  <2>1. failures' \in {failures, failures + 1}
    BY <1>1
  <2>2. QED
    BY <1>1, <2>1, ExcusedGrows DEF IInv
<1>3. misses <= Excused
  BY <1>2 DEF Accounted
<1>4. ASSUME NEW q \in Nat, NEW n \in Nat, Place(q, n)
      PROVE  Place(q, n + 1)'
  <2>1. Stream(q, n + 1)' /\ Len(out') = Len(out) + 5
    BY <1>1, <1>4, StreamPrinted DEF IInv, Place
  <2>2. (n + 1) + Asked' <= misses' + (IF Reading' THEN 1 ELSE 0)
    <3>1. n + 1 <= misses + (IF Reading THEN 1 ELSE 0)
      BY <1>1, <1>4 DEF Place, Asked
    <3>2. Asked' = 0 /\ Reading' = Reading /\ (n + 1) + 0 = n + 1
      BY <1>1 DEF Asked, Reading
    <3>3. QED
      BY <1>1, <3>1, <3>2
  <2>3. misses' + Owing(q)' <= Excused'
    <3>1. Owing(q)' = Owing(q)
      BY DEF Owing, Ahead, CutOff, PromptAt, Printed
    <3>2. QED
      BY <1>1, <1>2, <1>4, <3>1 DEF Place
  <2>4. pc' = "connect" => attempt' = 0 /\ response' = <<>> /\ out' # <<>>
    <3>1. out' # <<>>
      <4>1. Len(out') # 0
        BY <2>1, Lengths DEF IInv
      <4>2. QED
        BY <4>1, EmptySeq
    <3>2. QED
      BY <1>1, <1>4, <3>1 DEF Place
  <2>5. /\ Reading' => q < Len(Banner) + 5 * (n + 1)
        /\ Reading' => n + 1 >= 1 /\ q + 5 <= Len(Banner) + 5 * (n + 1)
    <3>1. ASSUME Reading'
          PROVE  q < Len(Banner) + 5 * n
      BY <1>1, <1>4, <3>1 DEF Place, Reading
    <3>2. QED
      BY <3>1, BannerEnds
  <2>6. pc' = "dump" => ~EndsInPrompt(response')
    BY <1>1, <1>4 DEF Place
  <2>7. pc' \in {"dump", "check"} => Readable(Len(out'), Attempts - attempt' - 1)
    BY <1>1 DEF IBootPrints
  <2>8. Readable(Len(out'), Attempts - attempt' - 1) => Readable(Len(out'), Attempts - attempt')
    <3> DEFINE o == Len(out')
    <3>1. o \in Nat /\ attempt' = attempt /\ Chunk \in Nat /\ Attempts - attempt \in Nat
      BY <1>1, <2>1, Lengths, Numbers, BoundsAssumption DEF IInv, TypeOK
    <3> HIDE DEF o
    <3>2. o < (Attempts - attempt - 1) * Chunk => o < (Attempts - attempt) * Chunk
      <4>1. ASSUME NEW k \in Nat, o < (k - 1) * Chunk
            PROVE  o < k * Chunk
        <5>1. (k - 1) * Chunk = k * Chunk - Chunk
          BY <3>1
        <5> DEFINE x == k * Chunk
        <5>2. x \in Int
          BY <3>1
        <5>3. o < x - Chunk
          BY <4>1, <5>1
        <5> HIDE DEF x
        <5>4. o < x
          BY <3>1, <5>2, <5>3
        <5>5. QED
          BY <5>4 DEF x
      <4>2. QED
        BY <3>1, <4>1
    <3>3. QED
      BY <3>1, <3>2 DEF Readable, o
  <2>9. QED
    BY <1>1, <2>1, <2>2, <2>3, <2>4, <2>5, <2>6, <2>7, <2>8 DEF Place
<1>5. ASSUME pc \in {"connect", "dump", "check"}
      PROVE  \E q, n \in Nat : Place(q, n)'
  <2>1. PICK q \in Nat, n \in Nat : Place(q, n)
    BY <1>5
  <2>2. n + 1 \in Nat /\ Place(q, n + 1)'
    BY <1>4, <2>1
  <2>3. QED
    BY <2>2
<1>6. QED
  BY <1>1, <1>2, <1>3, <1>5

\* The buffer has room for all that is reported, and an attempt has used up Chunk bytes
\* or left none.
LEMMA BulkReadAccounted ==
  ASSUME IInv, Accounted, NEW k \in 1..Len(out), BulkRead(k)
  PROVE  Accounted'
<1> SUFFICES ASSUME Roomy'
             PROVE  misses' <= Excused' /\ \E q, n \in Nat : Place(q, n)'
  BY DEF Accounted
<1> DEFINE o == Len(out)
<1> DEFINE u == Len(response)
<1> DEFINE wanted == Least(k, Available)
<1>1. /\ pc = "dump" /\ pc' = "check" /\ k >= Least(Chunk, Len(out))
      /\ response' = response \o SubSeq(out, 1, wanted)
      /\ out' = SubSeq(out, wanted + 1, Len(out))
      /\ UNCHANGED <<size, attempt, owed, failures, misses>>
  BY DEF BulkRead, Stored
<1>2. Roomy /\ Excused' = Excused
  <2>1. failures' \in {failures, failures + 1}
    BY <1>1
  <2>2. QED
    BY <1>1, <2>1, ExcusedGrows DEF IInv
<1>3. misses <= Excused
  BY <1>2 DEF Accounted
<1>4. PICK q \in Nat, n \in Nat : Place(q, n)
  BY <1>1, <1>2 DEF Accounted
<1>5. q + u + o = Len(Banner) + 5 * n /\ Len(Banner) + 5 * n < size
  BY <1>2, <1>3, <1>4, PlaceNumbers DEF IInv
<1>6. /\ u \in Nat /\ o \in Nat /\ size \in Nat /\ k \in Nat /\ k >= 1 /\ k <= o
      /\ Len(Banner) \in Nat /\ Chunk \in Nat
  BY Lengths, Numbers, BoundsAssumption DEF IInv
<1>7. wanted = k
  <2>1. Available = size - u - 1
    BY DEF Available, used
  <2> HIDE DEF u, o
  <2>2. k <= size - u - 1
    BY <1>5, <1>6
  <2>3. QED
    BY <1>6, <2>1, <2>2 DEF Least
<1> HIDE DEF wanted
<1>8. response' = response \o SubSeq(out, 1, k) /\ out' = SubSeq(out, k + 1, Len(out))
  BY <1>1, <1>7
<1>9. Stream(q, n)' /\ Len(out') = o - k
  BY <1>4, <1>8, StreamRead DEF IInv, Place
<1>10. /\ n + Asked' <= misses' + (IF Reading' THEN 1 ELSE 0)
       /\ misses' + Owing(q)' <= Excused'
  <2>1. Owing(q)' = Owing(q)
    BY DEF Owing, Ahead, CutOff, PromptAt, Printed
  <2>2. Reading' /\ Reading /\ Asked' = Asked
    BY <1>1 DEF Reading, Asked
  <2>3. QED
    BY <1>1, <1>2, <1>4, <2>1, <2>2 DEF Place
<1>11. /\ q < Len(Banner) + 5 * n
       /\ ~owed' => n >= 1 /\ q + 5 <= Len(Banner) + 5 * n
  BY <1>1, <1>4 DEF Place, Reading
<1>12. out' # <<>> => Readable(Len(out'), Attempts - attempt' - 1)
  <2> SUFFICES ASSUME out' # <<>>
               PROVE  Readable(Len(out'), Attempts - attempt - 1)
    BY <1>1
  <2>1. Len(out') # 0
    <3>1. out' \in Seq(Byte)
      BY BulkReadInvariant DEF IInv, TypeOK
    <3>2. QED
      BY <3>1, EmptySeq
  <2>2. k >= Chunk
    <3>1. o - k # 0
      BY <1>9, <2>1
    <3>2. k >= (IF Chunk < o THEN Chunk ELSE o)
      BY <1>1 DEF Least
    <3> HIDE DEF o
    <3>3. k < o
      BY <1>6, <3>1
    <3>4. QED
      BY <1>6, <3>2, <3>3
  <2>3. o < (Attempts - attempt) * Chunk
    <3>1. out # <<>>
      BY <1>6, EmptySeq
    <3>2. QED
      BY <1>1, <1>4, <3>1 DEF Place, Readable
  <2>4. Attempts - attempt \in Nat
    BY Numbers DEF IInv, TypeOK
  <2> DEFINE x == (Attempts - attempt) * Chunk
  <2>5. x \in Nat /\ (Attempts - attempt - 1) * Chunk = x - Chunk
    <3>1. ASSUME NEW a \in Nat PROVE a * Chunk \in Nat /\ (a - 1) * Chunk = a * Chunk - Chunk
      BY <1>6
    <3>2. QED
      BY <2>4, <3>1
  <2>6. o < x
    BY <2>3
  <2> HIDE DEF x, o
  <2>7. o - k < x - Chunk
    BY <1>6, <2>2, <2>5, <2>6
  <2>8. QED
    BY <1>9, <2>5, <2>7 DEF Readable
<1>13. Place(q, n)'
  BY <1>1, <1>9, <1>10, <1>11, <1>12 DEF Place
<1>14. QED
  BY <1>1, <1>2, <1>3, <1>13

\* A look without output takes an attempt.
LEMMA NoOutputAccounted == IInv /\ Accounted /\ NoOutput => Accounted'
<1> SUFFICES ASSUME IInv, Accounted, NoOutput, Roomy' PROVE Accounted'
  BY DEF Accounted
<1>1. pc = "dump" /\ out = <<>> /\ Again /\ UNCHANGED <<size, owed, out, failures>>
  BY DEF NoOutput
<1>2. Roomy
  <2>1. failures' \in {failures, failures + 1}
    BY <1>1
  <2>2. QED
    BY <1>1, <2>1, ExcusedGrows DEF IInv
<1>3. misses <= Excused
  BY <1>2 DEF Accounted
<1>4. PICK q \in Nat, n \in Nat : Place(q, n)
  BY <1>1, <1>2 DEF Accounted
<1>5. ~EndsInPrompt(response)
  BY <1>1, <1>4 DEF Place
<1>6. QED
  BY <1>1, <1>2, <1>3, <1>4, <1>5, AgainAccounted

\* A prompt that ends a look without the result is an old one, or that of an answer
\* which was cut short; the buffer does not fill up.
LEMMA CheckAccounted == IInv /\ Accounted /\ Check => Accounted'
<1> SUFFICES ASSUME IInv, Accounted, Check, Roomy' PROVE Accounted'
  BY DEF Accounted
<1>1. pc = "check" /\ UNCHANGED <<size, owed, out, failures>>
  BY DEF Check
<1>2. Roomy /\ Excused \in Nat /\ Excused' = Excused
  <2>1. failures' \in {failures, failures + 1}
    BY <1>1
  <2>2. QED
    BY <1>1, <2>1, ExcusedGrows DEF IInv
<1>3. misses <= Excused
  BY <1>2 DEF Accounted
<1>4. PICK q \in Nat, n \in Nat : Place(q, n)
  BY <1>1, <1>2 DEF Accounted
<1>5. PICK u \in Nat : u = Len(response)
  BY Lengths DEF IInv
<1>6. /\ q + u + Len(out) = Len(Banner) + 5 * n /\ Len(Banner) + 5 * n < size
      /\ Stream(q, n) /\ Len(out) \in Nat /\ Len(Banner) \in Nat
  BY <1>2, <1>3, <1>4, <1>5, PlaceNumbers, Lengths DEF IInv, Place
<1>7. CASE EndsInPrompt(response)
  <2>1. Return(HasResult(response)) /\ HasResult(response) \in BOOLEAN
    BY <1>7 DEF Check, HasResult
  <2>2. PromptAt(q + u) /\ u >= 2
    BY <1>5, <1>6, <1>7, ResponsePrompt DEF IInv
  <2>3. ASSUME ~HasResult(response)
        PROVE  misses + 1 + Owing(q + u) <= Excused' /\ (owed \/ out # <<>>)
    <3>1. ~ResultIn(q, q + u)
      BY <1>5, <1>6, <2>3, ResponseResult DEF IInv
    <3>2. q + u \in Nat /\ q < q + u
      BY <2>2
    <3>3. Owing(q + u) + 1 <= Owing(q)
      BY <2>2, <3>1, <3>2, MissPaid
    <3>4. misses + 1 + Owing(q + u) <= Excused'
      <4>1. misses + Owing(q) <= Excused
        BY <1>4 DEF Place
      <4>2. Owing(q) \in Nat /\ Owing(q + u) \in Nat /\ misses \in Nat
        BY <3>2, OwingType, Numbers DEF IInv
      <4>3. misses + 1 + Owing(q + u) <= Excused
        BY <1>2, <3>3, <4>1, <4>2
      <4>4. QED
        BY <1>2, <4>3
    <3>5. ASSUME ~owed, out = <<>>
          PROVE  FALSE
      <4>1. n >= 1 /\ q + 5 <= Len(Banner) + 5 * n
        BY <1>1, <1>4, <3>5 DEF Place, Reading
      <4>2. q + u = Len(Banner) + 5 * n
        <5>1. Len(out) = 0
          BY <3>5, EmptySeq
        <5>2. QED
          BY <1>6, <5>1
      <4>3. /\ n - 1 \in Nat /\ q < Len(Banner) + 5 * (n - 1) + 2
            /\ Len(Banner) + 5 * (n - 1) + 3 <= q + u
        BY <1>6, <4>1, <4>2
      <4>4. QED
        BY <3>1, <4>3 DEF ResultIn
    <3>6. QED
      BY <3>4, <3>5
  <2>4. Excused' \in Nat /\ Excused <= Excused'
    BY <1>2
  <2>5. QED
    BY <1>1, <1>2, <1>3, <1>4, <1>5, <2>1, <2>3, <2>4, ReturnAccounted
<1>8. CASE ~EndsInPrompt(response)
  <2>1. ~(used + 1 >= size)
    <3> SUFFICES ASSUME used + 1 >= size PROVE FALSE
      OBVIOUS
    <3>1. u + 1 >= size /\ size \in Nat
      BY <1>5, Numbers DEF IInv, used
    <3>2. q = 0 /\ u = Len(Banner) + 5 * n /\ u >= 2
      BY <1>6, <3>1, BannerEnds
    <3>3. q + u = Len(Banner) + 5 * n
      BY <1>6, <3>2
    <3>4. PromptAt(q + u)
      BY <3>3, PromptAfter
    <3>5. QED
      BY <1>5, <1>6, <1>8, <3>2, <3>4, ResponsePrompt DEF IInv
  <2>2. Again
    BY <1>8, <2>1 DEF Check
  <2>3. pc = "check" \/ (pc = "dump" /\ out = <<>>)
    BY <1>1
  <2>4. QED
    BY <1>1, <1>2, <1>3, <1>4, <1>8, <2>2, <2>3, AgainAccounted
<1>9. QED
  BY <1>7, <1>8

\* A failed transfer loses what has been read: it costs this look, and another one if the
\* result was in it.
LEMMA TransferFailsAccounted == IInv /\ Accounted /\ TransferFails => Accounted'
<1> SUFFICES ASSUME IInv, Accounted, TransferFails, Roomy' PROVE Accounted'
  BY DEF Accounted
<1>1. /\ pc \in {"connect", "dump"} /\ failures' = failures + 1 /\ Return(FALSE)
      /\ UNCHANGED <<size, owed, out>>
  BY DEF TransferFails
<1>2. Roomy /\ Excused \in Nat /\ Excused' \in Nat /\ Excused' = Excused + 2
  <2>1. failures' \in {failures, failures + 1} /\ size' = size
    BY <1>1
  <2>2. failures' # failures
    <3>1. failures \in Nat
      BY BoundsAssumption DEF IInv, TypeOK
    <3>2. QED
      BY <1>1, <3>1
  <2>3. TypeOK
    BY DEF IInv
  <2>4. QED
    BY <2>1, <2>2, <2>3, ExcusedGrows
<1>3. misses <= Excused
  BY <1>2 DEF Accounted
<1>4. PICK q \in Nat, n \in Nat : Place(q, n)
  BY <1>1, <1>2 DEF Accounted
<1>5. PICK u \in Nat : u = Len(response)
  BY Lengths DEF IInv
<1>6. /\ q + u + Len(out) = Len(Banner) + 5 * n
      /\ Stream(q, n) /\ Len(out) \in Nat /\ Len(Banner) \in Nat
  BY <1>4, <1>5, Lengths DEF IInv, Place, Stream
<1>7. misses + 1 + Owing(q + u) <= Excused'
  <2>1. q + u \in Nat /\ q <= q + u
    OBVIOUS
  <2>2. Owing(q + u) <= Owing(q) + 1
    BY <2>1, OwingOneMore
  <2>3. Owing(q) \in Nat /\ Owing(q + u) \in Nat /\ misses \in Nat
    BY <2>1, OwingType, Numbers DEF IInv
  <2>4. misses + Owing(q) <= Excused
    BY <1>4 DEF Place
  <2>5. misses + 1 + Owing(q + u) <= Excused + 2
    BY <1>2, <2>2, <2>3, <2>4
  <2>6. QED
    BY <1>2, <2>5
<1>8. owed \/ out # <<>>
  <2>1. CASE pc = "connect"
    BY <1>4, <2>1 DEF Place
  <2>2. CASE pc = "dump"
    <3> SUFFICES ASSUME ~owed, out = <<>> PROVE FALSE
      OBVIOUS
    <3>1. q + 5 <= Len(Banner) + 5 * n /\ ~EndsInPrompt(response)
      BY <1>4, <2>2 DEF Place, Reading
    <3>2. q + u = Len(Banner) + 5 * n
      <4>1. Len(out) = 0
        BY EmptySeq
      <4>2. QED
        BY <1>6, <4>1
    <3>3. u >= 2
      BY <3>1, <3>2, <1>6
    <3>4. PromptAt(q + u)
      BY <3>2, PromptAfter
    <3>5. QED
      BY <1>5, <1>6, <3>1, <3>3, <3>4, ResponsePrompt DEF IInv
  <2>3. QED
    BY <1>1, <2>1, <2>2
<1>9. Excused <= Excused'
  BY <1>2
<1>10. FALSE \in BOOLEAN
  OBVIOUS
<1>11. QED
  BY <1>1, <1>2, <1>3, <1>4, <1>5, <1>7, <1>8, <1>9, <1>10, ReturnAccounted

\* At first nothing is gone, and the banner is to be read.
LEMMA AccountedInitially == Init => Accounted
<1> SUFFICES ASSUME Init PROVE Accounted
  OBVIOUS
<1>1. /\ pc = "connect" /\ attempt = 0 /\ response = <<>> /\ owed = FALSE /\ out = Banner
      /\ failures = 0 /\ misses = 0
  BY DEF Init
<1>2. Len(response) = 0 /\ Len(Banner) \in Nat /\ Len(Banner) >= 2 /\ out # <<>>
  BY <1>1, EmptySeq, BannerEnds
<1>3. OldPrompts \in Nat /\ Owing(0) = OldPrompts /\ Excused = OldPrompts + 2 * 0
  BY <1>1, OwingFirst DEF Excused
<1>4. Excused = OldPrompts /\ 0 + Owing(0) <= Excused /\ 0 <= Excused
  BY <1>3
<1>5. Stream(0, 0)
  <2>1. 0 + Len(response) + Len(out) = Len(Banner) + 5 * 0
    BY <1>1, <1>2
  <2>2. \A j \in 1..Len(response) : response[j] = Printed(0 + j)
    BY <1>2
  <2>3. \A j \in 1..Len(out) : out[j] = Printed(0 + Len(response) + j)
    <3>1. ASSUME NEW j \in 1..Len(Banner)
          PROVE  Banner[j] = Printed(0 + 0 + j)
      <4>1. j <= Len(Banner) /\ 0 + 0 + j = j
        BY <1>2
      <4>2. QED
        BY <4>1 DEF Printed
    <3>2. QED
      BY <1>1, <1>2, <3>1
  <2>4. QED
    BY <2>1, <2>2, <2>3 DEF Stream
<1>6. 0 + Asked <= misses + (IF Reading THEN 1 ELSE 0)
  BY <1>1 DEF Asked, Reading
<1>7. Place(0, 0)
  BY <1>1, <1>2, <1>4, <1>5, <1>6 DEF Place, Reading
<1>8. 0 \in Nat
  OBVIOUS
<1>9. QED
  BY <1>1, <1>4, <1>7, <1>8 DEF Accounted

\* Every step accounts for the looks it misses.
LEMMA AccountedStep == IInv /\ Accounted /\ [Next]_vars => Accounted'
<1> SUFFICES ASSUME IInv, Accounted, [Next]_vars PROVE Accounted'
  OBVIOUS
<1>1. CASE UNCHANGED vars
  <2>1. /\ pc' = pc /\ attempt' = attempt /\ response' = response /\ owed' = owed
        /\ out' = out /\ misses' = misses /\ size' = size /\ failures' = failures
    BY <1>1 DEF vars
  <2>2. Excused' = Excused
    BY <2>1 DEF Excused, OldPrompts
  <2>3. Roomy' = Roomy
    BY <2>1, <2>2 DEF Roomy, Readable, Answer
  <2>4. \A q, n \in Nat : Place(q, n) => Place(q, n)'
    <3> SUFFICES ASSUME NEW q \in Nat, NEW n \in Nat, Place(q, n) PROVE Place(q, n)'
      OBVIOUS
    <3>1. Stream(q, n)'
      BY <2>1 DEF Place, Stream, Printed
    <3>2. Owing(q)' = Owing(q) /\ Asked' = Asked /\ Reading' = Reading
      BY <2>1 DEF Owing, Ahead, CutOff, PromptAt, Printed, Asked, Reading
    <3>3. QED
      BY <2>1, <2>2, <3>1, <3>2 DEF Place
  <2>5. QED
    BY <2>1, <2>2, <2>3, <2>4 DEF Accounted
<1>2. QED
  BY <1>1, SendAccounted, NoOutputAccounted, CheckAccounted, TransferFailsAccounted,
     PrintAccounted, BulkReadAccounted DEF Next

\* However large the banner and the answers that pile up, with room and attempts for them a
\* poll misses no more looks than old prompts and failed transfers excuse.
THEOREM SeesInTime == Spec => []SeesSoon
<1>1. Init => IInv /\ Accounted
  BY Initially, AccountedInitially
<1>2. IInv /\ Accounted /\ [Next]_vars => (IInv /\ Accounted)'
  BY StepInvariant, AccountedStep
<1>3. Accounted => SeesSoon
  BY DEF Accounted, SeesSoon
<1>4. QED
  BY <1>1, <1>2, <1>3, PTL DEF Spec
-----------------------------------------------------------------------------
(* The tools that load images.                                             *)

\* Everything that loads images.
Tools == {"load", "stock", "raw"}

\* The instructions of legacy-load-image, one by one.
LEMMA LoadLines ==
  /\ Len(LoadTool) = 3
  /\ LoadTool[1] = File("iBEC", "load") /\ LoadTool[2] = SetSize("iBEC")
  /\ LoadTool[3] = Command("go")
BY DEF LoadTool

\* Those of legacy-boot-restore.
LEMMA StockLines ==
  /\ Len(StockTool) = 10
  /\ StockTool[1] = File("ramdisk", "load")
  /\ StockTool[2] = SetSize("ramdisk") /\ StockTool[3] = Command("ramdisk")
  /\ StockTool[4] = File("devicetree", "load")
  /\ StockTool[5] = SetSize("devicetree") /\ StockTool[6] = Command("devicetree")
  /\ StockTool[7] = File("kernel", "load") /\ StockTool[8] = SetSize("kernel")
  /\ StockTool[9] = Command("md0") /\ StockTool[10] = Command("bootx")
BY DEF StockTool

\* Those of legacy-boot-restore --raw.
LEMMA RawLines ==
  /\ Len(RawTool) = 13
  /\ RawTool[1] = File("logo", "load")
  /\ RawTool[2] = Command("setpicture") /\ RawTool[3] = Command("bgcolor")
  /\ RawTool[4] = File("ramdisk", "raw") /\ RawTool[5] = File("devicetree", "load")
  /\ RawTool[6] = SetSize("devicetree") /\ RawTool[7] = Command("devicetree")
  /\ RawTool[8] = File("kernel", "load") /\ RawTool[9] = SetSize("kernel")
  /\ RawTool[10] = Command("noargs") /\ RawTool[11] = Command("saveenv")
  /\ RawTool[12] = Command("pmd0") /\ RawTool[13] = Command("bootx")
BY DEF RawTool

\* The list of each tool.
LEMMA Programs ==
  /\ ProgramOf("load") = LoadTool /\ ProgramOf("stock") = StockTool
  /\ ProgramOf("raw") = RawTool
BY DEF ProgramOf

\* How many instructions a tool has.
Lines(t) == Len(ProgramOf(t))

\* The lengths of the lists.
LEMMA LinesOf == Lines("load") = 3 /\ Lines("stock") = 10 /\ Lines("raw") = 13
BY Programs, LoadLines, StockLines, RawLines DEF Lines

\* Every command of the lists is one that iBoot knows.
LEMMA CommandTypes ==
  /\ \A i \in Image : SetSize(i) \in Commands
  /\ \A c \in {"go", "ramdisk", "devicetree", "setpicture", "bgcolor",
           "noargs", "saveenv", "md0", "pmd0", "bootx"} : Command(c) \in Commands
BY ImageSizeAssumption DEF SetSize, Command, Commands, Image

\* A console that has not been sent anything has a memory.
LEMMA FreshType == Fresh \in Memory
<1>1. Nothing \in Content
  BY DEF Nothing, Content
<1>2. QED
  BY <1>1 DEF Fresh, Memory

\* Bytes go where they are sent, and touch nothing else if they fit below the raw ramdisk.
LEMMA Arrival ==
  ASSUME iBoot \in Memory, NEW i \in Image, NEW a \in {"load", "raw"}, NEW n \in Nat,
         Arrive(i, a, n)
  PROVE  /\ iBoot' \in Memory
         /\ iBoot'.mem[a] = [image |-> i, bytes |-> n, size |-> n]
         /\ n <= Gap \/ a = "raw" =>
              \A b \in {"load", "raw"} : b # a => iBoot'.mem[b] = iBoot.mem[b]
         /\ iBoot'.filesize = iBoot.filesize /\ iBoot'.slots = iBoot.slots
         /\ iBoot'.args = iBoot.args /\ iBoot'.trusted = iBoot.trusted
         /\ queue' = queue /\ overtaken' = (overtaken \/ queue # <<>>)
<1> DEFINE c == [image |-> i, bytes |-> n, size |-> n]
<1>1. c \in Content /\ Nothing \in Content
  BY DEF Content, Nothing
<1>2. /\ iBoot.mem \in [{"load", "raw"} -> Content]
      /\ iBoot.filesize \in Nat /\ iBoot.slots \in [{"ramdisk", "devicetree"} -> Content]
      /\ iBoot.args \in {"", "md0", "pmd0"} /\ iBoot.trusted \in BOOLEAN
      /\ iBoot = [mem |-> iBoot.mem, filesize |-> iBoot.filesize, slots |-> iBoot.slots,
                  args |-> iBoot.args, trusted |-> iBoot.trusted]
  BY DEF Memory
<1>3. iBoot' = [mem |-> iBoot'.mem, filesize |-> iBoot.filesize, slots |-> iBoot.slots,
               args |-> iBoot.args, trusted |-> iBoot.trusted]
  BY <1>2 DEF Arrive
<1>4. iBoot'.mem = [b \in {"load", "raw"} |->
                     IF b = a THEN c
                     ELSE IF b = "raw" /\ n > Gap THEN Nothing ELSE iBoot.mem[b]]
  BY <1>2 DEF Arrive
<1>5. iBoot'.mem \in [{"load", "raw"} -> Content]
  <2> HIDE DEF c
  <2> DEFINE v(b) == IF b = a THEN c
                     ELSE IF b = "raw" /\ n > Gap THEN Nothing ELSE iBoot.mem[b]
  <2>1. \A b \in {"load", "raw"} : v(b) \in Content
    BY <1>1, <1>2
  <2>2. iBoot'.mem = [b \in {"load", "raw"} |-> v(b)]
    BY <1>4
  <2> HIDE DEF v
  <2>3. QED
    BY <2>1, <2>2
<1>6. iBoot' \in Memory
  <2>1. iBoot' = [mem |-> iBoot'.mem, filesize |-> iBoot.filesize, slots |-> iBoot.slots,
                  args |-> iBoot.args, trusted |-> iBoot.trusted]
    BY <1>3
  <2> DEFINE m == iBoot'.mem
  <2>2. [mem |-> m, filesize |-> iBoot.filesize, slots |-> iBoot.slots,
         args |-> iBoot.args, trusted |-> iBoot.trusted] \in Memory
    <3>1. m \in [{"load", "raw"} -> Content]
      BY <1>5
    <3> HIDE DEF m
    <3>2. QED
      BY <1>2, <3>1 DEF Memory
  <2>3. QED
    BY <2>1, <2>2
<1>7. iBoot'.mem[a] = c
  BY <1>4
<1>8. n <= Gap \/ a = "raw" =>
        \A b \in {"load", "raw"} : b # a => iBoot'.mem[b] = iBoot.mem[b]
  <2> HIDE DEF c
  <2>1. QED
    BY <1>4, ImageSizeAssumption
<1>9. QED
  BY <1>3, <1>6, <1>7, <1>8 DEF Arrive

\* What each command changes, by name.
LEMMA EffectOf ==
  ASSUME iBoot \in Memory, NEW c \in Commands, iBoot' = Effect(c)
  PROVE  /\ iBoot' \in Memory /\ iBoot'.mem = iBoot.mem
         /\ iBoot'.filesize = IF c.name = "filesize" THEN c.size ELSE iBoot.filesize
         /\ \A s \in {"ramdisk", "devicetree"} :
              iBoot'.slots[s] = IF c.name = s THEN AtLoad ELSE iBoot.slots[s]
         /\ iBoot'.args = IF c.name \in {"md0", "pmd0"} THEN c.name
                          ELSE IF c.name = "noargs" THEN "" ELSE iBoot.args
         /\ iBoot'.trusted = (iBoot.trusted \/
               (c.name = "setpicture" /\ iBoot.mem["load"] = Whole("logo")))
<1>1. c.size \in Nat
  BY DEF Commands
<1>2. AtLoad \in Content
  <2>1. iBoot.mem["load"] \in Content /\ iBoot.filesize \in Nat
    BY DEF Memory
  <2>2. QED
    BY <2>1 DEF Content, AtLoad
<1>3. CASE c.name = "filesize"
  BY <1>1, <1>3 DEF Effect, Memory
<1>4. CASE c.name \in {"ramdisk", "devicetree"}
  <2>1. iBoot' = [iBoot EXCEPT !.slots[c.name] = AtLoad]
    BY <1>4 DEF Effect
  <2>2. iBoot.slots \in [{"ramdisk", "devicetree"} -> Content]
    BY DEF Memory
  <2>3. iBoot' = [iBoot EXCEPT !.slots = [iBoot.slots EXCEPT ![c.name] = AtLoad]]
    BY <2>1
  <2>4. [iBoot.slots EXCEPT ![c.name] = AtLoad] \in [{"ramdisk", "devicetree"} -> Content]
    BY <1>2, <1>4, <2>2
  <2>5. iBoot' \in Memory
    BY <2>3, <2>4 DEF Memory
  <2>6. iBoot'.slots = [iBoot.slots EXCEPT ![c.name] = AtLoad]
    BY <2>3 DEF Memory
  <2>7. QED
    BY <1>4, <2>2, <2>3, <2>5, <2>6 DEF Memory
<1>5. CASE c.name = "setpicture"
  BY <1>5 DEF Effect, Memory
<1>6. CASE c.name \in {"md0", "pmd0", "noargs"}
  BY <1>6 DEF Effect, Memory
<1>7. CASE c.name \in {"go", "bgcolor", "saveenv", "bootx"}
  BY <1>7 DEF Effect, Memory
<1>8. QED
  BY <1>3, <1>4, <1>5, <1>6, <1>7 DEF Commands

\* The image at the load address, its size in filesize, what a slot has been given.
AtLoadIs(i) == iBoot.mem["load"] = Whole(i)
Sized(i)    == iBoot.filesize = Size[i]
Taken(s)    == iBoot.slots[s] = Whole(s)

\* What the first k instructions of a tool have made of the phone's memory, as far
\* as later instructions need it.
Established(t, k) ==
  /\ t = "load" =>
       /\ k \in 1..2 => AtLoadIs("iBEC")
       /\ k = 2 => Sized("iBEC")
  /\ t = "stock" =>
       /\ k \in 1..3 => AtLoadIs("ramdisk")
       /\ k \in 2..4 => Sized("ramdisk")
       /\ k \in 3..9 => Taken("ramdisk")
       /\ k \in 4..6 => AtLoadIs("devicetree")
       /\ k \in 5..7 => Sized("devicetree")
       /\ k \in 6..9 => Taken("devicetree")
       /\ k \in 7..9 => AtLoadIs("kernel")
       /\ k \in 8..9 => Sized("kernel")
       /\ k = 9 => iBoot.args = "md0"
  /\ t = "raw" =>
       /\ k = 1 => AtLoadIs("logo")
       /\ k \in 2..12 => iBoot.trusted
       /\ k \in 4..12 => iBoot.mem["raw"] = Whole("ramdisk")
       /\ k \in 5..7 => AtLoadIs("devicetree")
       /\ k \in 6..8 => Sized("devicetree")
       /\ k \in 7..12 => Taken("devicetree")
       /\ k \in 8..12 => AtLoadIs("kernel")
       /\ k \in 9..12 => Sized("kernel")
       /\ k = 12 => iBoot.args = "pmd0"

\* What is established stays so while the memory stays as it is.
LEMMA EstablishedStays ==
  ASSUME NEW t, NEW k, Established(t, k), iBoot' = iBoot
  PROVE  Established(t, k)'
BY DEF Established, AtLoadIs, Sized, Taken

\* A whole image and its own size are a whole image.
LEMMA TakenWhole ==
  ASSUME NEW i \in Image, AtLoadIs(i), Sized(i)
  PROVE  AtLoad = Whole(i)
BY ImageSizeAssumption DEF AtLoadIs, Sized, AtLoad, Whole

\* What an instruction does, once iBoot gets to it.
Does(c) ==
  \/ c.do = "send" /\ Arrive(c.name, c.at, Size[c.name])
  \/ c.do = "command" /\ iBoot' = Effect(c)
  \/ c.do = "command" /\ Leaves(c) /\ iBoot' = Fresh

\* A file that arrives in its turn.
LEMMA FileDoes ==
  ASSUME iBoot \in Memory, NEW i \in Image, NEW a \in {"load", "raw"}, Does(File(i, a))
  PROVE  /\ iBoot' \in Memory
         /\ iBoot'.mem[a] = Whole(i)
         /\ i \in {"devicetree", "kernel"} \/ a = "raw" =>
              \A b \in {"load", "raw"} : b # a => iBoot'.mem[b] = iBoot.mem[b]
         /\ iBoot'.filesize = iBoot.filesize /\ iBoot'.slots = iBoot.slots
         /\ iBoot'.args = iBoot.args /\ iBoot'.trusted = iBoot.trusted
<1>1. Arrive(i, a, Size[i])
  BY DEF Does, File
<1>2. Size[i] \in Nat /\ (i \in {"devicetree", "kernel"} => Size[i] <= Gap)
  BY ImageSizeAssumption, GapAssumption
<1>3. QED
  BY <1>1, <1>2, Arrival DEF Whole

\* setenv filesize.
LEMMA SetSizeDoes ==
  ASSUME iBoot \in Memory, NEW i \in Image, Does(SetSize(i))
  PROVE  /\ iBoot' \in Memory
         /\ iBoot'.filesize = Size[i] /\ iBoot'.mem = iBoot.mem
         /\ iBoot'.args = iBoot.args /\ (iBoot.trusted => iBoot'.trusted)
         /\ \A s \in {"ramdisk", "devicetree"} : iBoot'.slots[s] = iBoot.slots[s]
<1>1. /\ SetSize(i) \in Commands /\ iBoot' = Effect(SetSize(i))
      /\ SetSize(i).name = "filesize" /\ SetSize(i).size = Size[i]
  BY CommandTypes DEF Does, SetSize, Leaves
<1>2. QED
  BY <1>1, EffectOf

\* The commands that do not leave iBoot.
Words ==
  {"ramdisk", "devicetree", "setpicture", "bgcolor", "noargs", "saveenv", "md0", "pmd0"}

\* The other commands.
LEMMA CommandDoes ==
  ASSUME iBoot \in Memory, NEW w \in Words, Does(Command(w))
  PROVE  /\ iBoot' \in Memory
         /\ iBoot'.filesize = iBoot.filesize /\ iBoot'.mem = iBoot.mem
         /\ \A s \in {"ramdisk", "devicetree"} :
              iBoot'.slots[s] = IF w = s THEN AtLoad ELSE iBoot.slots[s]
         /\ w \in {"md0", "pmd0"} => iBoot'.args = w
         /\ iBoot.trusted \/ (w = "setpicture" /\ AtLoadIs("logo")) => iBoot'.trusted
<1>1. /\ Command(w) \in Commands /\ iBoot' = Effect(Command(w)) /\ Command(w).name = w
  BY CommandTypes DEF Does, Command, Leaves, Words
<1>2. /\ iBoot' \in Memory /\ iBoot'.mem = iBoot.mem /\ iBoot'.filesize = iBoot.filesize
      /\ \A s \in {"ramdisk", "devicetree"} :
              iBoot'.slots[s] = IF w = s THEN AtLoad ELSE iBoot.slots[s]
      /\ w \in {"md0", "pmd0"} => iBoot'.args = w
  BY <1>1, EffectOf DEF Words
<1>3. iBoot'.trusted = (iBoot.trusted \/ (w = "setpicture" /\ AtLoadIs("logo")))
  BY <1>1, EffectOf DEF AtLoadIs
<1>4. QED
  BY <1>2, <1>3

\* go and bootx.
LEMMA LeavingDoes ==
  ASSUME NEW w \in {"go", "bootx"}, Does(Command(w))
  PROVE  iBoot' \in {Fresh, iBoot}
BY DEF Does, Command, Leaves, Effect

\* Each instruction of legacy-load-image establishes what the next ones need.
LEMMA LoadStep ==
  ASSUME iBoot \in Memory, NEW k \in 0..2, Established("load", k), Does(LoadTool[k + 1])
  PROVE  iBoot' \in Memory /\ Established("load", k + 1)'
<1>1. CASE k = 0
  <2>1. Does(File("iBEC", "load"))
    BY <1>1, LoadLines
  <2>2. QED
    BY <1>1, <2>1, FileDoes DEF Established, AtLoadIs, Image
<1>2. CASE k = 1
  <2>1. Does(SetSize("iBEC"))
    BY <1>2, LoadLines
  <2>2. QED
    BY <1>2, <2>1, SetSizeDoes DEF Established, AtLoadIs, Sized, Image
<1>3. CASE k = 2
  <2>1. Does(Command("go"))
    BY <1>3, LoadLines
  <2>2. QED
    BY <1>3, <2>1, LeavingDoes, FreshType DEF Established
<1>4. QED
  BY <1>1, <1>2, <1>3

\* So does each of legacy-boot-restore: an image is taken before the next one overwrites it.
LEMMA StockStep ==
  ASSUME iBoot \in Memory, NEW k \in 0..9, Established("stock", k), Does(StockTool[k + 1])
  PROVE  iBoot' \in Memory /\ Established("stock", k + 1)'
<1> USE DEF Established, AtLoadIs, Sized, Taken
<1>1. CASE k \in {0, 3, 6}
  <2> DEFINE i == IF k = 0 THEN "ramdisk" ELSE IF k = 3 THEN "devicetree" ELSE "kernel"
  <2>1. i \in Image /\ Does(File(i, "load"))
    BY <1>1, StockLines DEF Image
  <2>2. QED
    BY <1>1, <2>1, FileDoes
<1>2. CASE k \in {1, 4, 7}
  <2> DEFINE i == IF k = 1 THEN "ramdisk" ELSE IF k = 4 THEN "devicetree" ELSE "kernel"
  <2>1. i \in Image /\ Does(SetSize(i))
    BY <1>2, StockLines DEF Image
  <2>2. QED
    BY <1>2, <2>1, SetSizeDoes
<1>3. CASE k \in {2, 5}
  <2> DEFINE i == IF k = 2 THEN "ramdisk" ELSE "devicetree"
  <2>1. i \in Image /\ i \in Words /\ Does(Command(i))
    BY <1>3, StockLines DEF Image, Words
  <2>2. AtLoad = Whole(i)
    BY <1>3, <2>1, TakenWhole
  <2>3. QED
    BY <1>3, <2>1, <2>2, CommandDoes
<1>4. CASE k = 8
  <2>1. "md0" \in Words /\ Does(Command("md0"))
    BY <1>4, StockLines DEF Words
  <2>2. QED
    BY <1>4, <2>1, CommandDoes
<1>5. CASE k = 9
  <2>1. Does(Command("bootx"))
    BY <1>5, StockLines
  <2>2. QED
    BY <1>5, <2>1, LeavingDoes, FreshType
<1>6. QED
  BY <1>1, <1>2, <1>3, <1>4, <1>5

\* So does each of legacy-boot-restore --raw: what is loaded below the raw ramdisk ends there.
LEMMA RawStep ==
  ASSUME iBoot \in Memory, NEW k \in 0..12, Established("raw", k), Does(RawTool[k + 1])
  PROVE  iBoot' \in Memory /\ Established("raw", k + 1)'
<1> USE DEF Established, AtLoadIs, Sized, Taken
<1>1. CASE k \in {0, 4, 7}
  <2> DEFINE i == IF k = 0 THEN "logo" ELSE IF k = 4 THEN "devicetree" ELSE "kernel"
  <2>1. i \in Image /\ Does(File(i, "load"))
    BY <1>1, RawLines DEF Image
  <2>2. QED
    BY <1>1, <2>1, FileDoes
<1>2. CASE k = 3
  <2>1. "ramdisk" \in Image /\ Does(File("ramdisk", "raw"))
    BY <1>2, RawLines DEF Image
  <2>2. QED
    BY <1>2, <2>1, FileDoes
<1>3. CASE k \in {5, 8}
  <2> DEFINE i == IF k = 5 THEN "devicetree" ELSE "kernel"
  <2>1. i \in Image /\ Does(SetSize(i))
    BY <1>3, RawLines DEF Image
  <2>2. QED
    BY <1>3, <2>1, SetSizeDoes
<1>4. CASE k = 6
  <2>1. /\ "devicetree" \in Image /\ "devicetree" \in Words
        /\ Does(Command("devicetree"))
    BY <1>4, RawLines DEF Image, Words
  <2>2. AtLoad = Whole("devicetree")
    BY <1>4, <2>1, TakenWhole
  <2>3. QED
    BY <1>4, <2>1, <2>2, CommandDoes
<1>5. CASE k \in {1, 2, 9, 10, 11}
  <2> DEFINE w == IF k = 1 THEN "setpicture" ELSE IF k = 2 THEN "bgcolor"
                  ELSE IF k = 9 THEN "noargs" ELSE IF k = 10 THEN "saveenv" ELSE "pmd0"
  <2>1. w \in Words /\ Does(Command(w)) /\ w \notin {"ramdisk", "devicetree"}
    BY <1>5, RawLines DEF Words
  <2>2. QED
    BY <1>5, <2>1, CommandDoes
<1>6. CASE k = 12
  <2>1. Does(Command("bootx"))
    BY <1>6, RawLines
  <2>2. QED
    BY <1>6, <2>1, LeavingDoes, FreshType
<1>7. QED
  BY <1>1, <1>2, <1>3, <1>4, <1>5, <1>6

\* For all tools.
LEMMA EstablishedStep ==
  ASSUME iBoot \in Memory, NEW t \in Tools, NEW k \in Nat, k < Lines(t),
         Established(t, k), Does(ProgramOf(t)[k + 1])
  PROVE  iBoot' \in Memory /\ Established(t, k + 1)'
<1>1. CASE t = "load"
  BY <1>1, Programs, LinesOf, LoadStep
<1>2. CASE t = "stock"
  BY <1>2, Programs, LinesOf, StockStep
<1>3. CASE t = "raw"
  BY <1>3, Programs, LinesOf, RawStep
<1>4. QED
  BY <1>1, <1>2, <1>3 DEF Tools

\* Every instruction is a file or a command that iBoot knows, the first is a file,
\* and only the last one leaves.
Sound(t) ==
  /\ ProgramOf(t)[1].do = "send"
  /\ \A i \in 1..Lines(t) : LET p == ProgramOf(t)[i] IN
       /\ \/ p.do = "send" /\ p.name \in Image /\ p.at \in {"load", "raw"}
          \/ p.do = "command" /\ p \in Commands
       /\ p.do = "command" /\ Leaves(p) => i = Lines(t)

\* The lists are of this kind.
LEMMA ProgramsSound == \A t \in Tools : Lines(t) \in 1..13 /\ Sound(t)
<1> USE CommandTypes DEF Sound
<1>1. /\ \A i \in Image : SetSize(i).do = "command" /\ ~Leaves(SetSize(i))
      /\ \A w \in Words : Command(w).do = "command" /\ ~Leaves(Command(w))
      /\ \A w \in Words : Command(w) \in Commands
      /\ Command("go").do = "command" /\ Command("bootx").do = "command"
      /\ \A i \in Image : \A a \in {"load", "raw"} :
           File(i, a).do = "send" /\ File(i, a).name = i /\ File(i, a).at = a
  BY DEF SetSize, Command, File, Leaves, Words
<1>2. {"ramdisk", "devicetree", "kernel", "logo", "iBEC"} \subseteq Image
  BY DEF Image
<1>3. Sound("load")
  <2>1. \A i \in 1..3 : i \in {1, 2, 3}
    OBVIOUS
  <2>2. QED
    BY <1>1, <1>2, <2>1, LoadLines, Programs, LinesOf
<1>4. Sound("stock")
  <2>1. \A i \in 1..10 : i \in {1, 2, 3, 4, 5, 6, 7, 8, 9, 10}
    OBVIOUS
  <2>2. QED
    BY <1>1, <1>2, <2>1, StockLines, Programs, LinesOf DEF Words
<1>5. Sound("raw")
  <2>1. \A i \in 1..13 : i \in {1, 2, 3, 4, 5, 6, 7, 8, 9, 10, 11, 12, 13}
    OBVIOUS
  <2>2. QED
    BY <1>1, <1>2, <2>1, RawLines, Programs, LinesOf DEF Words
<1> HIDE DEF Sound
<1>6. QED
  BY <1>3, <1>4, <1>5, LinesOf DEF Tools

\* Where a tool leaves iBoot.
LEMMA LastInstructions ==
  ASSUME NEW t \in Tools, NEW i \in 1..Lines(t), ProgramOf(t)[i].do = "command"
  PROVE  /\ ProgramOf(t)[i].name = "go" => t = "load" /\ i = 3
         /\ ProgramOf(t)[i].name = "bootx" => (t = "stock" /\ i = 10) \/ (t = "raw" /\ i = 13)
<1>1. ProgramOf(t)[i].name \in {"go", "bootx"} => i = Lines(t)
  BY ProgramsSound DEF Sound, Leaves
<1>2. LoadTool[3].name = "go" /\ StockTool[10].name = "bootx" /\ RawTool[13].name = "bootx"
  BY LoadLines, StockLines, RawLines DEF Command
<1>3. QED
  BY <1>1, <1>2, Programs, LinesOf DEF Tools

\* iBoot has executed the first k instructions of a tool, the rest that it has accepted
\* is in the queue.
InStep(t, k) ==
  /\ k + Len(queue) <= Lines(t)
  /\ \A i \in 1..Len(queue) : queue[i] = ProgramOf(t)[k + i]
  /\ Established(t, k)

\* The tool that runs has come just as far, or begins and will not have waited for
\* what an earlier one has left.
KeepsUp(t, k) ==
  instruction # 0 =>
    \/ t = tool /\ k + Len(queue) = (IF waiting THEN instruction ELSE instruction - 1)
    \/ instruction = 1 /\ ~waiting

\* What a tool knows without having been overtaken.
Waits ==
  /\ overtaken => unread
  /\ waiting => instruction # 0 /\ This.do = "command"
  /\ instruction # 0 /\ ~waiting /\ ~unread => queue = <<>>

\* Type correctness in terms of the parameters above.
Types ==
  /\ tool \in Tools /\ instruction \in 0..Lines(tool)
  /\ waiting \in BOOLEAN /\ unread \in BOOLEAN /\ overtaken \in BOOLEAN
  /\ queue \in Seq(Commands) /\ iBoot \in Memory

\* They are the same.
LEMMA BootTypes == Types <=> BootTypeOK
BY DEF Types, BootTypeOK, Tools, Lines, Program

\* The invariant.
BInv ==
  /\ Types /\ Waits
  /\ overtaken \/ \E t \in Tools, k \in Nat : InStep(t, k) /\ KeepsUp(t, k)

\* No tool has run.
LEMMA BootInitially == BootInit => BInv
<1> SUFFICES ASSUME BootInit PROVE BInv
  OBVIOUS
<1>1. Types
  <2>1. tool \in Tools /\ instruction \in 0..Lines(tool)
    BY LinesOf DEF BootInit, Tools
  <2>2. waiting \in BOOLEAN /\ unread \in BOOLEAN /\ overtaken \in BOOLEAN
    BY DEF BootInit
  <2>3. queue \in Seq(Commands) /\ iBoot \in Memory
    BY FreshType DEF BootInit
  <2>4. QED
    BY <2>1, <2>2, <2>3 DEF Types
<1>2. Waits
  BY DEF BootInit, Waits
<1>3. InStep("load", 0) /\ KeepsUp("load", 0)
  BY LinesOf DEF BootInit, InStep, KeepsUp, Established
<1>4. QED
  BY <1>1, <1>2, <1>3 DEF BInv, Tools

\* A tool that finds commands of an earlier one in the queue has not waited for them.
LEMMA StartInvariant == ASSUME BInv, NEW t \in Tools, Start(t) PROVE BInv'
<1>1. tool' = t /\ instruction' = 1 /\ waiting' = FALSE /\ queue' = queue /\ iBoot' = iBoot
  BY DEF Start
<1>2. overtaken' = (overtaken /\ queue # <<>>) /\ unread' \in {TRUE, queue # <<>>}
  BY DEF Start
<1>3. Types'
  <2>1. tool' \in Tools /\ instruction' \in 0..Lines(tool')
    BY <1>1, ProgramsSound
  <2>2. overtaken' \in BOOLEAN /\ unread' \in BOOLEAN /\ waiting' \in BOOLEAN
    BY <1>1, <1>2 DEF BInv, Types
  <2>3. queue' \in Seq(Commands) /\ iBoot' \in Memory
    BY <1>1 DEF BInv, Types
  <2>4. QED
    BY <2>1, <2>2, <2>3 DEF Types
<1>4. Waits'
  BY <1>1, <1>2 DEF Waits
<1>5. CASE queue = <<>>
  <2>1. InStep(t, 0)' /\ KeepsUp(t, 0)'
    BY <1>1, <1>5, ProgramsSound DEF InStep, KeepsUp, Established
  <2>2. QED
    BY <1>3, <1>4, <2>1 DEF BInv
<1>6. CASE queue # <<>> /\ ~overtaken
  <2>1. PICK u \in Tools, k \in Nat : InStep(u, k)
    BY <1>6 DEF BInv
  <2>2. InStep(u, k)' /\ KeepsUp(u, k)'
    BY <1>1, <2>1, EstablishedStays DEF InStep, KeepsUp
  <2>3. QED
    BY <1>3, <1>4, <2>2 DEF BInv
<1>7. CASE queue # <<>> /\ overtaken
  BY <1>2, <1>3, <1>4, <1>7 DEF BInv
<1>8. QED
  BY <1>5, <1>6, <1>7

\* What a tool is at.
LEMMA ThisIs ==
  ASSUME Types, instruction # 0
  PROVE  /\ instruction \in 1..Lines(tool) /\ This = ProgramOf(tool)[instruction]
         /\ This.do = "send" => This.name \in Image /\ This.at \in {"load", "raw"}
         /\ This.do = "command" => This \in Commands
         /\ This.do = "command" /\ Leaves(This) => instruction = Lines(tool)
         /\ Advance \in 0..Lines(tool)
         /\ Advance # 0 => Advance = instruction + 1
         /\ instruction = Lines(tool) => Advance = 0
<1>1. instruction \in 1..Lines(tool) /\ Lines(tool) \in Nat /\ Sound(tool)
  BY ProgramsSound DEF Types
<1>2. This = ProgramOf(tool)[instruction]
  BY DEF This, Program
<1>3. Advance = IF instruction = Lines(tool) THEN 0 ELSE instruction + 1
  BY DEF Advance, Lines, Program
<1>4. QED
  BY <1>1, <1>2, <1>3 DEF Sound

\* A tool that has not been overtaken, and has nothing outstanding or is at a command,
\* has got all its instructions so far accepted, and no other has.
LEMMA Where ==
  ASSUME BInv, ~overtaken, instruction # 0, waiting \/ queue = <<>> \/ This.do = "command"
  PROVE  \E t \in Tools, k \in Nat :
           /\ t = tool /\ InStep(t, k)
           /\ k + Len(queue) = (IF waiting THEN instruction ELSE instruction - 1)
<1>1. PICK t \in Tools, k \in Nat : InStep(t, k) /\ KeepsUp(t, k)
  BY DEF BInv
<1>2. instruction \in 1..Lines(tool) /\ tool \in Tools /\ Types
  BY ThisIs DEF BInv, Types
<1>3. CASE t = tool /\ k + Len(queue) = (IF waiting THEN instruction ELSE instruction - 1)
  BY <1>1, <1>3
<1>4. CASE instruction = 1 /\ ~waiting
  <2>1. This.do = "send"
    BY <1>2, <1>4, ProgramsSound DEF Sound, This, Program
  <2>2. queue = <<>> /\ Len(queue) = 0
    BY <1>4, <2>1
  <2>3. Lines(tool) \in Nat
    BY <1>2, ProgramsSound
  <2>4. InStep(tool, 0)
    BY <2>2, <2>3 DEF InStep, Established
  <2>5. 0 + Len(queue) = (IF waiting THEN instruction ELSE instruction - 1)
    BY <1>4, <2>2
  <2>6. QED
    BY <1>2, <2>4, <2>5
<1>5. QED
  BY <1>1, <1>3, <1>4 DEF KeepsUp

\* A file arrives, all of it and in its turn, or something is wrong.
LEMMA SendFileInvariant == ASSUME BInv, SendFile PROVE BInv'
<1>1. /\ instruction # 0 /\ ~waiting /\ This.do = "send" /\ Types
      /\ tool' = tool /\ unread' = unread
  BY DEF SendFile, Stop, BInv
<1>2. PICK n \in Nat :
        /\ Arrive(This.name, This.at, n)
        /\ ~waiting'
        /\ (n = Size[This.name] /\ instruction' = Advance) \/ instruction' = 0
  <2>1. Size[This.name] \in Nat
    BY <1>1, ThisIs, ImageSizeAssumption
  <2>2. \A n \in 0..Size[This.name] : n \in Nat
    BY <2>1
  <2>3. QED
    BY <1>1, <2>1, <2>2 DEF SendFile, Stop
<1>3. /\ iBoot' \in Memory /\ queue' = queue
      /\ overtaken' = (overtaken \/ queue # <<>>)
  BY <1>1, <1>2, ThisIs, Arrival DEF Types
<1>4. PICK t \in Tools : t = tool
  BY <1>1 DEF Types
<1>5. instruction \in 1..Lines(t) /\ Lines(t) \in Nat /\ instruction' \in 0..Lines(t)
  BY <1>1, <1>2, <1>4, ThisIs, ProgramsSound
<1>6. Types'
  <2>1. waiting' \in BOOLEAN /\ unread' \in BOOLEAN /\ overtaken' \in BOOLEAN
    BY <1>1, <1>3 DEF Types, SendFile, Stop
  <2>2. QED
    BY <1>1, <1>3, <1>4, <1>5, <2>1 DEF Types
<1>7. Waits'
  <2>1. queue # <<>> => unread
    BY <1>1 DEF BInv, Waits
  <2>2. overtaken' => unread'
    BY <1>1, <1>3, <2>1 DEF BInv, Waits
  <2>3. ~unread' => queue' = <<>>
    BY <1>1, <1>3, <2>1
  <2>4. QED
    BY <1>2, <2>2, <2>3 DEF Waits
<1>8. CASE overtaken'
  BY <1>6, <1>7, <1>8 DEF BInv
<1>9. CASE ~overtaken'
  <2>1. ~overtaken /\ queue = <<>> /\ queue' = <<>> /\ Len(queue) = 0 /\ Len(queue') = 0
    BY <1>3, <1>9
  <2>2. CASE instruction' = 0
    <3>1. InStep(t, 0)' /\ KeepsUp(t, 0)'
      BY <1>5, <2>1, <2>2 DEF InStep, KeepsUp, Established
    <3>2. QED
      BY <1>6, <1>7, <3>1 DEF BInv
  <2>3. CASE instruction' # 0
    <3>1. n = Size[This.name] /\ instruction' = instruction + 1
      BY <1>1, <1>2, <2>3, ThisIs
    <3>2. PICK k \in Nat : InStep(t, k) /\ k + Len(queue) = instruction - 1
      BY <1>1, <1>4, <2>1, Where
    <3>3. k + 1 = instruction /\ k < Lines(t)
      BY <1>5, <2>1, <3>2
    <3>4. Does(ProgramOf(t)[k + 1])
      BY <1>1, <1>2, <1>4, <3>1, <3>3, ThisIs DEF Does
    <3>5. Established(t, k + 1)'
      BY <1>1, <3>2, <3>3, <3>4, EstablishedStep DEF Types, InStep
    <3>6. InStep(t, k + 1)'
      BY <1>5, <2>1, <3>3, <3>5 DEF InStep
    <3>7. KeepsUp(t, k + 1)'
      BY <1>1, <1>2, <1>4, <1>5, <2>1, <3>1, <3>3 DEF KeepsUp
    <3>8. QED
      BY <1>6, <1>7, <3>6, <3>7 DEF BInv
  <2>4. QED
    BY <2>2, <2>3
<1>10. QED
  BY <1>8, <1>9

\* A command joins the queue, or the tool ends.
LEMMA SendCommandInvariant == ASSUME BInv, SendCommand PROVE BInv'
<1>1. /\ instruction # 0 /\ ~waiting /\ This.do = "command" /\ Types
      /\ UNCHANGED <<tool, unread, overtaken, iBoot>>
  BY DEF SendCommand, Stop, BInv
<1>2. PICK t \in Tools : t = tool
  BY <1>1 DEF Types
<1>3. /\ instruction \in 1..Lines(t) /\ Lines(t) \in Nat
      /\ This \in Commands /\ This = ProgramOf(t)[instruction]
      /\ This.name = "go" => Advance = 0
  BY <1>1, <1>2, ThisIs, ProgramsSound DEF Leaves
<1>4. \/ /\ queue' = Append(queue, This) /\ waiting' = TRUE /\ instruction' = instruction
      \/ queue' \in {queue, Append(queue, This)} /\ waiting' = FALSE /\ instruction' = 0
  <2>1. This.name = "go" \/ This.name # "go"
    OBVIOUS
  <2>2. QED
    BY <1>3, <2>1 DEF SendCommand, Stop, Accept
<1>5. queue \in Seq(Commands)
  BY <1>1 DEF Types
<1>6. Types'
  <2>1. instruction' \in 0..Lines(t)
    BY <1>3, <1>4
  <2>2. queue' \in Seq(Commands)
    BY <1>3, <1>4, <1>5
  <2>3. waiting' \in BOOLEAN
    BY <1>4
  <2>4. QED
    BY <1>1, <1>2, <2>1, <2>2, <2>3 DEF Types
<1>7. Waits'
  <2>1. overtaken' => unread'
    BY <1>1 DEF BInv, Waits
  <2>2. waiting' => instruction' # 0 /\ This' = This
    BY <1>1, <1>4 DEF This, Program, ProgramOf
  <2>3. instruction' # 0 => waiting'
    BY <1>4
  <2>4. QED
    BY <1>1, <2>1, <2>2, <2>3 DEF Waits
<1>8. CASE overtaken
  BY <1>1, <1>6, <1>7, <1>8 DEF BInv
<1>9. CASE ~overtaken
  <2>1. PICK k \in Nat : InStep(t, k) /\ k + Len(queue) = instruction - 1
    BY <1>1, <1>2, <1>9, Where
  <2>2. Established(t, k)'
    BY <1>1, <2>1, EstablishedStays DEF InStep
  <2>3. CASE queue' = queue
    <3>1. InStep(t, k)'
      BY <2>1, <2>2, <2>3 DEF InStep
    <3>2. instruction' = 0
      <4>1. Append(queue, This) # queue
        BY <1>3, <1>5
      <4>2. QED
        BY <1>4, <2>3, <4>1
    <3>3. KeepsUp(t, k)'
      BY <3>2 DEF KeepsUp
    <3>4. QED
      BY <1>6, <1>7, <3>1, <3>3 DEF BInv
  <2>4. CASE queue' = Append(queue, This)
    <3>1. /\ Len(queue') = Len(queue) + 1 /\ Len(queue) \in Nat
          /\ \A i \in 1..Len(queue) : queue'[i] = queue[i]
          /\ queue'[Len(queue) + 1] = This
      BY <1>3, <1>5, <2>4
    <3>2. k + Len(queue') = instruction
      BY <1>3, <2>1, <3>1
    <3>3. \A i \in 1..Len(queue') : queue'[i] = ProgramOf(t)[k + i]
      <4>1. \A i \in 1..Len(queue) : queue'[i] = ProgramOf(t)[k + i]
        BY <2>1, <3>1 DEF InStep
      <4>2. k + (Len(queue) + 1) = instruction
        BY <3>1, <3>2
      <4>3. \A i \in 1..Len(queue') : i \in 1..Len(queue) \/ i = Len(queue) + 1
        BY <3>1
      <4>4. QED
        BY <1>3, <3>1, <4>1, <4>2, <4>3
    <3>4. InStep(t, k)'
      BY <1>3, <2>2, <3>2, <3>3 DEF InStep
    <3>5. KeepsUp(t, k)'
      BY <1>1, <1>2, <1>4, <3>2 DEF KeepsUp
    <3>6. QED
      BY <1>6, <1>7, <3>4, <3>5 DEF BInv
  <2>5. QED
    BY <1>4, <2>3, <2>4
<1>10. QED
  BY <1>8, <1>9

\* The tool goes on: the queue is empty, or it remembers that it has not waited.
LEMMA GetResponseInvariant == ASSUME BInv, GetResponse PROVE BInv'
<1>1. /\ waiting /\ Types /\ instruction # 0
      /\ instruction' = Advance /\ waiting' = FALSE
      /\ UNCHANGED <<tool, overtaken, queue, iBoot>>
      /\ (queue = <<>> /\ unread' = unread) \/ unread' = TRUE
  BY DEF GetResponse, BInv, Waits
<1>2. PICK t \in Tools : t = tool
  BY <1>1 DEF Types
<1>3. /\ instruction \in 1..Lines(t)
      /\ instruction' \in 0..Lines(t) /\ (instruction' # 0 => instruction' = instruction + 1)
  BY <1>1, <1>2, ThisIs
<1>4. Types'
  <2>1. waiting' \in BOOLEAN /\ unread' \in BOOLEAN
    BY <1>1 DEF Types
  <2>2. QED
    BY <1>1, <1>2, <1>3, <2>1 DEF Types
<1>5. Waits'
  BY <1>1 DEF BInv, Waits
<1>6. CASE overtaken
  BY <1>1, <1>4, <1>5, <1>6 DEF BInv
<1>7. CASE ~overtaken
  <2>1. PICK k \in Nat : InStep(t, k) /\ k + Len(queue) = instruction
    BY <1>1, <1>2, <1>7, Where
  <2>2. InStep(t, k)'
    BY <1>1, <2>1, EstablishedStays DEF InStep
  <2>3. KeepsUp(t, k)'
    <3>1. instruction' # 0 => k + Len(queue) = instruction' - 1
      BY <1>3, <2>1
    <3>2. QED
      BY <1>1, <1>2, <3>1 DEF KeepsUp
  <2>4. QED
    BY <1>4, <1>5, <2>2, <2>3 DEF BInv
<1>8. QED
  BY <1>6, <1>7

\* iBoot executes the next instruction of the tool, unless it has been overtaken.
LEMMA ExecuteInvariant == ASSUME BInv, Execute PROVE BInv'
<1>1. /\ queue # <<>> /\ Types /\ queue \in Seq(Commands)
      /\ UNCHANGED <<tool, instruction, waiting, unread, overtaken>>
  BY DEF Execute, host, BInv, Types
<1>2. /\ Head(queue) \in Commands /\ Head(queue) = queue[1] /\ Len(queue) \in Nat \ {0}
      /\ Tail(queue) \in Seq(Commands) /\ Len(Tail(queue)) = Len(queue) - 1
      /\ \A i \in 1..Len(Tail(queue)) : Tail(queue)[i] = queue[i + 1]
  BY <1>1
<1>3. Types'
  <2>1. iBoot' \in Memory
    BY <1>1, <1>2, EffectOf, FreshType DEF Execute, Types
  <2>2. queue' \in {Tail(queue), <<>>}
    BY DEF Execute
  <2>3. <<>> \in Seq(Commands)
    <3> DEFINE C == Commands
    <3> HIDE DEF C
    <3>1. <<>> \in Seq(C)
      OBVIOUS
    <3>2. QED
      BY <3>1 DEF C
  <2>4. queue' \in Seq(Commands)
    BY <1>2, <2>2, <2>3, Zenon
  <2>5. QED
    BY <1>1, <2>1, <2>4 DEF Types
<1>4. Waits'
  <2>1. This' = This
    BY <1>1 DEF This, Program, ProgramOf
  <2>2. QED
    BY <1>1, <2>1 DEF BInv, Waits
<1>5. CASE overtaken
  BY <1>1, <1>3, <1>4, <1>5 DEF BInv
<1>6. CASE ~overtaken
  <2>1. PICK t \in Tools, k \in Nat : InStep(t, k) /\ KeepsUp(t, k)
    BY <1>6 DEF BInv
  <2>2. /\ k + 1 \in 1..Lines(t) /\ k < Lines(t) /\ Lines(t) \in Nat
        /\ k + Len(queue) <= Lines(t)
    BY <1>2, <2>1, ProgramsSound DEF InStep
  <2>3. Head(queue) = ProgramOf(t)[k + 1]
    BY <1>2, <2>1 DEF InStep
  <2>4. Does(Head(queue)) /\ Head(queue).do = "command"
    BY <1>2 DEF Execute, Does, Commands
  <2>5. Established(t, k + 1)'
    BY <1>1, <2>1, <2>2, <2>3, <2>4, EstablishedStep DEF InStep, Types
  <2>6. queue' = Tail(queue)
    <3>1. CASE Leaves(Head(queue)) /\ queue' = <<>>
      <4>1. k + 1 = Lines(t)
        BY <2>2, <2>3, <2>4, <3>1, ProgramsSound DEF Sound
      <4>2. Len(queue) = 1
        BY <1>2, <2>2, <4>1
      <4>3. Tail(queue) = <<>>
        <5>1. Len(Tail(queue)) = 0
          BY <1>2, <4>2
        <5> DEFINE rest == Tail(queue)
        <5>2. rest \in Seq(Commands) /\ Len(rest) = 0
          BY <1>2, <5>1
        <5> HIDE DEF rest
        <5>3. rest = <<>>
          BY <5>2
        <5>4. QED
          BY <5>3 DEF rest
      <4>4. QED
        BY <3>1, <4>3 DEF Execute
    <3>2. QED
      BY <3>1 DEF Execute
  <2>7. InStep(t, k + 1)'
    <3>1. (k + 1) + Len(queue') <= Lines(t)
      BY <1>2, <2>2, <2>6
    <3>2. \A i \in 1..Len(queue') : queue'[i] = ProgramOf(t)[(k + 1) + i]
      <4>1. \A i \in 1..Len(queue') : i + 1 \in 1..Len(queue) /\ k + (i + 1) = (k + 1) + i
        BY <1>2, <2>6
      <4>2. QED
        BY <1>2, <2>1, <2>6, <4>1 DEF InStep
    <3>3. QED
      BY <2>5, <3>1, <3>2 DEF InStep
  <2>8. KeepsUp(t, k + 1)'
    <3>1. (k + 1) + Len(queue') = k + Len(queue)
      BY <1>2, <2>6
    <3>2. QED
      BY <1>1, <2>1, <3>1 DEF KeepsUp
  <2>9. QED
    BY <1>3, <1>4, <2>7, <2>8 DEF BInv
<1>7. QED
  BY <1>5, <1>6

\* Every step of the tools and of iBoot preserves the invariant.
LEMMA BootStep == BInv /\ [BootNext]_bootVars => BInv'
<1> SUFFICES ASSUME BInv, [BootNext]_bootVars PROVE BInv'
  OBVIOUS
<1>1. CASE UNCHANGED bootVars
  <2>1. UNCHANGED <<tool, instruction, waiting, unread, overtaken, queue, iBoot>>
    BY <1>1 DEF bootVars, host
  <2>2. This' = This
    BY <2>1 DEF This, Program, ProgramOf
  <2>3. Types'
    BY <2>1 DEF BInv, Types
  <2>4. Waits'
    BY <2>1, <2>2 DEF BInv, Waits
  <2>5. CASE overtaken
    BY <2>1, <2>3, <2>4, <2>5 DEF BInv
  <2>6. CASE ~overtaken
    <3>1. PICK t \in Tools, k \in Nat : InStep(t, k) /\ KeepsUp(t, k)
      BY <2>6 DEF BInv
    <3>2. Established(t, k)'
      BY <2>1, <3>1, EstablishedStays DEF InStep
    <3>3. InStep(t, k)' /\ KeepsUp(t, k)'
      BY <2>1, <3>1, <3>2 DEF InStep, KeepsUp
    <3>4. QED
      BY <2>3, <2>4, <3>3 DEF BInv
  <2>7. QED
    BY <2>5, <2>6
<1>2. QED
  BY <1>1, StartInvariant, SendFileInvariant, SendCommandInvariant, GetResponseInvariant,
     ExecuteInvariant DEF BootNext, Tools

\* In every reachable state iBoot is at a place of a list of which all that comes before has
\* been done, unless a file has overtaken a command.
THEOREM BootInvariance == BootSpec => []BInv
BY BootInitially, BootStep, PTL DEF BootSpec

\* Type correctness of the tools, the queue and the memory of the phone.
THEOREM BootTypeCorrect == BootSpec => []BootTypeOK
<1>1. BInv => BootTypeOK
  BY BootTypes DEF BInv
<1>2. QED
  BY <1>1, BootInvariance, PTL

\* About to leave.
LEMMA Leaving ==
  ASSUME BInv, ~overtaken, queue # <<>>, Head(queue).name \in {"go", "bootx"}
  PROVE  IF Head(queue).name = "go" THEN ReadyToGo ELSE ReadyToBoot
<1>1. PICK t \in Tools, k \in Nat : InStep(t, k)
  BY DEF BInv
<1>2. /\ Head(queue) = queue[1] /\ Len(queue) \in Nat \ {0} /\ Head(queue) \in Commands
  <2>1. queue \in Seq(Commands)
    BY DEF BInv, Types
  <2> DEFINE C == Commands
  <2> HIDE DEF C
  <2>2. queue \in Seq(C) /\ queue # <<>>
    BY <2>1 DEF C
  <2>3. Head(queue) = queue[1] /\ Len(queue) \in Nat \ {0} /\ Head(queue) \in C
    BY <2>2
  <2>4. QED
    BY <2>3 DEF C
<1>3. k + 1 \in 1..Lines(t) /\ Head(queue) = ProgramOf(t)[k + 1]
  <2>1. k + Len(queue) <= Lines(t) /\ 1 \in 1..Len(queue) /\ queue[1] = ProgramOf(t)[k + 1]
    BY <1>1, <1>2 DEF InStep
  <2>2. Lines(t) \in Nat
    BY ProgramsSound
  <2>3. QED
    BY <1>2, <2>1, <2>2
<1>4. Head(queue).do = "command"
  BY <1>2 DEF Commands
<1>5. Established(t, k)
  BY <1>1 DEF InStep
<1>6. CASE Head(queue).name = "go"
  <2>1. t = "load" /\ k = 2
    BY <1>3, <1>4, <1>6, LastInstructions
  <2>2. AtLoadIs("iBEC") /\ Sized("iBEC") /\ "iBEC" \in Image
    BY <1>5, <2>1 DEF Established, Image
  <2>3. QED
    BY <1>6, <2>2, TakenWhole DEF ReadyToGo
<1>7. CASE Head(queue).name = "bootx"
  <2>1. (t = "stock" /\ k = 9) \/ (t = "raw" /\ k = 12)
    BY <1>3, <1>4, <1>7, LastInstructions
  <2>2. AtLoadIs("kernel") /\ Sized("kernel") /\ Taken("devicetree")
    BY <1>5, <2>1 DEF Established
  <2>3. AtLoad = Whole("kernel")
    BY <2>2, TakenWhole DEF Image
  <2>4. \/ iBoot.args = "md0" /\ Taken("ramdisk")
        \/ iBoot.args = "pmd0" /\ iBoot.mem["raw"] = Whole("ramdisk") /\ iBoot.trusted
    BY <1>5, <2>1 DEF Established
  <2>5. QED
    BY <1>7, <2>2, <2>3, <2>4 DEF ReadyToBoot, Taken
<1>8. QED
  BY <1>6, <1>7

\* An iBoot that leaves for an image finds it complete, with its own size, and all that it
\* needs beside it, for any sizes of the images that fit below the raw ramdisk.
THEOREM BootsComplete == BootSpec => []BootsWhole
<1>1. BInv => BootsWhole
  <2> SUFFICES ASSUME BInv PROVE BootsWhole
    OBVIOUS
  <2>1. CASE overtaken
    BY <2>1 DEF BInv, Waits, BootsWhole
  <2>2. CASE ~overtaken
    BY <2>2, Leaving DEF BootsWhole, About
  <2>3. QED
    BY <2>1, <2>2
<1>2. QED
  BY <1>1, BootInvariance, PTL
=============================================================================
