----------------------------- MODULE ConsoleReader -----------------------------
(***************************************************************************)
(* idevice_get_response, and the poll of restore-ios1.sh that depends on    *)
(* it: ios1-recovery-command sends `printenv' to iBoot until its answer     *)
(* has the result of a payload in it.                                      *)
(*                                                                         *)
(* iBoot prints asynchronously, also before anybody has asked.  The reader  *)
(* empties its output piece by piece and takes it to be complete when a     *)
(* piece ends in a prompt, when nothing more has come for a while, or       *)
(* when the buffer is full.  The tool does not drain the console first, so  *)
(* an answer may be that to an earlier command, or no answer at all.        *)
(*                                                                         *)
(* Output is a sequence of bytes: "]" and "sp" make a prompt, "r1" "r2" are *)
(* the two halves of the line the poll looks for, "t" is other text.        *)
(*                                                                         *)
(* External: iBoot.  It has printed all of an answer before the next tool   *)
(* connects; it prints an answer at once; while a tool reads, it does so    *)
(* while there are still attempts left to read it; and it reports Chunk     *)
(* bytes or more at a time if it has them.                                  *)
(***************************************************************************)
EXTENDS FiniteSets, Naturals, Sequences

CONSTANTS Sizes,       \* response_size of the tools: 4096 and 16384
          Attempts,    \* 32
          Polls,       \* of the script: 240 or 360
          Chunk,       \* the least that iBoot reports, unless it has less
          Banner,      \* what iBoot has printed when the first tool connects
          MaxFailures  \* bound on the transfers that fail

Byte   == {"t", "r1", "r2", "]", "sp"}
Answer == <<"t", "r1", "r2", "]", "sp">>

EndsInPrompt(s) == Len(s) >= 2 /\ s[Len(s)] = "sp" /\ s[Len(s) - 1] = "]"

ASSUME SizeAssumption == Sizes \subseteq {n \in Nat : n >= 2}
ASSUME BoundsAssumption ==
  /\ Attempts \in Nat \ {0} /\ Polls \in Nat \ {0} /\ Chunk \in Nat \ {0}
  /\ MaxFailures \in Nat
ASSUME BannerAssumption == Banner \in Seq(Byte) /\ EndsInPrompt(Banner)

VARIABLES
  size,      \* of the buffer
  pc,        \* "connect" | "dump" | "check" | "found" | "gaveUp"
  attempt,   \* DumpBuffer requests so far
  response,  \* bytes in the buffer; used is their number
  owed,      \* iBoot has not yet printed the answer to the last command
  out,       \* printed and not yet read
  failures,  \* transfers that have failed
  misses     \* polls without the result in their answer

vars == <<size, pc, attempt, response, owed, out, failures, misses>>
-----------------------------------------------------------------------------
TypeOK ==
  /\ size \in Sizes /\ pc \in {"connect", "dump", "check", "found", "gaveUp"}
  /\ attempt \in 0..(Attempts - 1)
  /\ response \in Seq(Byte) /\ out \in Seq(Byte) /\ owed \in BOOLEAN
  /\ failures \in 0..MaxFailures /\ misses \in 0..Polls

Init ==
  /\ size \in Sizes /\ pc = "connect" /\ attempt = 0 /\ response = <<>>
  /\ owed = FALSE /\ out = Banner /\ failures = 0 /\ misses = 0

used == Len(response)

HasResult(s) ==
  \E i \in 1..Len(s) : i < Len(s) /\ s[i] = "r1" /\ s[i + 1] = "r2"

\* The tool returns to the poll; the poll looks for the result if it succeeded.
Return(found) ==
  /\ misses' = IF found THEN misses ELSE misses + 1
  /\ pc' = IF found THEN "found" ELSE IF misses + 1 = Polls THEN "gaveUp" ELSE "connect"
  /\ response' = <<>> /\ attempt' = 0

\* The command is accepted; the buffer is empty.
Send ==
  /\ pc = "connect" /\ ~owed
  /\ pc' = "dump" /\ owed' = TRUE
  /\ UNCHANGED <<size, attempt, response, out, failures, misses>>

\* Mutant: one attempt too many.
AgainOnceMore ==
  IF attempt < Attempts
  THEN /\ pc' = "dump" /\ attempt' = attempt + 1
       /\ UNCHANGED <<response, misses>>
  ELSE Return(HasResult(response))

\* One more attempt has been used up; after the last one, what there is will do.
Again ==
  IF attempt + 1 < Attempts
  THEN /\ pc' = "dump" /\ attempt' = attempt + 1
       /\ UNCHANGED <<response, misses>>
  ELSE Return(HasResult(response))

\* iBoot has nothing to report.
NoOutput ==
  /\ pc = "dump" /\ out = <<>>
  /\ Again
  /\ UNCHANGED <<size, owed, out, failures>>

Least(m, n) == IF m < n THEN m ELSE n

\* Mutant: no room is left for the zero.
AvailableAll == size - used

Available == size - used - 1

\* Mutant: each piece is written over the one before.
StoredOver(piece) == piece

Stored(piece) == response \o piece

\* iBoot reports n bytes, and as many of them are read as fit.
BulkRead(n) ==
  /\ pc = "dump" /\ n \in 1..Len(out) /\ n >= Least(Chunk, Len(out))
  /\ LET wanted == Least(n, Available)
     IN  /\ response' = Stored(SubSeq(out, 1, wanted))
         /\ out' = SubSeq(out, wanted + 1, Len(out))
  /\ pc' = "check"
  /\ UNCHANGED <<size, attempt, owed, failures, misses>>

\* A prompt ends the answer; without one a full buffer is an error.
Check ==
  /\ pc = "check"
  /\ IF EndsInPrompt(response) THEN Return(HasResult(response))
     ELSE IF used + 1 >= size THEN Return(FALSE) ELSE Again
  /\ UNCHANGED <<size, owed, out, failures>>

\* The command, a request or a bulk transfer fails, and with it the tool: what it
\* has read is lost.
TransferFails ==
  /\ pc \in {"connect", "dump"} /\ failures < MaxFailures
  /\ failures' = failures + 1 /\ Return(FALSE)
  /\ UNCHANGED <<size, owed, out>>

\* In n attempts more than these bytes can be read, Chunk or more at a time.
Readable(bytes, n) == bytes < n * Chunk

IBootPrints ==
  /\ owed
  /\ pc \in {"dump", "check"} => Readable(Len(out \o Answer), Attempts - attempt - 1)
  /\ out' = out \o Answer /\ owed' = FALSE
  /\ UNCHANGED <<size, pc, attempt, response, failures, misses>>

Next ==
  \/ Send \/ NoOutput \/ Check \/ TransferFails \/ IBootPrints
  \/ \E n \in 1..Len(out) : BulkRead(n)

Spec == Init /\ [][Next]_vars
-----------------------------------------------------------------------------
(* Properties.                                                             *)

\* The bytes that are read fit, with the zero that ends them, and every bulk read
\* asks for at least one (idevice_get_response): whatever iBoot reports, after any
\* number of pieces.
FitsBuffer == used < size /\ (pc = "dump" => Available >= 1)

\* The prompts, or what looks like one, that are printed before the first command.
OldPrompts == Cardinality({i \in 1..Len(Banner) : EndsInPrompt(SubSeq(Banner, 1, i))})

\* Each of these costs the poll a look: an old prompt that is taken for the end of an
\* answer, a transfer that fails, and what is left of the answer that it cut short.
Excused == OldPrompts + 2 * failures

\* There is room, and there are attempts, for all that is printed in the meantime.
Roomy ==
  LET most == Len(Banner) + (Excused + 1) * Len(Answer)
  IN  size > most /\ Readable(most, Attempts)

\* A poll for a result that is there finds it after a few looks, although the tool does
\* not drain the console and every answer may be to an earlier command
\* (restore-ios1.sh, the polls for a payload's result).
SeesSoon == Roomy => misses <= Excused
=============================================================================
