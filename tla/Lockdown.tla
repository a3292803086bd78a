------------------------------- MODULE Lockdown -------------------------------
(***************************************************************************)
(* ios1-activate and ios1-enter-recovery, the loops that repeat them, and   *)
(* lockdownd on the phone.                                                  *)
(*                                                                         *)
(* A tool opens a connection, through the socket of the system's mux or     *)
(* else over USB by itself, and sends its requests one at a time.  A        *)
(* request that changes the phone may need a session, a session needs a     *)
(* pairing record that the phone accepts, and a record that it rejects is   *)
(* deleted for the next attempt to pair again.                              *)
(*                                                                         *)
(* Requests and answers are two queues.  Over USB a tool stops waiting      *)
(* after a while, and the answer it did not wait for is the first it finds  *)
(* after its next request: lockdownd_set_value_bool looks only at Result.   *)
(*                                                                         *)
(* External: lockdownd, which pairs with anybody; an exchange that gets no  *)
(* answer fails; Pair and StartSession, of which it is not known here       *)
(* whether they look at what an answer answers; a record is saved when      *)
(* Pair has succeeded.                                                      *)
(***************************************************************************)
EXTENDS Naturals, Sequences

CONSTANTS Attempts,  \* of each tool: 2 of ios1-activate, 5 of ios1-enter-recovery
          MaxFaults  \* bound on the connections and answers that are lost

ASSUME AttemptsAssumption ==
  Attempts \in [{"activate", "enterRecovery"} -> Nat \ {0}]
ASSUME FaultsAssumption == MaxFaults \in Nat

NoRecord == 0

VARIABLES
  tool,
  attempt,
  pc,        \* "open" | "ask" | "wait" | "done" | "failed"
  todo,      \* the requests the tool has still to make; it waits for the first
  needsPair, \* there was no record
  record,    \* the pairing record on the host: a host ID or NoRecord
  usb,       \* the connection does not go through a socket
  inbox,     \* requests the phone has not seen yet
  replies,   \* answers the tool has not seen yet
  late,      \* an answer has been given up on this connection
  \* The phone.
  open,      \* it needs no session for SetValue
  trusted,   \* host IDs it has paired with
  session,
  connected, \* iTunesHasConnected
  left,      \* it has left for recovery mode
  faults

host  == <<tool, attempt, pc, todo, needsPair, record, usb>>
link  == <<inbox, replies, late>>
phone == <<open, trusted, session, connected, left>>
vars  == <<host, link, phone, faults>>
-----------------------------------------------------------------------------
Request == {"SetValue", "GetValue", "Pair", "StartSession", "EnterRecovery"}
Reply   == [to : Request, result : {"Success", "InvalidHostID", "Error"}]

\* The host ID of a record made in this attempt.
NewId == attempt + 1

TypeOK ==
  /\ tool \in {"activate", "enterRecovery"}
  /\ attempt \in 1..Attempts[tool]
  /\ pc \in {"open", "ask", "wait", "done", "failed"}
  /\ todo \in Seq(Request) /\ (pc \in {"ask", "wait"} => todo # <<>>)
  /\ needsPair \in BOOLEAN /\ record \in 0..(Attempts[tool] + 1) /\ usb \in BOOLEAN
  /\ inbox \in Seq(Request \X Nat) /\ replies \in Seq(Reply) /\ late \in BOOLEAN
  /\ open \in BOOLEAN /\ trusted \subseteq 1..(Attempts[tool] + 1)
  /\ session \in BOOLEAN /\ connected \in BOOLEAN /\ left \in BOOLEAN
  /\ faults \in 0..MaxFaults

\* Any record: none, one the phone knows, one it has forgotten.
Init ==
  /\ tool \in {"activate", "enterRecovery"} /\ attempt = 1 /\ pc = "open" /\ todo = <<>>
  /\ needsPair = FALSE /\ record \in {NoRecord, 1} /\ usb = TRUE
  /\ inbox = <<>> /\ replies = <<>> /\ late = FALSE
  /\ open \in BOOLEAN /\ trusted \in {{}, {1}} /\ session = FALSE
  /\ connected = FALSE /\ left = FALSE /\ faults = 0

-----------------------------------------------------------------------------
(* One attempt of a tool.                                                  *)

\* lockdownd_client_start_paired_session, once the UDID has been asked for.
Paired == IF record = NoRecord THEN <<"Pair", "StartSession">> ELSE <<"StartSession">>

Program ==
  IF tool = "activate"
  THEN <<"SetValue", "GetValue">> \o Paired \o <<"SetValue">>
  ELSE <<"GetValue", "GetValue", "GetValue">> \o Paired \o <<"EnterRecovery">>

\* lockdownd_client_open: the socket if there is one, else USB.
Open ==
  /\ pc = "open" /\ ~left
  /\ pc' = "ask" /\ todo' = Program /\ needsPair' = (record = NoRecord)
  /\ usb' \in BOOLEAN
  /\ inbox' = <<>> /\ replies' = <<>> /\ late' = FALSE /\ session' = FALSE
  /\ UNCHANGED <<tool, attempt, record, open, trusted, connected, left, faults>>

\* Mutant: one attempt too many.
LastAttemptLate == attempt > Attempts[tool]

LastAttempt == attempt = Attempts[tool]

\* The tool exits with 1, and closes the connection: the script tries again.
GiveUp ==
  /\ todo' = <<>> /\ needsPair' = FALSE /\ inbox' = <<>> /\ replies' = <<>>
  /\ IF LastAttempt
     THEN pc' = "failed" /\ UNCHANGED attempt
     ELSE pc' = "open" /\ attempt' = attempt + 1

\* The host ID is that of the record, or a new one.
Send ==
  /\ pc = "ask" /\ pc' = "wait"
  /\ inbox' = Append(inbox, <<Head(todo), IF Head(todo) = "Pair" THEN NewId ELSE record>>)
  /\ UNCHANGED <<tool, attempt, todo, needsPair, record, usb, replies, late, phone, faults>>

\* The requests that may fail, because something else follows.
Optional == Head(todo) = "GetValue" \/ (Head(todo) = "SetValue" /\ Len(todo) > 1)

\* Mutant: any answer to SetValue is taken for success.
AcceptedAny(reply) == TRUE

\* Of Pair and StartSession it is not known whether they see to it that the answer is
\* theirs: both are possible where it is not.
Accepted(reply) == reply.result = "Success"

\* The tool goes on to the next request, or exits with 0: after the first SetValue
\* it is done if it succeeded.
Proceed ==
  IF Len(todo) = 1 \/ (Head(todo) = "SetValue" /\ Accepted(Head(replies)))
  THEN pc' = "done" /\ todo' = <<>>
  ELSE pc' = "ask" /\ todo' = Tail(todo)

Succeeds ==
  /\ pc = "wait" /\ replies # <<>>
  /\ Accepted(Head(replies)) \/ Optional
  /\ Proceed
  /\ record' = IF Head(todo) = "Pair" THEN NewId ELSE record
  /\ replies' = Tail(replies)
  /\ UNCHANGED <<tool, attempt, needsPair, usb, inbox, late, phone, faults>>

\* Mutant: a rejected record is kept.
RejectedKept(reply) == FALSE

\* A saved record that the phone rejects is deleted.
Rejected(reply) ==
  Head(todo) = "StartSession" /\ reply.result = "InvalidHostID" /\ ~needsPair

Refused ==
  /\ pc = "wait" /\ replies # <<>> /\ ~Optional
  /\ \/ ~Accepted(Head(replies))
     \/ Head(todo) \in {"Pair", "StartSession"} /\ Head(replies).to # Head(todo)
  /\ record' = IF Rejected(Head(replies)) THEN NoRecord ELSE record
  /\ GiveUp
  /\ UNCHANGED <<tool, usb, late, phone, faults>>

Fault == faults < MaxFaults /\ faults' = faults + 1

\* No connection; there is none to a phone that has left.
OpenFails ==
  /\ pc = "open"
  /\ IF left THEN UNCHANGED faults ELSE Fault
  /\ GiveUp
  /\ UNCHANGED <<tool, record, usb, late, phone>>

\* Over USB the tool stops waiting for an answer, which may still come.
TimesOut ==
  /\ pc = "wait" /\ usb /\ Fault
  /\ late' = TRUE
  /\ IF Optional
     THEN /\ pc' = "ask" /\ todo' = Tail(todo)
          /\ UNCHANGED <<attempt, needsPair, inbox, replies>>
     ELSE GiveUp
  /\ UNCHANGED <<tool, record, usb, phone>>

\* The connection is lost, and with it all further requests, or no UDID is to be had;
\* lost it is when the phone has left.
Dropped ==
  /\ pc \in {"ask", "wait"}
  /\ IF left THEN UNCHANGED faults ELSE Fault
  /\ GiveUp
  /\ UNCHANGED <<tool, record, usb, late, phone>>

-----------------------------------------------------------------------------
(* lockdownd.                                                              *)

Answers(result) == replies' = Append(replies, [to |-> Head(inbox)[1], result |-> result])

OnSetValue ==
  /\ Head(inbox)[1] = "SetValue"
  /\ IF open \/ session THEN Answers("Success") /\ connected' = TRUE
     ELSE Answers("Error") /\ UNCHANGED connected
  /\ UNCHANGED <<trusted, session, left>>

OnGetValue ==
  /\ Head(inbox)[1] = "GetValue"
  /\ Answers("Success") \/ Answers("Error")
  /\ UNCHANGED <<trusted, session, connected, left>>

OnPair ==
  /\ Head(inbox)[1] = "Pair"
  /\ Answers("Success") /\ trusted' = trusted \cup {Head(inbox)[2]}
  /\ UNCHANGED <<session, connected, left>>

OnStartSession ==
  /\ Head(inbox)[1] = "StartSession"
  /\ session' = (Head(inbox)[2] \in trusted)
  /\ Answers(IF session' THEN "Success" ELSE "InvalidHostID")
  /\ UNCHANGED <<trusted, connected, left>>

\* The phone leaves at once: the tool may not see the answer.
OnEnterRecovery ==
  /\ Head(inbox)[1] = "EnterRecovery"
  /\ left' = session
  /\ IF session THEN Answers("Success") \/ UNCHANGED replies ELSE Answers("Error")
  /\ UNCHANGED <<trusted, session, connected>>

Serve ==
  /\ inbox # <<>> /\ ~left
  /\ OnSetValue \/ OnGetValue \/ OnPair \/ OnStartSession \/ OnEnterRecovery
  /\ inbox' = Tail(inbox)
  /\ UNCHANGED <<host, late, open, faults>>

Next ==
  \/ Open \/ Send \/ Succeeds \/ Refused
  \/ OpenFails \/ TimesOut \/ Dropped
  \/ Serve

Spec == Init /\ [][Next]_vars
-----------------------------------------------------------------------------
(* Properties.                                                             *)

Goal == IF tool = "activate" THEN connected ELSE left

\* A tool that exits with 0 has done what it says (ios1-activate, ios1-enter-recovery),
\* whether with or without a session, with an old, a new or a rejected pairing
\* record, after any attempts that failed.  A connection on which an answer has been
\* given up is excepted: that answer can come late and be taken for a later one.
NoFalseReport == pc = "done" /\ ~late => Goal

\* The script fails only when the phone has already done what it was asked for, or when
\* faults have spoilt all its attempts but one, which was lost on a record that the
\* phone rejects: no fault costs a second attempt, although one may leave behind
\* a record that the phone does not know, or an answer to be taken for
\* another (activate-ios1.sh, enter_recovery).
Converges == pc = "failed" => Goal \/ Attempts[tool] <= 1 + faults
=============================================================================
