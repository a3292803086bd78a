------------------------- MODULE MaintenancePayload -------------------------
(***************************************************************************)
(* What a baseband maintenance payload promises to the host that booted    *)
(* it.  The payload replaces the restore daemon of a ramdisk, works on the *)
(* baseband and tells the host how that went through NVRAM alone: the host *)
(* reads the result in recovery mode, after the phone has reset.           *)
(*                                                                         *)
(* Both payloads of the repository, ios1-baseband-erase.c and              *)
(* ios1-baseband-update.c, implement this specification (BasebandErase and *)
(* BasebandUpdate check it); RestoreWorkflow composes it with the host.    *)
(***************************************************************************)
EXTENDS Nvram, Naturals

CONSTANTS
  Result,       \* name of the result variable the payload reports in
  Done,         \* the state of the baseband once the work is complete
  Touched,      \* the states the work may put the baseband in
  FailAutoBoot  \* auto-boot after a failure: "true" back to iOS, "false" recovery

VARIABLES
  phase,     \* "idle" | "working" | "succeeded" | "failed"
  written,   \* how many of the final assignments have been attempted
  baseband,  \* state of the baseband firmware
  nvram

\* "newer": any installed firmware other than the target's; "erased": the
\* firmware header is gone; "damaged": a write was cut short; "target": the
\* firmware of the IPSW.
BasebandState == {"newer", "erased", "damaged", "target"}

payloadVars == <<phase, written, baseband, nvram>>

Phases == {"idle", "working", "succeeded", "failed"}

\* The variables a payload sets before it resets the phone, in this order:
\* the result goes last.
Assignments(succeeded, failAutoBoot, result) ==
  << <<"boot-args", "">>,
     <<"auto-boot", IF succeeded THEN "false" ELSE failAutoBoot>>,
     <<result, IF succeeded THEN "success" ELSE "failed">> >>

\* The host has reset the result and the boot variables before it boots the
\* ramdisk (RestoreWorkflow).
Init ==
  /\ phase = "working"
  /\ written = 0
  /\ baseband \in BasebandState
  /\ nvram \in Environment
  /\ nvram[Result] = "pending"
  /\ nvram["auto-boot"] = "true"
  /\ nvram["boot-args"] = ""

-----------------------------------------------------------------------------
\* The baseband changes under the payload's hands.  It may still do so after
\* the payload has given up (an erase that ends late), never after it has
\* found the work complete.
Work ==
  /\ phase \in {"working", "failed"}
  /\ baseband' \in Touched
  /\ UNCHANGED <<phase, written, nvram>>

Succeed ==
  /\ phase = "working"
  /\ baseband = Done
  /\ phase' = "succeeded"
  /\ UNCHANGED <<written, baseband, nvram>>

GiveUp ==
  /\ phase = "working"
  /\ phase' = "failed"
  /\ UNCHANGED <<written, baseband, nvram>>

\* The payload ignores an assignment that does not succeed.
Assign ==
  /\ phase \in {"succeeded", "failed"}
  /\ written < 3
  /\ LET a == Assignments(phase = "succeeded", FailAutoBoot, Result)[written + 1]
     IN  nvram' \in {nvram, Put(nvram, a[1], a[2])}
  /\ written' = written + 1
  /\ UNCHANGED <<phase, baseband>>

\* The orderly end of a payload, reached only once every assignment has
\* been attempted.
Reset ==
  /\ phase \in {"succeeded", "failed"}
  /\ written = 3
  /\ phase' = "idle"
  /\ UNCHANGED <<written, baseband, nvram>>

\* The watchdog, a kernel panic or an empty battery ends the payload where it
\* stands.
Cut ==
  /\ phase # "idle"
  /\ phase' = "idle"
  /\ UNCHANGED <<written, baseband, nvram>>

Next == Work \/ Succeed \/ GiveUp \/ Assign \/ Reset \/ Cut

Spec == Init /\ [][Next]_payloadVars

=============================================================================
