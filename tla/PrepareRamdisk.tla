---------------------------- MODULE PrepareRamdisk ----------------------------
(***************************************************************************)
(* prepare-baseband-ramdisk.sh: the restore ramdisk of an IPSW is decoded   *)
(* to a raw image, mounted, edited below its mount point, and detached.     *)
(*                                                                         *)
(* Cleanup runs when the script exits and when INT or TERM arrives, but     *)
(* after a signal the script goes on where it was: with the image detached  *)
(* and the mount point gone, or back to an ordinary directory of the host.  *)
(* A signal may also end the command that runs in the foreground, which is  *)
(* a failure of that command.                                              *)
(*                                                                         *)
(* External: hdiutil, which attaches an image only at a directory that is   *)
(* there, and reports success only when it has done its work; PlistBuddy,   *)
(* which cannot create a file in a directory that is missing.               *)
(***************************************************************************)
VARIABLES
  mode,        \* "erase" | "update"
  pc,
  DISK_DEVICE, \* it is set
  directory,   \* what is at MOUNT_POINT: "none" | "empty" | "filled"
  mounted,     \* the image is
  image,       \* the edits it has got, or none of them
  lost         \* the image is attached and the script cannot know or help it

vars == <<mode, pc, DISK_DEVICE, directory, mounted, image, lost>>
-----------------------------------------------------------------------------
Edit == {"mkdir", "clear", "copy", "arguments"}

\* From trap to `trap -'.
Trapped ==
  {"attach", "device", "check", "sync", "detach", "forget", "untrap"} \cup Edit

TypeOK ==
  /\ mode \in {"erase", "update"}
  /\ pc \in Trapped \cup {"decode", "mktemp", "rmdir", "done", "exiting", "exited"}
  /\ DISK_DEVICE \in BOOLEAN /\ mounted \in BOOLEAN /\ lost \in BOOLEAN
  /\ directory \in {"none", "empty", "filled"}
  /\ image \subseteq {"raw"} \cup Edit
  /\ mounted => directory # "none"

Init ==
  /\ mode \in {"erase", "update"}
  /\ pc = "decode" /\ DISK_DEVICE = FALSE /\ directory = "none" /\ mounted = FALSE
  /\ image = {} /\ lost = FALSE

Goto(from, to) == pc = from /\ pc' = to

-----------------------------------------------------------------------------
(* The script.                                                             *)

\* The checks of the arguments and of the container, then dd or openssl.
Decode ==
  /\ Goto("decode", "mktemp")
  /\ image' = {"raw"}
  /\ UNCHANGED <<mode, DISK_DEVICE, directory, mounted, lost>>

\* mktemp -d, and trap.
MakeMountPoint ==
  /\ Goto("mktemp", "attach")
  /\ directory' = "empty"
  /\ UNCHANGED <<mode, DISK_DEVICE, mounted, image, lost>>

Attach ==
  /\ Goto("attach", "device") /\ directory # "none"
  /\ mounted' = TRUE
  /\ UNCHANGED <<mode, DISK_DEVICE, directory, image, lost>>

SetDevice ==
  /\ Goto("device", "check")
  /\ DISK_DEVICE' = TRUE
  /\ UNCHANGED <<mode, directory, mounted, image, lost>>

\* The mount point and restored_external are there.
CheckPlist ==
  /\ Goto("check", "mkdir") /\ mounted
  /\ UNCHANGED <<mode, DISK_DEVICE, directory, mounted, image, lost>>

\* mkdir -p makes the mount point again if it has gone.
MakeDirectories ==
  /\ Goto("mkdir", "clear")
  /\ IF mounted
     THEN image' = image \cup {"mkdir"} /\ UNCHANGED directory
     ELSE directory' = "filled" /\ UNCHANGED image
  /\ UNCHANGED <<mode, DISK_DEVICE, mounted, lost>>

\* PlistBuddy: the file is only in the image.
ClearArguments ==
  /\ Goto("clear", "copy") /\ mounted
  /\ image' = image \cup {"clear"}
  /\ UNCHANGED <<mode, DISK_DEVICE, directory, mounted, lost>>

\* cp into a directory that mkdir may have made on the host; the update looks for the
\* firmware in the image first.
CopyPayload ==
  /\ Goto("copy", "arguments")
  /\ mounted \/ (mode = "erase" /\ directory = "filled")
  /\ image' = IF mounted THEN image \cup {"copy"} ELSE image
  /\ UNCHANGED <<mode, DISK_DEVICE, directory, mounted, lost>>

AddArguments ==
  /\ Goto("arguments", "sync") /\ mounted
  /\ image' = image \cup {"arguments"}
  /\ UNCHANGED <<mode, DISK_DEVICE, directory, mounted, lost>>

Sync ==
  /\ Goto("sync", "detach")
  /\ UNCHANGED <<mode, DISK_DEVICE, directory, mounted, image, lost>>

\* hdiutil detach, here under set -e.
Detach ==
  /\ Goto("detach", "forget") /\ mounted
  /\ mounted' = FALSE
  /\ UNCHANGED <<mode, DISK_DEVICE, directory, image, lost>>

Forget ==
  /\ Goto("forget", "untrap")
  /\ DISK_DEVICE' = FALSE
  /\ UNCHANGED <<mode, directory, mounted, image, lost>>

Untrap ==
  /\ Goto("untrap", "rmdir")
  /\ UNCHANGED <<mode, DISK_DEVICE, directory, mounted, image, lost>>

\* rmdir, and the name of the output is printed.
RemoveMountPoint ==
  /\ Goto("rmdir", "done") /\ directory = "empty" /\ ~mounted
  /\ directory' = "none"
  /\ UNCHANGED <<mode, DISK_DEVICE, mounted, image, lost>>

\* A command fails: from trap to `trap -' cleanup runs.  A failure between hdiutil
\* attach and the assignment leaves cleanup without the name of the disk.
Fail ==
  /\ pc \notin {"done", "exiting", "exited"}
  /\ pc' = IF pc \in Trapped THEN "exiting" ELSE "exited"
  /\ lost' = (pc = "device")
  /\ UNCHANGED <<mode, DISK_DEVICE, directory, mounted, image>>

-----------------------------------------------------------------------------
(* Cleanup and signals.                                                    *)

\* Mutant: the disk is not detached.
DetachedNot(held) == mounted

\* hdiutil detach; it may fail, and is not tried without DISK_DEVICE.
Detached(held) == mounted /\ (held \/ ~DISK_DEVICE)

\* Mutant: rm -rf takes with it what is in the image, if that is still attached.
ImageLeftNone(attached) == IF attached THEN {} ELSE image

\* rmdir does not.
ImageLeft(attached) == image

\* Mutant: the mount point is taken for empty while the image is attached.
RemainingNot(attached) == IF directory = "empty" THEN "none" ELSE directory

\* It takes the directory if nothing is in it.
Remaining(attached) ==
  IF directory = "empty" /\ ~attached THEN "none" ELSE directory

Cleanup ==
  \E held \in BOOLEAN :
    /\ held => mounted /\ DISK_DEVICE
    /\ mounted' = Detached(held)
    /\ directory' = Remaining(mounted')
    /\ image' = ImageLeft(mounted')
    /\ lost' = (lost \/ (held /\ pc = "exiting"))

CleanupAtExit ==
  /\ Goto("exiting", "exited") /\ Cleanup
  /\ UNCHANGED <<mode, DISK_DEVICE>>

\* INT or TERM while it is trapped: the script goes on.
SignalTrapped ==
  /\ pc \in Trapped /\ Cleanup
  /\ UNCHANGED <<mode, pc, DISK_DEVICE>>

\* A signal that is not trapped, KILL or HUP.
Killed ==
  /\ pc \notin {"done", "exited"} /\ pc' = "exited"
  /\ lost' = mounted
  /\ UNCHANGED <<mode, DISK_DEVICE, directory, mounted, image>>

Edits == MakeDirectories \/ ClearArguments \/ CopyPayload \/ AddArguments

Next ==
  \/ Decode \/ MakeMountPoint \/ Attach \/ SetDevice \/ CheckPlist
  \/ Edits \/ Sync \/ Detach \/ Forget \/ Untrap \/ RemoveMountPoint
  \/ Fail \/ CleanupAtExit \/ SignalTrapped \/ Killed

Spec == Init /\ [][Next]_vars
-----------------------------------------------------------------------------
(* Properties.                                                             *)

\* The script succeeds only when every edit is in the image and the image is detached
\* (prepare-baseband-ramdisk.sh; restore-ios1.sh then boots it), although after a
\* signal it goes on with an image that may be gone, or that cleanup failed to
\* detach, and on a mount point that may have become a directory of the host.
DoneIsComplete == pc = "done" => image = {"raw"} \cup Edit /\ ~mounted

\* The image is not left attached (cleanup), unless its detachment fails at the end,
\* the script is killed, or fails before it knows the name of the disk.
NothingLeftMounted == pc \in {"done", "exited"} /\ ~lost => ~mounted
=============================================================================
