-------------------------------- MODULE Nvram --------------------------------
(***************************************************************************)
(* The environment variables of the phone's boot loader that this          *)
(* repository reads and writes.  They exist twice: in NVRAM, which         *)
(* survives a reset, and in the memory of a running iBoot, which does not. *)
(* iBoot and /usr/sbin/nvram are not part of the repository.               *)
(***************************************************************************)

EraseResult  == "ios1-baseband-erase-result"
UpdateResult == "ios1-baseband-update-result"

EnvName == {"boot-args", "auto-boot", EraseResult, UpdateResult}

\* "" is an unset or emptied variable; "rd=md0" stands for the boot arguments
\* that make a kernel boot from a ramdisk.
EnvValue == {"", "rd=md0", "true", "false", "pending", "success", "failed"}

Environment == [EnvName -> EnvValue]

\* `nvram name=value' on the phone, `setenv name value' in the iBoot console.
Put(environment, name, value) == [environment EXCEPT ![name] = value]

=============================================================================
