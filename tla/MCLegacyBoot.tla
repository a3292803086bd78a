----------------------------- MODULE MCLegacyBoot -----------------------------
(***************************************************************************)
(* LegacyBoot with images such that what is taken from the load address     *)
(* has another size than what was taken before it, a kernel that just fits  *)
(* below the raw ramdisk, and two commands that wait for one another.       *)
(***************************************************************************)
EXTENDS LegacyBoot

Sizes == [iBEC |-> 1, logo |-> 1, ramdisk |-> 2, devicetree |-> 1, kernel |-> 2]
=============================================================================
