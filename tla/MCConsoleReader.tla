---------------------------- MODULE MCConsoleReader ----------------------------
(***************************************************************************)
(* ConsoleReader with a banner that has a line ending like a prompt before  *)
(* its prompt, an answer of five bytes, and two buffers: one that a banner  *)
(* with one answer fills to the last byte, and one with room for all that   *)
(* can pile up.  The attempts suffice to read everything two bytes at a     *)
(* time.                                                                    *)
(***************************************************************************)
EXTENDS ConsoleReader

Start == <<"t", "]", "sp", "t", "]", "sp">>
=============================================================================
