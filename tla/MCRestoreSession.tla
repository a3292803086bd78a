--------------------------- MODULE MCRestoreSession ---------------------------
(***************************************************************************)
(* RestoreSession is finite as it stands: both versions, both protocols,    *)
(* with and without -x, and the retry.                                      *)
(***************************************************************************)
EXTENDS RestoreSession
=============================================================================
