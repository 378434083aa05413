-------------------------- MODULE MCRecordControl --------------------------
(* Instance of RecordControl for TLC: the constants are given in the cfg   *)
(* files.                                                                  *)
EXTENDS RecordControl
=============================================================================
