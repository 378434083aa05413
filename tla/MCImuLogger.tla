---------------------------- MODULE MCImuLogger ----------------------------
(* Instance of ImuLogger for TLC: the constants are given in the cfg files. *)
EXTENDS ImuLogger
=============================================================================
