--------------------------- MODULE MCVideoProcess ---------------------------
(* Instance of VideoProcess for TLC: the constants are given in the cfg.   *)
EXTENDS VideoProcess
=============================================================================
