--------------------------- MODULE MCCommandFifo ---------------------------
(* CommandFifo with a few senders, which are not symmetric under fairness. *)
EXTENDS CommandFifo
=============================================================================
