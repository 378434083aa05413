-------------------------- MODULE MCGnssCollector --------------------------
(* GnssCollector for TLC: the clock stops after a few seconds.             *)
EXTENDS GnssCollector
=============================================================================
