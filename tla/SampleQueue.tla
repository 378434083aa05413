---------------------------- MODULE SampleQueue ----------------------------
(***************************************************************************)
(* What the IMU logger promises about the samples between its two threads, *)
(* stated without the ring, the mutex or the threads: a bounded queue that *)
(* hands samples over in the order they were taken, accepts each of them   *)
(* at most once and, when it is full, drops the newest one.  ImuLogger is  *)
(* shown to implement it.                                                  *)
(***************************************************************************)
EXTENDS Naturals, Sequences

CONSTANT Capacity

VARIABLES queue,    \* accepted samples that the consumer has not released
          newest,   \* number of the last sample taken from the sensor
          pending   \* that sample is neither accepted nor dropped yet

vars == <<queue, newest, pending>>

Init ==
  /\ queue = << >>
  /\ newest = 0
  /\ pending = FALSE

(* The sensor delivers one more sample; samples are numbered as they come. *)
Take ==
  /\ ~pending
  /\ newest' = newest + 1
  /\ pending' = TRUE
  /\ UNCHANGED queue

Accept ==
  /\ pending
  /\ Len(queue) < Capacity
  /\ queue' = Append(queue, newest)
  /\ pending' = FALSE
  /\ UNCHANGED newest

(* A sample is given up: its reading was incomplete, or the queue is full. *)
Drop ==
  /\ pending
  /\ pending' = FALSE
  /\ UNCHANGED <<queue, newest>>

(* The consumer releases the oldest sample.                                *)
Release ==
  /\ queue # << >>
  /\ queue' = Tail(queue)
  /\ UNCHANGED <<newest, pending>>

Next == Take \/ Accept \/ Drop \/ Release

Spec == Init /\ [][Next]_vars
=============================================================================
