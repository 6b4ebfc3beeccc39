------------------------------ MODULE MCTracker ------------------------------
(* Instances of Tracker for TLC. *)
EXTENDS Tracker

CONSTANTS s1, s2

(* Every account works for an application of its own. *)
AppPerSender == [s \in Senders |-> s]

(* One account with a gap between two nonces, and one that shares blocks   *)
(* and the limit of followed transactions with it.                         *)
GapOfOne == [s \in Senders |-> IF s = s1 THEN 2 ELSE 0]

(* An account with two transactions parked behind the gap. *)
GapBeforeTwo == [s \in Senders |-> 3]
==============================================================================
