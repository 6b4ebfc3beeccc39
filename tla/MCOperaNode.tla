----------------------------- MODULE MCOperaNode -----------------------------
(* Instances of OperaNode for TLC: which faults the environment may show. *)
EXTENDS OperaNode

(* Everything FaultKinds lists. *)
AnyFault == FaultKinds

(* Docker carries out what it accepts, delivers signals and keeps streams  *)
(* until they break; a client that was asked to stop flushes its database. *)
RecoverableFaults == {"crash", "exec", "stream"}

(* A crash can meet a failed attempt to deliver the signal. *)
SignalFaults == {"crash", "signal"}

(* A client may die while it shuts down. *)
ShutdownFaults == {"dirtyStop"}

(* Clients may crash, docker never fails. *)
CrashFaults == {"crash"}
==============================================================================
