-------------------------- MODULE EmissionObserver ---------------------------
(***************************************************************************)
(* The emission observer (driver/monitoring/transactions/emissions.go):    *)
(* a goroutine that, on every tick, walks the event DAG of the current     *)
(* epoch from its heads down to the events visited before, and reports the *)
(* transactions of each event it reads to the tracker.                     *)
(*                                                                         *)
(* Events are numbered in the order of their creation, so the parents of   *)
(* an event have smaller numbers. A node knows the events up to some       *)
(* number; the connection is redialled to any node after a failure, so     *)
(* what it knows may shrink. RPC calls are steps of their own: the DAG     *)
(* grows and epochs are sealed in between.                                 *)
(***************************************************************************)
EXTENDS Naturals, Sequences, SequencesExt

CONSTANTS
  MaxEvents,   \* bound on the events of the network
  MaxEpochs,   \* bound on its epochs
  MaxFailures  \* bound on failing RPC calls of the observer; 0: none fails

ASSUME EmissionAssumption ==
  MaxEvents \in Nat /\ MaxEpochs \in Nat \ {0} /\ MaxFailures \in Nat

Events == 1 .. MaxEvents
NoClient == MaxEvents + 1

VARIABLES
  parents,   \* the parents of each event created so far
  epochOf,   \* the epoch of each event created so far
  epoch,     \* the current epoch of the network
  client,    \* the connected node: how many events it knows; or NoClient
  polled,    \* the epoch eth_currentEpoch answered
  pc,        \* "tick", "heads", "walk" or "stopped"
  pending,   \* the stack of walk
  visited,   \* emissionObserver.visited
  reads,     \* how often each event was read and its transactions reported
  failures   \* emissionObserver.failures

dag == <<parents, epochOf, epoch>>
emissionVars == <<dag, client, polled, pc, pending, visited, reads, failures>>

Created == DOMAIN parents
OfCurrentEpoch(e) == e \in Created /\ epochOf[e] = epoch

EmissionInit ==
  /\ parents = <<>> /\ epochOf = <<>> /\ epoch = 1
  /\ client = NoClient /\ polled = 0
  /\ pc = "tick" /\ pending = <<>>
  /\ visited = {} /\ reads = [e \in Events |-> 0] /\ failures = 0

-----------------------------------------------------------------------------
(* The network *)

(* The first event of an epoch has no parents, the others have. *)
CreateEvent ==
  /\ Len(parents) < MaxEvents
  /\ \E P \in SUBSET {e \in Created : OfCurrentEpoch(e)} :
       /\ P = {} => \A e \in Created : ~OfCurrentEpoch(e)
       /\ parents' = Append(parents, P)
  /\ epochOf' = Append(epochOf, epoch)
  /\ UNCHANGED <<epoch, client, polled, pc, pending, visited, reads, failures>>

SealEpoch ==
  /\ epoch < MaxEpochs
  /\ epoch' = epoch + 1
  /\ UNCHANGED <<parents, epochOf, client, polled, pc, pending, visited, reads,
                 failures>>

(* The connected node catches up. *)
Sync ==
  /\ client < Len(parents)
  /\ client' = Len(parents)
  /\ UNCHANGED <<dag, polled, pc, pending, visited, reads, failures>>

(* Fault: the heads of the last sealed epoch are asked for. *)
sealedHeads(p, k) ==
  {e \in 1 .. k : epochOf[e] = p - 1 /\ \A f \in 1 .. k : e \notin parents[f]}
(* A node keeps the heads of the current epoch only. *)
Heads(p, k) ==
  {e \in 1 .. k : /\ p = epoch /\ epochOf[e] = p
                  /\ \A f \in 1 .. k : e \notin parents[f]}

-----------------------------------------------------------------------------
(* The observer *)

(* A tick without a connection dials any node; if that fails, the tick is  *)
(* lost and nothing changes.                                               *)
dial ==
  /\ pc = "tick" /\ client = NoClient
  /\ \E k \in 0 .. Len(parents) : client' = k
  /\ UNCHANGED <<dag, polled, pc, pending, visited, reads, failures>>

(* An RPC call fails: poll returns, what is left of the stack is forgotten *)
(* and the connection closed.                                              *)
pollFails ==
  /\ failures < MaxFailures
  /\ failures' = failures + 1
  /\ pc' = "tick" /\ pending' = <<>> /\ client' = NoClient
  /\ UNCHANGED <<dag, polled, reads>>

currentEpoch ==
  /\ pc = "tick" /\ client # NoClient
  /\ \/ /\ polled' = epoch
        /\ pc' = "heads"
        /\ UNCHANGED <<dag, client, pending, visited, reads, failures>>
     \/ pollFails /\ UNCHANGED visited

getHeads ==
  /\ pc = "heads"
  /\ \/ /\ pending' \in SetToSeqs(Heads(polled, client))
        /\ pc' = "walk"
        /\ UNCHANGED <<dag, client, polled, visited, reads, failures>>
     \/ pollFails /\ UNCHANGED visited

(* Fault: every poll walks the epoch again. *)
walkAgain(e) == FALSE
alreadyVisited(e) == e \in visited

(* Fault: an event ends the walk when one of its parents is visited. *)
ancestorsOfUnseen(e) == IF parents[e] \cap visited = {} THEN parents[e] ELSE {}
ancestors(e) == parents[e]

(* Pops an event: skips it, reads it, is told that it does not exist, or   *)
(* fails to read it. It is marked as visited in every case.                *)
walk ==
  /\ pc = "walk" /\ pending # <<>>
  /\ LET e == Last(pending)
         rest == Front(pending)
     IN /\ visited' = visited \cup {e}
        /\ \/ /\ alreadyVisited(e)
              /\ pending' = rest
              /\ UNCHANGED <<dag, client, polled, pc, reads, failures>>
           \/ /\ ~alreadyVisited(e)
              /\ reads' = [reads EXCEPT ![e] = @ + 1]
              /\ \E more \in SetToSeqs(ancestors(e)) : pending' = rest \o more
              /\ UNCHANGED <<dag, client, polled, pc, failures>>
           \/ /\ ~alreadyVisited(e) /\ epochOf[e] # epoch
              /\ pending' = rest
              /\ UNCHANGED <<dag, client, polled, pc, reads, failures>>
           \/ ~alreadyVisited(e) /\ pollFails

walkEnds ==
  /\ pc = "walk" /\ pending = <<>>
  /\ pc' = "tick"
  /\ UNCHANGED <<dag, client, polled, pending, visited, reads, failures>>

(* The context is cancelled: the loops of run and walk look at it. *)
EmissionCancel ==
  /\ pc \in {"tick", "walk"}
  /\ pc' = "stopped" /\ pending' = <<>> /\ client' = NoClient
  /\ UNCHANGED <<dag, polled, visited, reads, failures>>

-----------------------------------------------------------------------------
EmissionNext ==
  \/ CreateEvent \/ SealEpoch \/ Sync
  \/ dial \/ currentEpoch \/ getHeads \/ walk \/ walkEnds \/ EmissionCancel

(* The ticker ticks and RPC calls return; a connected node catches up with *)
(* the network. Nothing has to fail, and nobody has to cancel.             *)
EmissionFairness ==
  /\ WF_emissionVars(dial) /\ WF_emissionVars(currentEpoch) /\ WF_emissionVars(getHeads)
  /\ WF_emissionVars(walkEnds) /\ WF_emissionVars(walk)
  /\ WF_emissionVars(Sync)

EmissionSpec == EmissionInit /\ [][EmissionNext]_emissionVars /\ EmissionFairness

-----------------------------------------------------------------------------
EmissionTypeOK ==
  /\ parents \in Seq(SUBSET Events) /\ Len(parents) <= MaxEvents
  /\ epochOf \in Seq(1 .. MaxEpochs) /\ Len(epochOf) = Len(parents)
  /\ epoch \in 1 .. MaxEpochs /\ polled \in 0 .. MaxEpochs
  /\ client \in 0 .. Len(parents) \cup {NoClient}
  /\ pc \in IF client = NoClient THEN {"tick", "stopped"} ELSE {"tick", "heads", "walk"}
  /\ pending \in Seq(Created) /\ visited \subseteq Created
  /\ reads \in [Events -> Nat] /\ failures \in 0 .. MaxFailures

(* No event is read twice, so no transaction of it is reported twice:      *)
(* neither when two events share a parent, nor when a later poll or one    *)
(* after a reconnect meets it again (visited).                             *)
ReadOnce == \A e \in Events : reads[e] <= 1

(* The parents of an event that was read are visited or still on the stack *)
(* while their epoch lasts, so that a later poll may stop at that event.   *)
ParentsAreFollowed ==
  \A e \in Created :
    reads[e] > 0 /\ OfCurrentEpoch(e) /\ pc # "stopped" =>
      parents[e] \subseteq visited \cup Range(pending)

(* Without a failed RPC call no walk leaves a parent behind.               *)
WalkIsComplete == failures = 0 => ParentsAreFollowed

(* Every event is found by some poll, or its epoch is sealed before: unless*)
(* a call fails or the observer is stopped.                                *)
EventIsFound ==
  \A e \in Events :
    OfCurrentEpoch(e)
      ~> (e \in visited \/ ~OfCurrentEpoch(e) \/ failures > 0 \/ pc = "stopped")
==============================================================================
