---------------------------- MODULE LoadPipeline -----------------------------
(***************************************************************************)
(* The load generation of one application: the controller that triggers    *)
(* messages at the rate of its shaper, a generator goroutine per user, the *)
(* channel of the RPC worker pool, and the workers of each node that send  *)
(* what it holds (load/controller, driver/network/rpc); together with the  *)
(* goroutine that creates and removes nodes, stops the application and     *)
(* shuts the network down (driver/network/local, driver/executor).         *)
(*                                                                         *)
(* Every channel operation is a step. The workers of a node behave alike   *)
(* and are modelled by one. Transactions are counted, not told apart.      *)
(***************************************************************************)
EXTENDS Naturals, FiniteSets

CONSTANTS
  Users,        \* the users of the application, one generator each
  Nodes,        \* the nodes of the network
  TriggerCap,   \* capacity of AppController.trigger
  TxsCap,       \* capacity of RpcWorkerPool.txs
  MaxMessages   \* bound on the messages the shaper asks for

ASSUME UsersAssumption == IsFiniteSet(Users) /\ IsFiniteSet(Nodes) /\ Nodes # {}
ASSUME CapsAssumption ==
  TriggerCap \in Nat \ {0} /\ TxsCap \in Nat \ {0} /\ MaxMessages \in Nat

VARIABLES
  ctl,            \* where AppController.Run is
  budget,         \* messages the shaper may still ask for
  pending,        \* the local variable of Run
  appCtx,         \* the context of Run: "alive" or "cancelled"
  trigger,        \* messages in the channel trigger
  triggerClosed,  \* whether Run closed it
  gen,            \* where each generator is
  txs,            \* transactions in the channel of the pool
  txsClosed,      \* whether Close closed it
  poolCtx,        \* the context of the pool
  attached,       \* nodes with a worker group
  worker,         \* where the workers of each node are
  closing,        \* nodes whose workers' context is cancelled
  exec,           \* what the executor goroutine waits for
  target,         \* the node it removes
  generated,      \* transactions generated so far
  reported        \* submissions reported to the observers so far

appVars == <<ctl, budget, pending, trigger, triggerClosed>>
poolVars == <<txsClosed, poolCtx, attached, closing>>
execVars == <<exec, target>>
vars == <<appVars, appCtx, gen, txs, poolVars, worker, execVars, generated, reported>>

Init ==
  /\ ctl = "created" /\ budget = MaxMessages /\ pending = 0 /\ appCtx = "alive"
  /\ trigger = 0 /\ triggerClosed = FALSE
  /\ gen = [u \in Users |-> "none"]
  /\ txs = 0 /\ txsClosed = FALSE /\ poolCtx = "alive"
  /\ attached = {} /\ worker = [n \in Nodes |-> "none"] /\ closing = {}
  /\ exec = "idle" /\ target = CHOOSE n \in Nodes : TRUE
  /\ generated = 0 /\ reported = 0

-----------------------------------------------------------------------------
(* AppController.Run *)

(* Creating the application needs a node to connect to. *)
Start ==
  /\ exec = "idle" /\ ctl = "created" /\ attached # {}
  /\ ctl' = "loop"
  /\ gen' = [u \in Users |-> "wait"]
  /\ UNCHANGED <<budget, pending, trigger, triggerClosed, appCtx, txs, poolVars,
                 worker, execVars, generated, reported>>

(* GetNumMessagesInInterval of the shaper *)
Replenish ==
  /\ ctl = "loop"
  /\ ctl' = "push"
  /\ \E k \in 0 .. budget : pending' = k /\ budget' = budget - k
  /\ UNCHANGED <<trigger, triggerClosed, appCtx, gen, txs, poolVars, worker,
                 execVars, generated, reported>>

PushTrigger ==
  /\ ctl = "push" /\ pending > 0 /\ trigger < TriggerCap
  /\ trigger' = trigger + 1
  /\ pending' = pending - 1
  /\ UNCHANGED <<ctl, budget, triggerClosed, appCtx, gen, txs, poolVars, worker,
                 execVars, generated, reported>>

(* select picks any ready case, so the timer may win against a context     *)
(* that is done.                                                           *)
SelectTimer ==
  /\ ctl = "push" /\ pending = 0
  /\ ctl' = "loop"
  /\ UNCHANGED <<budget, pending, trigger, triggerClosed, appCtx, gen, txs,
                 poolVars, worker, execVars, generated, reported>>

(* Fault: the loop goes on after the channel is closed. *)
loopOn == "loop"
afterClose == "wait"

(* Fault: the generators are waited for without closing the channel. *)
leaveOpen == triggerClosed
closeTrigger == TRUE

SelectDone ==
  /\ ctl = "push" /\ pending = 0 /\ appCtx = "cancelled"
  /\ triggerClosed' = closeTrigger
  /\ ctl' = afterClose
  /\ UNCHANGED <<budget, pending, trigger, appCtx, gen, txs, poolVars, worker,
                 execVars, generated, reported>>

RunReturns ==
  /\ ctl = "wait" /\ \A u \in Users : gen[u] = "done"
  /\ ctl' = "returned"
  /\ UNCHANGED <<budget, pending, trigger, triggerClosed, appCtx, gen, txs,
                 poolVars, worker, execVars, generated, reported>>

-----------------------------------------------------------------------------
(* runGeneratorLoop of user u *)

GenerateTx(u) ==
  /\ gen[u] = "wait" /\ trigger > 0
  /\ trigger' = trigger - 1
  /\ \/ /\ gen' = [gen EXCEPT ![u] = "send"]
        /\ generated' = generated + 1
     \/ UNCHANGED <<gen, generated>>   \* it failed
  /\ UNCHANGED <<ctl, budget, pending, triggerClosed, appCtx, txs, poolVars,
                 worker, execVars, reported>>

SendTransaction(u) ==
  /\ gen[u] = "send" /\ txs < TxsCap
  /\ txs' = txs + 1
  /\ gen' = [gen EXCEPT ![u] = "wait"]
  /\ UNCHANGED <<appVars, appCtx, poolVars, worker, execVars, generated, reported>>

GeneratorEnds(u) ==
  /\ gen[u] = "wait" /\ trigger = 0 /\ triggerClosed
  /\ gen' = [gen EXCEPT ![u] = "done"]
  /\ UNCHANGED <<appVars, appCtx, txs, poolVars, worker, execVars, generated, reported>>

-----------------------------------------------------------------------------
(* runRpcSenderLoop of the workers of node n *)

Dial(n) ==
  /\ worker[n] = "dialing"
  /\ \E w \in {"idle", "done"} : worker' = [worker EXCEPT ![n] = w]
  /\ UNCHANGED <<appVars, appCtx, gen, txs, poolVars, execVars, generated, reported>>

Take(n) ==
  /\ worker[n] = "idle" /\ txs > 0
  /\ txs' = txs - 1
  /\ worker' = [worker EXCEPT ![n] = "sending"]
  /\ UNCHANGED <<appVars, appCtx, gen, poolVars, execVars, generated, reported>>

(* Fault: a worker that was asked to close does not report any more. *)
reportedIfOpen(n) == IF n \in closing THEN reported ELSE reported + 1
reportedBy(n) == reported + 1

(* The call ended, with an error or not: the observers are told. *)
Sent(n) ==
  /\ worker[n] = "sending"
  /\ worker' = [worker EXCEPT ![n] = "idle"]
  /\ reported' = reportedBy(n)
  /\ UNCHANGED <<appVars, appCtx, gen, txs, poolVars, execVars, generated>>

WorkerEnds(n) ==
  /\ worker[n] = "idle" /\ n \in closing
  /\ worker' = [worker EXCEPT ![n] = "done"]
  /\ UNCHANGED <<appVars, appCtx, gen, txs, poolVars, execVars, generated, reported>>

-----------------------------------------------------------------------------
(* The executor goroutine: nodes come and go *)

(* A created or a resumed node; a cancelled pool ignores it. *)
AfterNodeCreation(n) ==
  /\ exec = "idle" /\ n \notin attached /\ poolCtx = "alive"
  /\ attached' = attached \cup {n}
  /\ worker' = [worker EXCEPT ![n] = "dialing"]
  /\ closing' = closing \ {n}
  /\ UNCHANGED <<appVars, appCtx, gen, txs, txsClosed, poolCtx, execVars,
                 generated, reported>>

BeforeNodeRemoval(n) ==
  /\ exec = "idle" /\ n \in attached
  /\ closing' = closing \cup {n}
  /\ exec' = "removing" /\ target' = n
  /\ UNCHANGED <<appVars, appCtx, gen, txs, txsClosed, poolCtx, attached, worker,
                 generated, reported>>

NodeRemoved ==
  /\ exec = "removing" /\ worker[target] = "done"
  /\ attached' = attached \ {target}
  /\ exec' = "idle"
  /\ UNCHANGED <<appVars, appCtx, gen, txs, txsClosed, poolCtx, closing, worker,
                 target, generated, reported>>

-----------------------------------------------------------------------------
(* The executor goroutine: Stop of the application, Shutdown of the network *)

(* The scenario ends or times out, or the whole program is interrupted.    *)
CancelContext ==
  /\ appCtx' = "cancelled"
  /\ poolCtx' \in {poolCtx, "cancelled"}
  /\ UNCHANGED <<appVars, gen, txs, txsClosed, attached, closing, worker, execVars,
                 generated, reported>>

(* Fault: Stop does not wait for Run. *)
appAsked == appCtx = "cancelled"
appDone == ctl \in {"created", "returned"}

(* execStopApp knows started applications only; Shutdown stops what is there. *)
Stop(for) ==
  /\ exec = "idle" /\ (for = "stopApp" => ctl # "created")
  /\ appCtx' = "cancelled"
  /\ exec' = for
  /\ UNCHANGED <<appVars, gen, txs, poolVars, worker, target, generated, reported>>

AppStopped ==
  /\ exec \in {"stopApp", "shutdown"} /\ appDone
  /\ exec' = IF exec = "stopApp" THEN "idle" ELSE "closePool"
  /\ UNCHANGED <<appVars, appCtx, gen, txs, poolVars, worker, target, generated,
                 reported>>

(* Close of a pool whose context is cancelled already does nothing. *)
ClosePool ==
  /\ exec = "closePool"
  /\ IF poolCtx = "cancelled"
     THEN exec' = "down" /\ UNCHANGED <<poolCtx, closing>>
     ELSE exec' = "waitPool" /\ poolCtx' = "cancelled" /\ closing' = closing \cup attached
  /\ UNCHANGED <<appVars, appCtx, gen, txs, txsClosed, attached, worker, target,
                 generated, reported>>

PoolClosed ==
  /\ exec = "waitPool" /\ \A n \in attached : worker[n] = "done"
  /\ txsClosed' = TRUE
  /\ exec' = "down"
  /\ UNCHANGED <<appVars, appCtx, gen, txs, poolCtx, attached, closing, worker,
                 target, generated, reported>>

-----------------------------------------------------------------------------
Application ==
  Start \/ Replenish \/ PushTrigger \/ SelectTimer \/ SelectDone \/ RunReturns

Generator(u) == GenerateTx(u) \/ SendTransaction(u) \/ GeneratorEnds(u)

Worker(n) == Dial(n) \/ Take(n) \/ Sent(n) \/ WorkerEnds(n)

Waiting == NodeRemoved \/ AppStopped \/ ClosePool \/ PoolClosed

Next ==
  \/ Application \/ Waiting \/ CancelContext
  \/ Stop("stopApp") \/ Stop("shutdown")
  \/ \E u \in Users : Generator(u)
  \/ \E n \in Nodes : Worker(n) \/ AfterNodeCreation(n) \/ BeforeNodeRemoval(n)

(* Goroutines are scheduled and RPC calls return. select is random among   *)
(* the ready cases, so a context that stays done is noticed in the end.    *)
(* Nobody has to create or to remove a node, to start, to stop or to shut  *)
(* down.                                                                   *)
Fairness ==
  /\ WF_vars(Application /\ ctl # "created") /\ SF_vars(SelectDone)
  /\ WF_vars(Waiting)
  /\ \A u \in Users : WF_vars(Generator(u))
  /\ \A n \in Nodes : WF_vars(Worker(n)) /\ SF_vars(WorkerEnds(n))

Spec == Init /\ [][Next]_vars /\ Fairness

-----------------------------------------------------------------------------
TypeOK ==
  /\ ctl \in {"created", "loop", "push", "wait", "returned"}
  /\ triggerClosed => ctl \in {"wait", "returned"}
  /\ budget \in 0 .. MaxMessages /\ pending \in 0 .. MaxMessages
  /\ trigger \in 0 .. TriggerCap /\ txs \in 0 .. TxsCap
  /\ triggerClosed \in BOOLEAN /\ txsClosed \in BOOLEAN
  /\ appCtx \in {"alive", "cancelled"} /\ poolCtx \in {"alive", "cancelled"}
  /\ gen \in [Users -> {"none", "wait", "send", "done"}]
  /\ attached \subseteq Nodes /\ closing \subseteq Nodes
  /\ worker \in [Nodes -> {"none", "dialing", "idle", "sending", "done"}]
  /\ exec \in {"idle", "removing", "stopApp", "shutdown", "closePool", "waitPool", "down"}
  /\ target \in Nodes /\ generated \in Nat /\ reported \in Nat

(* No generator sends on the closed channel of the pool, which would panic:*)
(* Shutdown closes it only after the generators of the application ended.  *)
NoSendOnClosedChannel ==
  txsClosed => \A u \in Users : gen[u] \in {"none", "done"}

(* No generated transaction disappears: it is with its generator, in the   *)
(* channel, with a worker, or reported to the observers, whatever nodes    *)
(* are removed meanwhile.                                                  *)
EveryTxIsReported ==
  generated = reported + txs
              + Cardinality({u \in Users : gen[u] = "send"})
              + Cardinality({n \in Nodes : worker[n] = "sending"})

(* The workers of some node take transactions, and are not being closed. *)
Serving == \E n \in Nodes \ closing : worker[n] \in {"idle", "sending"}

(* Stopping the application ends while the workers of a node drain what    *)
(* its generators are still sending.                                       *)
StopCompletes ==
  (exec \in {"stopApp", "shutdown"} /\ Serving) ~> (exec \notin {"stopApp", "shutdown"})

(* Cleanups are completed (Shutdown), however the scenario left the nodes. *)
(* Refuted: see the README.                                                *)
ShutdownCompletes == exec = "shutdown" ~> exec = "down"
==============================================================================
