------------------------------ MODULE Scenario -------------------------------
(***************************************************************************)
(* The scenario executor and the local network it drives: the steps of a   *)
(* scenario one after the other (driver/executor/run.go), the goroutines   *)
(* that create and remove the instances of a step in parallel, the members *)
(* of the network and what its listeners are told                          *)
(* (driver/network/local/local.go), and the start and the end of the run   *)
(* around it (driver/norma/run.go).                                        *)
(*                                                                         *)
(* A step is executed by a plan, the calls it makes in the order of the    *)
(* code. A call that fails ends the scenario. Clients crash, calls fail,   *)
(* and the time of the scenario runs out, at any moment.                   *)
(***************************************************************************)
EXTENDS Integers, Sequences, FiniteSets, Functions

CONSTANTS
  Steps,      \* for each position of a scenario, the steps that may be there;
              \*   its length bounds the scenarios
  MaxNodes,   \* bound on the containers started
  MaxFaults   \* bound on crashes and on calls that fail

(* Steps that change stakes are in Staking. *)
StepFunctions == {"startNode", "stopNode", "killSonic", "healDb", "runApp", "stopApp",
                  "updateRules", "advanceEpoch", "waitForEpoch", "checks", "waitFor"}

ASSUME ScenarioAssumption ==
  /\ {MaxNodes, MaxFaults} \subseteq Nat
  /\ Len(Steps) \in Nat \ {0} /\ DOMAIN Steps = 1..Len(Steps)
  /\ \A i \in DOMAIN Steps : \A s \in Steps[i] :
       /\ s.fn \in StepFunctions /\ s.id \in STRING \X Nat
       /\ s.fn = "startNode" => s.instances \in Int /\ s.failing \in BOOLEAN

VARIABLES
  result,        \* "checking", "running", and how it ended: "rejected", "ok", "error"
  step, plan,    \* the step that is executed, and the calls it has still to make
  steps,         \* steps taken so far
  ctxDone,       \* the context of the scenario is done
  nodes, nodeHistory, validatorIds, apps,  \* runState; a node is its container
  members, suspended,   \* nodes and suspended of the network
  bootstrapped,
  appContext,    \* the node the application context is connected to, or 0
  netApps,       \* the applications of the network, and the ones that run:
  running,       \*   a pair of a name and a number
  listening,     \* nodes the listeners were told of and not told to drop
  containers,    \* the containers started so far
  task,          \* the goroutine of each instance of the step
  mustBeActive,  \* validators the step has to see in the validator set
  via,           \* the node that is asked for blocks, or 0
  registered, active,  \* the chain: the last validator ID, the validator set
  faults,        \* faults that happened so far
  workers,       \* nodes with RPC workers that take transactions
  shutdown       \* how far Shutdown is, and the members it could not stop

ctlVars == <<result, step, plan, steps, shutdown>>
runVars == <<nodes, nodeHistory, validatorIds, apps>>
memberVars == <<members, suspended, bootstrapped, listening, workers>>
appVars == <<appContext, netApps, running>>
taskVars == <<task, mustBeActive, via>>
chainVars == <<registered, active>>
vars == <<ctlVars, ctxDone, runVars, memberVars, appVars, containers, taskVars,
          chainVars, faults>>

MaxSteps == Len(Steps)

-----------------------------------------------------------------------------
(* Names. <<b, 0>> is the name b itself, <<b, k>> the instance b-(k-1). *)

NoName == <<"", 0>>

InstanceNames(s) ==
  IF s.instances = 1 THEN {s.id} ELSE {<<s.id[1], k>> : k \in 1..s.instances}

(* The name itself or one of its numbered instances *)
Targets(id) == {n \in DOMAIN nodes : n = id \/ (id[2] = 0 /\ n[1] = id[1])}

-----------------------------------------------------------------------------
(* The static check *)

NamedFunctions == {"startNode", "stopNode", "runApp", "stopApp", "killSonic", "healDb"}

(* A node without a type is an observer. *)
checkStartNode(s) == s.type \in {"validator", "observer", "rpc", ""} /\ s.instances >= 1

checkRunApp(s) == s.app /\ s.rate /\ s.users >= 1

StepCheck(s) ==
  /\ s.fn \in NamedFunctions => s.id # NoName
  /\ s.fn = "startNode" => checkStartNode(s)
  /\ s.fn = "runApp" => checkRunApp(s)

(* Genesis is configured from the first step. *)
IsBootstrap(s) == s.fn = "startNode" /\ s.type = "validator"

genesisIds(s) ==
  [n \in InstanceNames(s) |-> IF s.instances = 1 THEN 1 ELSE n[2]]

-----------------------------------------------------------------------------
(* Connections *)

ClientUp(c) == containers[c].up /\ containers[c].client = "up"

GetActiveNodes == {c \in members : containers[c].up}

(* Nodes that are expected to fail are used when there are no others. *)
reliable ==
  LET sound == {c \in GetActiveNodes : ~containers[c].failing}
  IN  IF sound = {} THEN GetActiveNodes ELSE sound

(* The nodes DialRandomRpc may end up with; it fails when there is none. *)
DialRandomRpc == {c \in reliable : ClientUp(c)}

(* External: more than two thirds of the validators have to be online. *)
Producing ==
  3 * Cardinality({v \in active : \E c \in DOMAIN containers :
                     ClientUp(c) /\ containers[c].vid = v /\ containers[c].validates})
    > 2 * Cardinality(active)

-----------------------------------------------------------------------------
(* Steps and their plans *)

requiresBlockProductionCheck(s) ==
  \/ s.fn = "startNode" /\ ~s.failing
  \/ s.fn \in {"runApp", "updateRules", "advanceEpoch"}

executeStep(s) ==
  CASE s.fn = "startNode" /\ s.id \in DOMAIN nodes ->
         <<"height", "restart", "reconnect", "resume", "nodeSync">>
    [] s.fn = "startNode" /\ s.id \notin DOMAIN nodes ->
         <<"register", "create", "created">>
           \o (IF s.failing THEN <<>> ELSE <<"activate">>)
    [] s.fn = "stopNode" -> <<"targets", "remove", "removed">>
    [] s.fn = "killSonic" -> <<"suspend", "kill">>
    [] s.fn = "healDb" -> <<"heal">>
    [] s.fn = "runApp" -> <<"createApp", "startApp">>
    [] s.fn = "stopApp" -> <<"stopApp">>
    [] s.fn = "updateRules" -> <<"rules">>
    [] s.fn = "advanceEpoch" -> <<"produce", "seal", "produce">>
    [] s.fn = "waitForEpoch" -> <<"epoch">>
    [] s.fn \in {"checks", "waitFor"} -> <<"wait">>

stepPlan(s) ==
  executeStep(s) \o (IF requiresBlockProductionCheck(s) THEN <<"produce">> ELSE <<>>)

Calls(op) == result = "running" /\ plan # <<>> /\ Head(plan) = op

Done == plan' = Tail(plan) /\ UNCHANGED <<result, step, steps, shutdown>>

Fail ==
  result' = "error" /\ plan' = <<>> /\ UNCHANGED <<step, steps, shutdown>>

Fault == faults < MaxFaults /\ faults' = faults + 1

(* A call fails: for a reason the model shows, or for none. *)
Fails(reason) == Fail /\ IF reason THEN UNCHANGED faults ELSE Fault

OnlyControl ==
  UNCHANGED <<runVars, memberVars, appVars, containers, taskVars, chainVars>>

-----------------------------------------------------------------------------
Init ==
  /\ result = "checking" /\ plan = <<>> /\ steps = 0
  /\ shutdown = [phase |-> "no", left |-> {}]
  /\ step = [fn |-> "none"]
  /\ ctxDone = FALSE
  /\ nodes = <<>> /\ nodeHistory = {} /\ validatorIds = <<>> /\ apps = <<>>
  /\ members = {} /\ suspended = {} /\ bootstrapped = FALSE
  /\ listening = {} /\ workers = {}
  /\ appContext = 0 /\ netApps = {} /\ running = {}
  /\ containers = <<>>
  /\ task = <<>> /\ mustBeActive = {} /\ via = 0
  /\ registered = 0 /\ active = {}
  /\ faults = 0

(* A step of the scenario does not pass the check, or its first step does  *)
(* not start validators.                                                   *)
RejectScenario(s) ==
  /\ result = "checking"
  /\ ~(StepCheck(s) /\ IsBootstrap(s))
  /\ result' = "rejected"
  /\ UNCHANGED <<step, plan, steps, shutdown, ctxDone, faults>>
  /\ OnlyControl

(* extractBootstrapValidators, NewLocalNetwork, and the first step *)
StartScenario(s) ==
  /\ result = "checking"
  /\ StepCheck(s) /\ IsBootstrap(s)
  /\ result' = "running" /\ step' = s /\ plan' = stepPlan(s) /\ steps' = 1
  /\ validatorIds' = genesisIds(s)
  /\ registered' = s.instances
  /\ active' = 1..s.instances
  /\ UNCHANGED <<shutdown, ctxDone, nodes, nodeHistory, apps, memberVars, appVars,
                 containers, taskVars, faults>>

AtBoundary == result = "running" /\ plan = <<>>

NextStep(s) ==
  /\ AtBoundary /\ ~ctxDone
  /\ steps < MaxSteps
  /\ s.fn = "startNode" /\ s.id \notin DOMAIN nodes => Len(containers) + s.instances <= MaxNodes
  /\ StepCheck(s)
  /\ step' = s /\ plan' = stepPlan(s) /\ steps' = steps + 1
  /\ UNCHANGED <<result, shutdown, ctxDone, faults>>
  /\ OnlyControl

AbortScenario ==
  /\ AtBoundary /\ ctxDone /\ steps < MaxSteps
  /\ Fail
  /\ UNCHANGED <<ctxDone, faults>>
  /\ OnlyControl

CompleteScenario ==
  /\ AtBoundary
  /\ result' = "ok"
  /\ UNCHANGED <<step, plan, steps, shutdown, ctxDone, faults>>
  /\ OnlyControl

(* defaultScenarioTimeout, or the cancellation of the whole run *)
ContextEnds ==
  /\ result = "running" /\ ~ctxDone
  /\ ctxDone' = TRUE
  /\ UNCHANGED <<ctlVars, faults>>
  /\ OnlyControl

(* External: a client process ends by itself. *)
ClientCrashes(c) ==
  /\ result = "running" /\ ClientUp(c)
  /\ Fault
  /\ containers' = [containers EXCEPT ![c].client = "killed"]
  /\ UNCHANGED <<ctlVars, ctxDone, runVars, memberVars, appVars, taskVars, chainVars>>

-----------------------------------------------------------------------------
(* startNode: new nodes, and nodes that rejoin *)

isRejoin == step.id \in nodeHistory

Unregistered(s) ==
  IF s.type = "validator" THEN InstanceNames(s) \ DOMAIN validatorIds ELSE {}

(* The IDs of the instances without one follow the last one, in order. *)
newIds(names) ==
  [n \in names |-> registered + Cardinality({o \in names : o[2] <= n[2]})]

(* execStartNode up to the fan-out: a name that was started before keeps   *)
(* its validator, others are registered one by one.                        *)
register ==
  /\ Calls("register")
  /\ LET new == Unregistered(step)
         ids == newIds(new)
         idOf == [n \in InstanceNames(step) |->
                    CASE step.type # "validator" -> 0
                      [] n \in new -> ids[n]
                      [] OTHER -> validatorIds[n]]
     IN  /\ ~(isRejoin /\ new # {})
         /\ new # {} => DialRandomRpc # {} /\ Producing
         /\ registered' = registered + Cardinality(new)
         /\ task' = [n \in InstanceNames(step) |-> [at |-> "start", node |-> 0, id |-> idOf[n]]]
         /\ mustBeActive' = IF isRejoin THEN Range(idOf) \ {0} ELSE Range(ids)
  /\ Done
  /\ UNCHANGED <<ctxDone, runVars, memberVars, appVars, containers, via, active, faults>>

registerFails ==
  /\ Calls("register")
  /\ Unregistered(step) # {}
  /\ Fails(isRejoin \/ DialRandomRpc = {} \/ ~Producing)
  /\ UNCHANGED ctxDone /\ OnlyControl

Moves(n, to) == task' = [task EXCEPT ![n].at = to] /\ UNCHANGED <<mustBeActive, via>>

AtTask(op, n, at) == Calls(op) /\ n \in DOMAIN task /\ task[n].at = at

(* Fault: a name that rejoins is taken for one whose container is gone. *)
StrangerExists(n) ==
  n \notin nodeHistory /\ \E c \in DOMAIN containers : containers[c].up /\ containers[c].name = n

ContainerExists(n) ==
  \E c \in DOMAIN containers : containers[c].up /\ containers[c].name = n

(* createNode reads bootstrapped and starts the container and the client. *)
StartOperaDockerNode(n) ==
  /\ AtTask("create", n, "start")
  /\ ~ContainerExists(n)
  /\ containers' = Append(containers,
       [name |-> n, vid |-> task[n].id, validates |-> task[n].id # 0,
        failing |-> step.failing, up |-> TRUE, client |-> "up", boot |-> ~bootstrapped])
  /\ task' = [task EXCEPT ![n].at = "add", ![n].node = Len(containers) + 1]
  /\ UNCHANGED <<ctlVars, ctxDone, runVars, memberVars, appVars, mustBeActive, via,
                 chainVars, faults>>

(* The name is taken, or the node does not come up; its container is       *)
(* removed again.                                                          *)
StartFails(n) ==
  /\ AtTask("create", n, "start")
  /\ IF ContainerExists(n) THEN UNCHANGED faults ELSE Fault
  /\ Moves(n, "failed")
  /\ UNCHANGED <<ctlVars, ctxDone, runVars, memberVars, appVars, containers, chainVars>>

(* The peers a node is announced to; one of them has to take it. *)
Peers(c) == members \ (suspended \union {c})

canJoin(c) ==
  /\ ClientUp(c)
  /\ Peers(c) # {} => \E p \in Peers(c) : ClientUp(p)

addNodeIntoNetwork(n) ==
  LET c == task[n].node IN
  /\ AtTask("create", n, "add")
  /\ canJoin(c)
  /\ members' = members \union {c} /\ bootstrapped' = TRUE
  /\ Moves(n, "notify")
  /\ UNCHANGED <<ctlVars, ctxDone, runVars, suspended, listening, workers, appVars, containers,
                 chainVars, faults>>

(* The container goes on running, and the network does not know it. *)
AddFails(n) ==
  /\ AtTask("create", n, "add")
  /\ ~canJoin(task[n].node)
  /\ Moves(n, "failed")
  /\ UNCHANGED <<ctlVars, ctxDone, runVars, memberVars, appVars, containers, chainVars,
                 faults>>

(* The workers of a node connect to its client, as long as the pool is not *)
(* cancelled with the run as a whole. They stay when the client ends.      *)
StartWorkers(c) ==
  \/ ClientUp(c) /\ workers' = workers \union {c}
  \/ (~ClientUp(c) \/ ctxDone) /\ UNCHANGED workers

AfterNodeCreation(n) ==
  /\ AtTask("create", n, "notify")
  /\ listening' = listening \union {task[n].node}
  /\ StartWorkers(task[n].node)
  /\ Moves(n, "done")
  /\ UNCHANGED <<ctlVars, ctxDone, runVars, members, suspended, bootstrapped, appVars,
                 containers, chainVars, faults>>

(* errgroup.Wait: all goroutines have returned. *)
TasksReturned == \A n \in DOMAIN task : task[n].at \in {"done", "failed"}

TaskFailed == \E n \in DOMAIN task : task[n].at = "failed"

WaitForTasks ==
  /\ Calls("create") \/ Calls("remove")
  /\ TasksReturned
  /\ IF TaskFailed THEN Fail ELSE Done
  /\ UNCHANGED <<ctxDone, faults>>
  /\ OnlyControl

(* The new nodes enter the state. That they do not catch up is a warning. *)
created ==
  /\ Calls("created")
  /\ nodes' = [n \in DOMAIN nodes \union DOMAIN task |->
                 IF n \in DOMAIN task THEN task[n].node ELSE nodes[n]]
  /\ nodeHistory' = nodeHistory \union DOMAIN task \union {step.id}
  /\ validatorIds' = [n \in DOMAIN validatorIds \union {t \in DOMAIN task : task[t].id # 0} |->
                        IF n \in DOMAIN task /\ task[n].id # 0 THEN task[n].id
                        ELSE validatorIds[n]]
  /\ task' = <<>>
  /\ Done
  /\ UNCHANGED <<ctxDone, apps, memberVars, appVars, containers, mustBeActive, via,
                 chainVars, faults>>

(* ensureValidatorsActive: nothing to do, or an epoch has to be sealed. *)
activate ==
  /\ Calls("activate")
  /\ mustBeActive # {} => DialRandomRpc # {}
  /\ plan' = (IF mustBeActive \subseteq active THEN <<>> ELSE <<"produce", "seal">>) \o Tail(plan)
  /\ mustBeActive' = {}
  /\ UNCHANGED <<result, step, steps, shutdown, ctxDone, runVars, memberVars, appVars,
                 containers, task, via, chainVars, faults>>

activateFails ==
  /\ Calls("activate")
  /\ mustBeActive # {}
  /\ Fails(DialRandomRpc = {})
  /\ UNCHANGED ctxDone /\ OnlyControl

-----------------------------------------------------------------------------
(* startNode: a node whose container is still there *)

(* The height the node has to catch up with. There is none to be had when  *)
(* the network has members and none of them answers.                       *)
getNetworkBlockHeight ==
  /\ Calls("height")
  /\ GetActiveNodes = {} \/ DialRandomRpc # {}
  /\ Done
  /\ UNCHANGED <<ctxDone, faults>>
  /\ OnlyControl

heightFails ==
  /\ Calls("height")
  /\ Fails(DialRandomRpc = {})
  /\ UNCHANGED ctxDone /\ OnlyControl

(* StartSonicd or StartSonicdAsObserver, and WaitForSync *)
restart ==
  LET c == nodes[step.id] IN
  /\ Calls("restart")
  /\ containers[c].client = "ready"
  /\ containers' = [containers EXCEPT ![c].client = "up",
                                      ![c].validates = step.type = "validator"
                                                        /\ containers[c].vid # 0]
  /\ Done
  /\ UNCHANGED <<ctxDone, runVars, memberVars, appVars, taskVars, chainVars, faults>>

restartFails ==
  /\ Calls("restart")
  /\ Fails(containers[nodes[step.id]].client # "ready")
  /\ UNCHANGED ctxDone /\ OnlyControl

(* The node is dropped first; it is lost when it cannot join again. *)
ReconnectNode ==
  LET c == nodes[step.id] IN
  /\ Calls("reconnect")
  /\ IF canJoin(c)
     THEN members' = members \union {c} /\ bootstrapped' = TRUE /\ Done
     ELSE members' = members \ {c} /\ UNCHANGED bootstrapped /\ Fail
  /\ UNCHANGED <<ctxDone, runVars, suspended, listening, workers, appVars, containers,
                 taskVars, chainVars, faults>>

(* Fault: the listeners are not told that the node is back. *)
ResumeNodeQuietly ==
  /\ Calls("resume")
  /\ suspended' = suspended \ {nodes[step.id]}
  /\ Done
  /\ UNCHANGED <<ctxDone, runVars, members, bootstrapped, listening, workers, appVars,
                 containers, taskVars, chainVars, faults>>

ResumeNode ==
  LET c == nodes[step.id] IN
  /\ Calls("resume")
  /\ suspended' = suspended \ {c}
  /\ listening' = listening \union {c}
  /\ StartWorkers(c)
  /\ Done
  /\ UNCHANGED <<ctxDone, runVars, members, bootstrapped, appVars, containers, taskVars,
                 chainVars, faults>>

waitForNodeSync ==
  /\ Calls("nodeSync")
  /\ ClientUp(nodes[step.id])
  /\ Done
  /\ UNCHANGED <<ctxDone, faults>>
  /\ OnlyControl

nodeSyncFails ==
  /\ Calls("nodeSync")
  /\ Fails(ctxDone \/ ~ClientUp(nodes[step.id]))
  /\ UNCHANGED ctxDone /\ OnlyControl

-----------------------------------------------------------------------------
(* stopNode *)

stopTargets ==
  /\ Calls("targets")
  /\ Targets(step.id) # {}
  /\ task' = [n \in Targets(step.id) |-> [at |-> "notify", node |-> nodes[n], id |-> 0]]
  /\ Done
  /\ UNCHANGED <<ctxDone, runVars, memberVars, appVars, containers, mustBeActive, via,
                 chainVars, faults>>

noTargets ==
  /\ Calls("targets")
  /\ Targets(step.id) = {}
  /\ Fail
  /\ UNCHANGED <<ctxDone, faults>>
  /\ OnlyControl

BeforeNodeRemoval(n) ==
  /\ AtTask("remove", n, "notify")
  /\ listening' = listening \ {task[n].node}
  /\ workers' = workers \ {task[n].node}
  /\ Moves(n, "remove")
  /\ UNCHANGED <<ctlVars, ctxDone, runVars, members, suspended, bootstrapped, appVars,
                 containers, chainVars, faults>>

(* The node's ID is asked of its client. With the peers left, the first    *)
(* one that does not answer ends the call, and the node is gone from the   *)
(* members and not stopped.                                                *)
RemoveNode(n) ==
  LET c == task[n].node
      unreachable == \E p \in Peers(c) : ~ClientUp(p)
  IN
  /\ AtTask("remove", n, "remove")
  /\ IF ClientUp(c)
     THEN members' = members \ {c} /\ suspended' = suspended \ {c}
     ELSE UNCHANGED <<members, suspended>>
  /\ Moves(n, IF ClientUp(c) /\ ~unreachable THEN "stop" ELSE "failed")
  /\ UNCHANGED <<ctlVars, ctxDone, runVars, bootstrapped, listening, workers, appVars,
                 containers, chainVars, faults>>

(* Stop and Cleanup of the node *)
StopNode(n) ==
  /\ AtTask("remove", n, "stop")
  /\ containers' = [containers EXCEPT ![task[n].node].up = FALSE]
  /\ Moves(n, "done")
  /\ UNCHANGED <<ctlVars, ctxDone, runVars, memberVars, appVars, chainVars, faults>>

(* The context of the group is done once one of its goroutines failed. *)
StopFails(n) ==
  /\ AtTask("remove", n, "stop")
  /\ IF ctxDone \/ TaskFailed THEN UNCHANGED faults ELSE Fault
  /\ Moves(n, "failed")
  /\ UNCHANGED <<ctlVars, ctxDone, runVars, memberVars, appVars, containers, chainVars>>

(* Fault: a node that is stopped gives up its validator. *)
removedForgetsId ==
  /\ Calls("removed")
  /\ nodes' = Restrict(nodes, DOMAIN nodes \ DOMAIN task)
  /\ validatorIds' = Restrict(validatorIds, DOMAIN validatorIds \ DOMAIN task)
  /\ task' = <<>>
  /\ Done
  /\ UNCHANGED <<ctxDone, nodeHistory, apps, memberVars, appVars, containers,
                 mustBeActive, via, chainVars, faults>>

removed ==
  /\ Calls("removed")
  /\ nodes' = Restrict(nodes, DOMAIN nodes \ DOMAIN task)
  /\ task' = <<>>
  /\ Done
  /\ UNCHANGED <<ctxDone, nodeHistory, validatorIds, apps, memberVars, appVars, containers,
                 mustBeActive, via, chainVars, faults>>

-----------------------------------------------------------------------------
(* killSonic, healDb *)

SuspendNode ==
  /\ Calls("suspend")
  /\ step.id \in DOMAIN nodes
  /\ suspended' = suspended \union {nodes[step.id]}
  /\ listening' = listening \ {nodes[step.id]}
  /\ workers' = workers \ {nodes[step.id]}
  /\ Done
  /\ UNCHANGED <<ctxDone, runVars, members, bootstrapped, appVars, containers, taskVars,
                 chainVars, faults>>

(* A client that crashed is no longer running, and cannot be killed. *)
ForceStopSonicd ==
  LET c == nodes[step.id] IN
  /\ Calls("kill")
  /\ ClientUp(c)
  /\ containers' = [containers EXCEPT ![c].client = "killed"]
  /\ Done
  /\ UNCHANGED <<ctxDone, runVars, memberVars, appVars, taskVars, chainVars, faults>>

HealSonicd ==
  /\ Calls("heal")
  /\ step.id \in DOMAIN nodes
  /\ containers[nodes[step.id]].client = "killed"
  /\ containers' = [containers EXCEPT ![nodes[step.id]].client = "ready"]
  /\ Done
  /\ UNCHANGED <<ctxDone, runVars, memberVars, appVars, taskVars, chainVars, faults>>

(* No such node, a node in another state, or the command fails. *)
nodeCallFails ==
  /\ Calls("suspend") \/ Calls("kill") \/ Calls("heal")
  /\ step.id \in DOMAIN nodes => ~Calls("suspend")
  /\ Fails(\/ step.id \notin DOMAIN nodes
           \/ Calls("kill") /\ ~ClientUp(nodes[step.id])
           \/ Calls("heal") /\ containers[nodes[step.id]].client # "killed")
  /\ UNCHANGED ctxDone /\ OnlyControl

-----------------------------------------------------------------------------
(* runApp, stopApp *)

(* The context is connected once, to a node that answers then, and kept. *)
ensureAppContext ==
  IF appContext = 0 THEN appContext' \in DialRandomRpc ELSE UNCHANGED appContext

appNode == IF appContext # 0 THEN {appContext} ELSE DialRandomRpc

CreateApplication ==
  /\ Calls("createApp")
  /\ ~ctxDone
  /\ DialRandomRpc # {} /\ Producing
  /\ ensureAppContext /\ ClientUp(appContext')
  /\ netApps' = netApps \union {<<step.id, Cardinality(netApps)>>}
  /\ Done
  /\ UNCHANGED <<ctxDone, runVars, memberVars, running, containers, taskVars, chainVars,
                 faults>>

(* The context, once made, stays also when a later call fails. *)
createAppFails ==
  /\ Calls("createApp")
  /\ \/ appNode # {} /\ ensureAppContext
     \/ UNCHANGED appContext
  /\ Fails(\/ ctxDone
           \/ DialRandomRpc = {} \/ ~Producing
           \/ ~\E c \in appNode : ClientUp(c))
  /\ UNCHANGED <<ctxDone, runVars, memberVars, netApps, running, containers, taskVars,
                 chainVars>>

StartApplication ==
  LET app == <<step.id, Cardinality(netApps) - 1>> IN
  /\ Calls("startApp")
  /\ running' = running \union {app}
  /\ apps' = [n \in DOMAIN apps \union {step.id} |-> IF n = step.id THEN app ELSE apps[n]]
  /\ Done
  /\ UNCHANGED <<ctxDone, nodes, nodeHistory, validatorIds, memberVars, appContext, netApps,
                 containers, taskVars, chainVars, faults>>

(* The load of an application ends with the context of the scenario. *)
ApplicationEnds ==
  /\ ctxDone \/ result # "running"
  /\ running # {}
  /\ running' = {}
  /\ UNCHANGED <<ctlVars, ctxDone, runVars, memberVars, appContext, netApps, containers,
                 taskVars, chainVars, faults>>

(* Stop cancels the application and waits until its generators ended. They *)
(* end for sure while some worker takes what they send; without one, only  *)
(* if there is room in the channel (LoadPipeline).                         *)
execStopApp ==
  /\ Calls("stopApp")
  /\ step.id \in DOMAIN apps
  /\ running' = running \ {apps[step.id]}
  /\ apps' = Restrict(apps, DOMAIN apps \ {step.id})
  /\ Done
  /\ UNCHANGED <<ctxDone, nodes, nodeHistory, validatorIds, memberVars, appContext, netApps,
                 containers, taskVars, chainVars, faults>>

noApp ==
  /\ Calls("stopApp")
  /\ step.id \notin DOMAIN apps
  /\ Fail
  /\ UNCHANGED <<ctxDone, faults>>
  /\ OnlyControl

-----------------------------------------------------------------------------
(* Steps on the network as a whole *)

(* ApplyNetworkRules: a transaction whose receipt is waited for *)
ApplyNetworkRules ==
  /\ Calls("rules")
  /\ DialRandomRpc # {} /\ Producing
  /\ Done
  /\ UNCHANGED <<ctxDone, faults>>
  /\ OnlyControl

(* AdvanceEpoch: the validators registered join the validator set. *)
AdvanceEpoch ==
  /\ Calls("seal") \/ Calls("epoch")
  /\ DialRandomRpc # {} /\ Producing
  /\ active' = 1..registered
  /\ Done
  /\ UNCHANGED <<ctxDone, runVars, memberVars, appVars, containers, taskVars, registered,
                 faults>>

(* Receipts and epochs are waited for as long as a time limit allows. *)
networkCallFails ==
  /\ Calls("rules") \/ Calls("seal") \/ Calls("epoch")
  /\ Fails(ctxDone \/ DialRandomRpc = {} \/ ~Producing)
  /\ UNCHANGED ctxDone /\ OnlyControl

(* waitFor, and checks that pass *)
waitFor ==
  /\ Calls("wait")
  /\ Done
  /\ UNCHANGED <<ctxDone, faults>>
  /\ OnlyControl

(* The context ends during a wait, or a check does not hold. *)
waitForFails ==
  /\ Calls("wait")
  /\ Fails(step.fn = "waitFor" /\ ctxDone)
  /\ UNCHANGED ctxDone /\ OnlyControl

(* waitForBlockProduction connects to a node; without one it is skipped. *)
connectForBlocks ==
  /\ Calls("produce") /\ via = 0
  /\ IF DialRandomRpc = {}
     THEN Done /\ UNCHANGED via
     ELSE via' \in DialRandomRpc /\ UNCHANGED ctlVars
  /\ UNCHANGED <<ctxDone, runVars, memberVars, appVars, containers, task, mustBeActive,
                 chainVars, faults>>

waitForBlockProduction ==
  /\ Calls("produce") /\ via # 0
  /\ ClientUp(via) /\ Producing
  /\ via' = 0
  /\ Done
  /\ UNCHANGED <<ctxDone, runVars, memberVars, appVars, containers, task, mustBeActive,
                 chainVars, faults>>

(* Fault: the context is not looked at. *)
mayNotGiveUp == ~ClientUp(via)

(* The wait has no limit of its own. *)
mayGiveUp == ctxDone \/ ~ClientUp(via)

waitForBlocksFails ==
  /\ Calls("produce") /\ via # 0
  /\ mayGiveUp
  /\ via' = 0
  /\ Fail
  /\ UNCHANGED <<ctxDone, runVars, memberVars, appVars, containers, task, mustBeActive,
                 chainVars, faults>>

-----------------------------------------------------------------------------
(* Fault: nodes that are suspended are taken for stopped. *)
activeAtEnd == members \ suspended

(* Shutdown stops all members, the suspended ones too. *)
stoppedAtEnd == members

(* Shutdown of the network, however the scenario ended: each application   *)
(* is stopped and waited for. *)
ShutdownApp(app) ==
  /\ result \in {"ok", "error"} /\ shutdown.phase = "no"
  /\ app \in running
  /\ running' = running \ {app}
  /\ UNCHANGED <<ctlVars, ctxDone, runVars, memberVars, appContext, netApps, containers,
                 taskVars, chainVars, faults>>

ShutdownApps ==
  /\ result \in {"ok", "error"} /\ shutdown.phase = "no"
  /\ running = {}
  /\ netApps' = {}
  /\ shutdown' = [shutdown EXCEPT !.phase = "nodes"]
  /\ UNCHANGED <<result, step, plan, steps, ctxDone, runVars, memberVars, appContext,
                 running, containers, taskVars, chainVars, faults>>

(* Stop and Cleanup of a member *)
ShutdownNode(c) ==
  /\ shutdown.phase = "nodes" /\ c \in stoppedAtEnd
  /\ members' = members \ {c}
  /\ containers' = [containers EXCEPT ![c].up = FALSE]
  /\ UNCHANGED <<ctlVars, ctxDone, runVars, suspended, bootstrapped, listening, workers,
                 appVars, taskVars, chainVars, faults>>

(* One of them fails: the error is kept, the container may go on running,  *)
(* and it is the turn of the next member.                                  *)
ShutdownNodeFails(c) ==
  /\ shutdown.phase = "nodes" /\ c \in stoppedAtEnd
  /\ Fault
  /\ members' = members \ {c}
  /\ shutdown' = [shutdown EXCEPT !.left = @ \union {c}]
  /\ UNCHANGED <<result, step, plan, steps, ctxDone, runVars, suspended, bootstrapped,
                 listening, workers, appVars, containers, taskVars, chainVars>>

(* Close of the pool does nothing when it was cancelled with the run.      *)
(* Containers of other nodes go on.                                        *)
ShutdownEnds ==
  /\ shutdown.phase = "nodes" /\ stoppedAtEnd = {}
  /\ members' = {}
  /\ workers' \in IF ctxDone THEN {{}, workers} ELSE {{}}
  /\ shutdown' = [shutdown EXCEPT !.phase = "done"]
  /\ UNCHANGED <<result, step, plan, steps, ctxDone, runVars, suspended, bootstrapped,
                 listening, appVars, containers, taskVars, chainVars, faults>>

Shutdown ==
  \/ \E app \in running : ShutdownApp(app)
  \/ ShutdownApps
  \/ \E c \in members : ShutdownNode(c) \/ ShutdownNodeFails(c)
  \/ ShutdownEnds

Ended == shutdown.phase = "done" \/ result = "rejected"

(* An application is waited for, and no worker takes what it sends. *)
Hung ==
  /\ workers = {}
  /\ \/ Calls("stopApp") /\ step.id \in DOMAIN apps /\ apps[step.id] \in running
     \/ result \in {"ok", "error"} /\ running # {}

Terminated == Ended /\ UNCHANGED vars

CreateTask(n) ==
  \/ StartOperaDockerNode(n) \/ StartFails(n)
  \/ addNodeIntoNetwork(n) \/ AddFails(n)
  \/ AfterNodeCreation(n)

RemoveTask(n) == BeforeNodeRemoval(n) \/ RemoveNode(n) \/ StopNode(n) \/ StopFails(n)

Executor ==
  \/ \E s \in Steps[1] : RejectScenario(s) \/ StartScenario(s)
  \/ steps < MaxSteps /\ \E s \in Steps[steps + 1] : NextStep(s)
  \/ AbortScenario \/ CompleteScenario
  \/ register \/ registerFails
  \/ \E n \in DOMAIN task : CreateTask(n) \/ RemoveTask(n)
  \/ WaitForTasks \/ created \/ activate \/ activateFails
  \/ getNetworkBlockHeight \/ heightFails \/ restart \/ restartFails
  \/ ReconnectNode \/ ResumeNode \/ waitForNodeSync \/ nodeSyncFails
  \/ stopTargets \/ noTargets \/ removed
  \/ SuspendNode \/ ForceStopSonicd \/ HealSonicd \/ nodeCallFails
  \/ CreateApplication \/ createAppFails \/ StartApplication \/ execStopApp \/ noApp
  \/ ApplyNetworkRules \/ AdvanceEpoch \/ networkCallFails
  \/ waitFor \/ waitForFails
  \/ connectForBlocks \/ waitForBlockProduction \/ waitForBlocksFails
  \/ Shutdown

Next ==
  \/ Executor
  \/ ContextEnds
  \/ \E c \in DOMAIN containers : ClientCrashes(c)
  \/ ApplicationEnds
  \/ Terminated

(* The executor goes on as long as it can, and time passes. *)
Fairness == WF_vars(~Hung /\ Executor) /\ WF_vars(ContextEnds)

Spec == Init /\ [][Next]_vars /\ Fairness

-----------------------------------------------------------------------------
Clients == {"up", "killed", "ready"}

(* The types of the variables *)
TypeOK ==
  /\ result \in {"checking", "running", "rejected", "ok", "error"}
  /\ steps \in 0..MaxSteps /\ faults \in 0..MaxFaults
  /\ \A c \in DOMAIN containers : containers[c].client \in Clients
  /\ Range(nodes) \union members \union suspended \union listening \subseteq DOMAIN containers
  /\ appContext \in {0} \union DOMAIN containers
  /\ active \subseteq 1..registered
  /\ running \subseteq netApps
  /\ workers \subseteq DOMAIN containers

(* Between two steps the executor, the network and the listeners agree on  *)
(* the nodes: the tracked nodes are the members of the network, each under *)
(* one name, a suspended node is one of them, and the listeners know the   *)
(* others (state.nodes, LocalNetwork.nodes and suspended, AfterNodeCreation*)
(* and BeforeNodeRemoval).                                                 *)
NodesAgree ==
  AtBoundary =>
    /\ Range(nodes) = members
    /\ IsInjective(nodes)
    /\ \A n \in DOMAIN nodes : containers[nodes[n]].up
    /\ suspended \subseteq members
    /\ listening = members \ suspended

(* No validator is run by two nodes at a time, whatever is stopped,        *)
(* rejoins or is left behind by a failed step (execStartNode,              *)
(* StartOperaDockerNode).                                                  *)
OneNodePerValidator ==
  \A c, d \in DOMAIN containers :
    c # d /\ ClientUp(c) /\ ClientUp(d) /\ containers[c].vid # 0
      => containers[c].vid # containers[d].vid

(* After the shutdown nothing runs but containers whose Stop or Cleanup    *)
(* failed during it, and, if the scenario failed, ones of nodes that       *)
(* failed to join or to leave (LocalNetwork.Shutdown, createNode,          *)
(* RemoveNode, ReconnectNode).                                             *)
NothingIsLeft ==
  shutdown.phase = "done" =>
    /\ running = {}
    /\ \A c \in DOMAIN containers \ shutdown.left : containers[c].up =>
         /\ result = "error"
         /\ \/ \E n \in DOMAIN task : task[n].at = "failed" /\ task[n].node = c
            \/ step.fn = "startNode" /\ step.id \in DOMAIN nodes /\ nodes[step.id] = c

(* A name keeps its validator for the rest of the scenario, also while its *)
(* node is stopped (runState.validatorIds).                                *)
ValidatorIsKept ==
  [][\A n \in DOMAIN validatorIds :
       n \in DOMAIN validatorIds' /\ validatorIds'[n] = validatorIds[n]]_vars

(* Every scenario ends and its network is shut down, also when blocks are  *)
(* no longer produced and when clients and docker fail, unless it waits    *)
(* for an application and no node is left to take its transactions         *)
(* (runWithObserver, waitForBlockProduction, localApplication.Stop).       *)
ScenarioEnds == <>[](Ended \/ Hung)

(* A node whose client was killed and whose database was healed can be     *)
(* restarted in its container (restartNodeInPlace): with no fault and in   *)
(* time, finding out how far the network is does not stop it.              *)
(* Refuted: see the README.                                                *)
HealedNodeRestarts ==
  [][Calls("height") /\ result' = "error" /\ faults' = 0 /\ ~ctxDone
       => containers[nodes[step.id]].client # "ready"]_vars
=============================================================================
