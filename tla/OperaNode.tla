------------------------------ MODULE OperaNode ------------------------------
(***************************************************************************)
(* The lifecycle of one client node (driver/node): the recorded NodeState, *)
(* the client processes inside the node's container, the watcher started   *)
(* with each of them, and the goroutines that call the node's actions.     *)
(*                                                                         *)
(* Every critical section under stateMutex and every docker call is a step *)
(* of its own, because crashes, watchers and other callers run in between. *)
(* A refused action (its claiming transition fails) changes nothing and    *)
(* has no step, except where its caller goes on: Stop, WaitForSync.        *)
(***************************************************************************)
EXTENDS Naturals

CONSTANTS
  Callers,     \* goroutines that call the node's actions
  MaxStarts,   \* bound on client starts, hence on clientGen
  Bootstrap,   \* NetworkBootstrap of a lone genesis validator
  DataDirs,    \* what the data directory may hold when the container starts
  Faults       \* what docker and the client may do wrong, see FaultKinds

(***************************************************************************)
(* crash      a client exits on its own                                    *)
(* dirtyStop  a client asked to stop dies before its database is flushed   *)
(* exec       a blocking exec fails, before or after having its effect     *)
(* signal     the exec that delivers a signal fails likewise               *)
(* orphan     ExecBackground fails although the process was started        *)
(* stream     the output stream of a client ends before the client does    *)
(* docker     stopping or removing the container fails                     *)
(***************************************************************************)
FaultKinds == {"crash", "dirtyStop", "exec", "signal", "orphan", "stream", "docker"}

ASSUME MaxStartsAssumption == MaxStarts \in Nat \ {0}
ASSUME BootstrapAssumption == Bootstrap \in BOOLEAN
ASSUME FaultsAssumption == Faults \subseteq FaultKinds

(* A data directory is "empty", on a mounted data volume it may also hold  *)
(* what an earlier node or an interrupted genesis left there: "unchecked", *)
(* as nothing tells whether it was flushed. "dirty" is one that a client   *)
(* of this node left unflushed.                                            *)
ASSUME DataDirsAssumption == DataDirs \subseteq {"empty", "unchecked"} /\ DataDirs # {}

Gens == 1 .. MaxStarts

VARIABLES
  state,       \* OperaNode.state
  clientGen,   \* OperaNode.clientGen, the number of client starts so far
  sonicd,      \* OperaNode.sonicd, the generation of the attached handle or 0
  unexpected,  \* OperaNode.clientExitWasUnexpected
  client,      \* the process of each generation, as /proc would show it
  stream,      \* the exec stream of each generation; "closed" is handle.Done
  watcher,     \* the goroutine watchClientExit of each generation
  unprotected, \* generations started with DoublesignProtection = 0
  answered,    \* generations that answered a probe of WaitForSync
  db,          \* the data directory
  container,   \* the docker container
  stopped,     \* Container.stopped
  cleaned,     \* Container.cleaned
  phase,       \* StartOperaDockerNode is "booting", or has "published" the node
               \* to its caller, or has "discarded" it
  pc,          \* where each caller is
  arg,         \* the generation or handle a caller works on
  caller       \* on whose behalf: "user", "boot" or "stop"

nodeVars == <<state, clientGen, sonicd, unexpected>>
clientVars == <<client, stream, watcher, unprotected, answered, db>>
containerVars == <<container, stopped, cleaned>>
callVars == <<phase, pc, arg, caller>>
vars == <<nodeVars, clientVars, containerVars, callVars>>

NodeStates == {"uninitialized", "initializing", "ready", "syncing", "running",
               "stopping", "killed", "healing"}
Labels == {"idle", "initExec", "startScan", "startConfig", "startExec",
           "startAttach", "waitSync", "syncDone", "stopSignal", "stopWait",
           "killSignal", "killWait", "healScan", "healExec", "containerStop",
           "cleanup"}

Live(g) == client[g] \in {"up", "interrupted", "killed"}
NoClientRunning == \A g \in Gens : ~Live(g)

(* A blocking exec succeeds only in a running container. *)
ExecWorks == container = "up"
ExecFails == container # "up" \/ "exec" \in Faults
SignalFails == container # "up" \/ "signal" \in Faults

(* Fault: the scan trusts that the kill took effect. *)
scanSkipped == ExecWorks
(* The scan of /proc ran and matched no client process. *)
requireNoClientRunning == ExecWorks /\ NoClientRunning

-----------------------------------------------------------------------------
Init ==
  /\ state = "uninitialized" /\ clientGen = 0 /\ sonicd = 0 /\ unexpected = FALSE
  /\ client = [g \in Gens |-> "none"]
  /\ stream = [g \in Gens |-> "none"]
  /\ watcher = [g \in Gens |-> "none"]
  /\ unprotected = {} /\ answered = {} /\ db \in DataDirs
  /\ container = "up" /\ stopped = FALSE /\ cleaned = FALSE
  /\ phase = "booting"
  /\ pc = [c \in Callers |-> "idle"]
  /\ arg = [c \in Callers |-> 0]
  /\ caller = [c \in Callers |-> "user"]

(* Only the goroutine in StartOperaDockerNode knows an unpublished node.   *)
CanCall(c) ==
  /\ pc[c] = "idle"
  /\ phase # "discarded"
  /\ phase = "booting" => \A d \in Callers : pc[d] = "idle"

Enter(c, label, g) ==
  /\ pc' = [pc EXCEPT ![c] = label]
  /\ arg' = [arg EXCEPT ![c] = g]
  /\ caller' = [caller EXCEPT ![c] = IF phase = "published" THEN "user" ELSE "boot"]
  /\ UNCHANGED phase

Goto(c, label) ==
  /\ pc' = [pc EXCEPT ![c] = label]
  /\ UNCHANGED <<phase, arg, caller>>

(* A call succeeds or fails. Stop carries on with the container however    *)
(* StopSonicd ended, and a failed step of StartOperaDockerNode runs its    *)
(* deferred Cleanup.                                                       *)
Succeed(c) == Goto(c, IF caller[c] = "stop" THEN "containerStop" ELSE "idle")

(* Fault: StartOperaDockerNode without the deferred Cleanup. *)
failWithoutCleanup(c) == Succeed(c)
Fail(c) ==
  Goto(c, CASE caller[c] = "stop" -> "containerStop"
            [] caller[c] = "boot" -> "cleanup"
            [] OTHER -> "idle")

-----------------------------------------------------------------------------
(* Initialize *)

InitializeBegin(c) ==
  /\ CanCall(c) /\ state = "uninitialized"
  /\ state' = "initializing"
  /\ Enter(c, "initExec", 0)
  /\ UNCHANGED <<clientGen, sonicd, unexpected, clientVars, containerVars>>

(* A data directory that is populated is used as it is. *)
needsInit == db = "empty"

InitializeExec(c) ==
  /\ pc[c] = "initExec"
  /\ \/ /\ ExecWorks
        /\ state' = IF state = "initializing" THEN "ready" ELSE state
        /\ db' = IF needsInit THEN "clean" ELSE db
        /\ Succeed(c)
     \/ /\ ExecFails
        /\ state' = "uninitialized"
        /\ db' \in IF needsInit THEN {"empty", "unchecked", "clean"} ELSE {db}
        /\ Fail(c)
  /\ UNCHANGED <<clientGen, sonicd, unexpected, client, stream, watcher,
                 unprotected, answered, containerVars>>

-----------------------------------------------------------------------------
(* StartSonicd and StartSonicdAsObserver *)

beginClientStart(c) ==
  /\ CanCall(c) /\ state = "ready" /\ clientGen < MaxStarts
  /\ state' = "syncing"
  /\ clientGen' = clientGen + 1
  /\ unexpected' = FALSE
  /\ Enter(c, "startScan", clientGen + 1)
  /\ UNCHANGED <<sonicd, clientVars, containerVars>>

startRequireNoClientRunning(c) ==
  /\ pc[c] = "startScan"
  /\ \/ /\ requireNoClientRunning
        /\ Goto(c, "startConfig")
        /\ UNCHANGED state
     \/ /\ ExecFails \/ ~NoClientRunning
        /\ state' = "ready"
        /\ Fail(c)
  /\ UNCHANGED <<clientGen, sonicd, unexpected, clientVars, containerVars>>

(* Fault: every start of the bootstrapping node counts as the first. *)
bootstrapsAlways == Bootstrap
bootstrapsNetwork == Bootstrap /\ sonicd = 0

startWriteConfig(c) ==
  /\ pc[c] = "startConfig"
  /\ \/ /\ ExecWorks
        /\ unprotected' = IF bootstrapsNetwork THEN unprotected \cup {arg[c]}
                                               ELSE unprotected
        /\ Goto(c, "startExec")
        /\ UNCHANGED state
     \/ /\ ExecFails
        /\ state' = "ready"
        /\ Fail(c)
        /\ UNCHANGED unprotected
  /\ UNCHANGED <<clientGen, sonicd, unexpected, client, stream, watcher,
                 answered, db, containerVars>>

startExecBackground(c) ==
  /\ pc[c] = "startExec"
  /\ \/ /\ ExecWorks
        /\ client' = [client EXCEPT ![arg[c]] = "up"]
        /\ stream' = [stream EXCEPT ![arg[c]] = "open"]
        /\ Goto(c, "startAttach")
        /\ UNCHANGED state
     \/ /\ ExecFails
        /\ state' = "ready"
        /\ Fail(c)
        /\ UNCHANGED <<client, stream>>
     \/ /\ ExecWorks /\ "orphan" \in Faults
        /\ client' = [client EXCEPT ![arg[c]] = "up"]
        /\ state' = "ready"
        /\ Fail(c)
        /\ UNCHANGED stream
  /\ UNCHANGED <<clientGen, sonicd, unexpected, watcher, unprotected, answered,
                 db, containerVars>>

(* attachClient, then the watcher is started. *)
attachClient(c) ==
  /\ pc[c] = "startAttach"
  /\ sonicd' = IF clientGen = arg[c] THEN arg[c] ELSE sonicd
  /\ watcher' = [watcher EXCEPT ![arg[c]] = "watching"]
  /\ Succeed(c)
  /\ UNCHANGED <<state, clientGen, unexpected, client, stream, unprotected,
                 answered, db, containerVars>>

-----------------------------------------------------------------------------
(* WaitForSync *)

WaitForSyncBegin(c) ==
  /\ CanCall(c) /\ state = "syncing"
  /\ Enter(c, "waitSync", 0)
  /\ UNCHANGED <<nodeVars, clientVars, containerVars>>

(* The booting goroutine calls WaitForSync also when the client has died.  *)
WaitForSyncRefused(c) ==
  /\ CanCall(c) /\ phase = "booting" /\ state = "killed"
  /\ pc' = [pc EXCEPT ![c] = "cleanup"]
  /\ UNCHANGED <<nodeVars, clientVars, containerVars, phase, arg, caller>>

(* One successful attempt: the container runs, the handle's Done is open,  *)
(* and a client answers; or the attempts are used up.                      *)
WaitForSyncProbe(c) ==
  /\ pc[c] = "waitSync"
  /\ \/ /\ container = "up" /\ sonicd # 0 /\ stream[sonicd] = "open"
        /\ \E g \in Gens :
             /\ client[g] = "up"
             /\ answered' = answered \cup {g}
        /\ Goto(c, "syncDone")
     \/ /\ Fail(c)
        /\ UNCHANGED answered
  /\ UNCHANGED <<nodeVars, client, stream, watcher, unprotected, db, containerVars>>

WaitForSyncFinish(c) ==
  /\ pc[c] = "syncDone"
  /\ \/ /\ state = "syncing"
        /\ state' = "running"
        /\ phase' = "published"
        /\ pc' = [pc EXCEPT ![c] = "idle"]
        /\ UNCHANGED <<arg, caller>>
     \/ /\ state # "syncing"
        /\ Fail(c)
        /\ UNCHANGED state
  /\ UNCHANGED <<clientGen, sonicd, unexpected, clientVars, containerVars>>

-----------------------------------------------------------------------------
(* StopSonicd, on its own or as the first half of Stop *)

Published(c) == CanCall(c) /\ phase = "published"

StopSonicdBegin(c) ==
  /\ Published(c) /\ state = "running"
  /\ state' = "stopping"
  /\ pc' = [pc EXCEPT ![c] = "stopSignal"]
  /\ \E by \in {"user", "stop"} : caller' = [caller EXCEPT ![c] = by]
  /\ UNCHANGED <<clientGen, sonicd, unexpected, clientVars, containerVars,
                 phase, arg>>

(* Stop of a node that is not running goes straight to the container. *)
StopRefused(c) ==
  /\ Published(c) /\ state # "running"
  /\ pc' = [pc EXCEPT ![c] = "containerStop"]
  /\ caller' = [caller EXCEPT ![c] = "stop"]
  /\ UNCHANGED <<nodeVars, clientVars, containerVars, phase, arg>>

Signalled(to) ==
  [g \in Gens |-> IF Live(g) /\ client[g] # "killed" THEN to ELSE client[g]]

(* Fault: a client that is already gone counts as stopped. *)
readyWithoutClient == "ready"
(* No client was there to be signalled: it exited on its own. *)
stateWithoutClient == "killed"

stopSignalSonicd(c) ==
  /\ pc[c] = "stopSignal"
  /\ \/ /\ ExecWorks /\ ~NoClientRunning
        /\ client' = Signalled("interrupted")
        /\ pc' = [pc EXCEPT ![c] = "stopWait"]
        /\ arg' = [arg EXCEPT ![c] = sonicd]
        /\ UNCHANGED <<state, phase, caller>>
     \/ /\ ExecWorks /\ NoClientRunning
        /\ state' = stateWithoutClient
        /\ Fail(c)
        /\ UNCHANGED client
     \/ /\ SignalFails
        /\ state' = "running"
        /\ client' \in {client, Signalled("interrupted")}
        /\ Fail(c)
  /\ UNCHANGED <<clientGen, sonicd, unexpected, stream, watcher, unprotected,
                 answered, db, containerVars>>

(* waitForSonicdExit returns, and StopSonicd ends; or the context expires. *)
HandleDone(h) == h = 0 \/ stream[h] = "closed"

stopWaitForSonicdExit(c) ==
  /\ pc[c] = "stopWait"
  /\ \/ /\ HandleDone(arg[c])
        /\ state' = IF state = "stopping" THEN "ready" ELSE state
        /\ Succeed(c)
     \/ /\ Fail(c)
        /\ UNCHANGED state
  /\ UNCHANGED <<clientGen, sonicd, unexpected, clientVars, containerVars>>

-----------------------------------------------------------------------------
(* ForceStopSonicd *)

ForceStopSonicdBegin(c) ==
  /\ Published(c) /\ state \in {"running", "stopping"}
  /\ state' = "killed"
  /\ Enter(c, "killSignal", 0)
  /\ UNCHANGED <<clientGen, sonicd, unexpected, clientVars, containerVars>>

killSignalSonicd(c) ==
  /\ pc[c] = "killSignal"
  /\ \/ /\ ExecWorks
        /\ client' = Signalled("killed")
        /\ pc' = [pc EXCEPT ![c] = "killWait"]
        /\ arg' = [arg EXCEPT ![c] = sonicd]
        /\ UNCHANGED <<phase, caller>>
     \/ /\ SignalFails
        /\ client' \in {client, Signalled("killed")}
        /\ Fail(c)
  /\ UNCHANGED <<nodeVars, stream, watcher, unprotected, answered, db, containerVars>>

killWaitForSonicdExit(c) ==
  /\ pc[c] = "killWait"
  /\ \/ HandleDone(arg[c]) /\ Succeed(c)
     \/ Fail(c)
  /\ UNCHANGED <<nodeVars, clientVars, containerVars>>

-----------------------------------------------------------------------------
(* HealSonicd *)

HealSonicdBegin(c) ==
  /\ Published(c) /\ state = "killed"
  /\ state' = "healing"
  /\ Enter(c, "healScan", 0)
  /\ UNCHANGED <<clientGen, sonicd, unexpected, clientVars, containerVars>>

healRequireNoClientRunning(c) ==
  /\ pc[c] = "healScan"
  /\ \/ /\ requireNoClientRunning
        /\ Goto(c, "healExec")
        /\ UNCHANGED state
     \/ /\ ExecFails \/ ~NoClientRunning
        /\ state' = "killed"
        /\ Fail(c)
  /\ UNCHANGED <<clientGen, sonicd, unexpected, clientVars, containerVars>>

(* sonictool heal runs from the step before this one until this step.      *)
healExec(c) ==
  /\ pc[c] = "healExec"
  /\ \/ /\ ExecWorks
        /\ db' = "clean"
        /\ state' = IF state = "healing" THEN "ready" ELSE state
        /\ Succeed(c)
     \/ /\ ExecFails
        /\ db' \in {db, "clean"}
        /\ state' = "killed"
        /\ Fail(c)
  /\ UNCHANGED <<clientGen, sonicd, unexpected, client, stream, watcher,
                 unprotected, answered, containerVars>>

-----------------------------------------------------------------------------
(* The container: Kill, the second half of Stop, and Cleanup *)

(* A container that ends takes its processes with it. *)
Halt(to) ==
  /\ container' = to
  /\ client' = [g \in Gens |-> IF Live(g) THEN "gone" ELSE client[g]]
  /\ db' = IF NoClientRunning THEN db ELSE "dirty"

Kill(c) ==
  /\ Published(c) /\ container = "up"
  /\ Halt("stopped")
  /\ UNCHANGED <<nodeVars, stream, watcher, unprotected, answered, stopped,
                 cleaned, callVars>>

(* Container.Stop marks the container stopped before docker is asked to.   *)
StopContainer(c) ==
  /\ pc[c] = "containerStop"
  /\ stopped' = TRUE
  /\ \/ ~stopped /\ Halt("stopped")
     \/ /\ stopped \/ "docker" \in Faults
        /\ UNCHANGED <<container, client, db>>
  /\ Goto(c, "idle")
  /\ UNCHANGED <<nodeVars, stream, watcher, unprotected, answered, cleaned>>

CleanupBegin(c) ==
  /\ Published(c)
  /\ Goto(c, "cleanup")
  /\ UNCHANGED <<nodeVars, clientVars, containerVars>>

(* Fault: the container is removed without being stopped. *)
stoppedBefore == stopped
(* Cleanup of a container that was not cleaned up stops it first. *)
stoppedByCleanup == stopped \/ ~cleaned

(* What ContainerRemove makes of a stopped container. *)
ContainerRemove == {"removed"} \cup (IF "docker" \in Faults THEN {"stopped"} ELSE {})

(* Stops the container unless it was, then removes it: docker refuses to   *)
(* remove one that still runs. cleaned is set before docker is asked to.   *)
Cleanup(c) ==
  /\ pc[c] = "cleanup"
  /\ stopped' = stoppedByCleanup
  /\ \/ /\ cleaned \/ (~stopped /\ "docker" \in Faults)
        /\ UNCHANGED <<container, cleaned, client, db>>
     \/ /\ ~cleaned /\ ~stopped
        /\ cleaned' = TRUE
        /\ \E to \in ContainerRemove : Halt(to)
     \/ /\ ~cleaned /\ stopped
        /\ cleaned' = TRUE
        /\ container' \in IF container = "up" THEN {"up"} ELSE ContainerRemove
        /\ UNCHANGED <<client, db>>
  /\ pc' = [pc EXCEPT ![c] = "idle"]
  /\ phase' = IF phase = "booting" THEN "discarded" ELSE phase
  /\ UNCHANGED <<nodeVars, stream, watcher, unprotected, answered, arg, caller>>

-----------------------------------------------------------------------------
(* Client processes and their watchers *)

ClientExits(g, dirty) ==
  /\ client' = [client EXCEPT ![g] = "gone"]
  /\ db' = IF dirty THEN "dirty" ELSE db
  /\ UNCHANGED <<nodeVars, stream, watcher, unprotected, answered,
                 containerVars, callVars>>

ClientCrashes(g) ==
  /\ client[g] = "up" /\ "crash" \in Faults
  /\ ClientExits(g, TRUE)

ClientShutsDown(g) ==
  /\ client[g] = "interrupted"
  /\ \/ ClientExits(g, FALSE)
     \/ "dirtyStop" \in Faults /\ ClientExits(g, TRUE)

ClientIsKilled(g) ==
  /\ client[g] = "killed"
  /\ ClientExits(g, TRUE)

(* The goroutine of ExecBackground closes Done: the output ended. *)
StreamEnds(g) ==
  /\ stream[g] = "open"
  /\ client[g] = "gone" \/ "stream" \in Faults
  /\ stream' = [stream EXCEPT ![g] = "closed"]
  /\ UNCHANGED <<nodeVars, client, watcher, unprotected, answered, db,
                 containerVars, callVars>>

(* Fault: the exit of any earlier client counts. *)
anyExitIsUnexpected(g) == state \in {"syncing", "running"}
(* Fault: an exit during the sync is left to WaitForSync. *)
runningExitIsUnexpected(g) == clientGen = g /\ state = "running"
(* recordUnexpectedClientExit: the current client, and not asked to stop. *)
exitIsUnexpected(g) == clientGen = g /\ state \in {"syncing", "running"}

watchClientExit(g) ==
  /\ watcher[g] = "watching" /\ stream[g] = "closed"
  /\ watcher' = [watcher EXCEPT ![g] = "returned"]
  /\ IF exitIsUnexpected(g)
     THEN state' = "killed" /\ unexpected' = TRUE
     ELSE UNCHANGED <<state, unexpected>>
  /\ UNCHANGED <<clientGen, sonicd, client, stream, unprotected, answered, db,
                 containerVars, callVars>>

-----------------------------------------------------------------------------
Proceed(c) ==
  \/ InitializeExec(c)
  \/ startRequireNoClientRunning(c) \/ startWriteConfig(c)
  \/ startExecBackground(c) \/ attachClient(c)
  \/ WaitForSyncProbe(c) \/ WaitForSyncFinish(c)
  \/ stopSignalSonicd(c) \/ stopWaitForSonicdExit(c)
  \/ killSignalSonicd(c) \/ killWaitForSonicdExit(c)
  \/ healRequireNoClientRunning(c) \/ healExec(c)
  \/ StopContainer(c) \/ Cleanup(c)

Call(c) ==
  \/ InitializeBegin(c) \/ beginClientStart(c)
  \/ WaitForSyncBegin(c) \/ WaitForSyncRefused(c)
  \/ StopSonicdBegin(c) \/ StopRefused(c)
  \/ ForceStopSonicdBegin(c) \/ HealSonicdBegin(c)
  \/ CleanupBegin(c) \/ Kill(c)

ProcessStep(g) ==
  \/ ClientCrashes(g) \/ ClientShutsDown(g) \/ ClientIsKilled(g)
  \/ StreamEnds(g) \/ watchClientExit(g)

Next ==
  \/ \E c \in Callers : Call(c) \/ Proceed(c)
  \/ \E g \in Gens : ProcessStep(g)

(* Goroutines run: a call in progress proceeds, StartOperaDockerNode makes *)
(* its next call, an ended process closes its stream, a watcher sees it.   *)
(* Nobody has to call a published node, and no client has to exit, however *)
(* it was signalled.                                                       *)
Fairness ==
  /\ \A c \in Callers : WF_vars(Proceed(c))
  /\ \A c \in Callers : WF_vars(phase = "booting" /\ Call(c))
  /\ \A g \in Gens : WF_vars(client[g] = "gone" /\ StreamEnds(g))
  /\ \A g \in Gens : WF_vars(watchClientExit(g))

Spec == Init /\ [][Next]_vars /\ Fairness

-----------------------------------------------------------------------------
TypeOK ==
  /\ state \in NodeStates
  /\ clientGen \in 0 .. MaxStarts /\ sonicd \in 0 .. MaxStarts
  /\ unexpected \in BOOLEAN
  /\ client \in [Gens -> {"none", "up", "interrupted", "killed", "gone"}]
  /\ stream \in [Gens -> {"none", "open", "closed"}]
  /\ watcher \in [Gens -> {"none", "watching", "returned"}]
  /\ unprotected \subseteq 0 .. MaxStarts /\ answered \subseteq Gens
  /\ db \in {"empty", "unchecked", "clean", "dirty"}
  /\ container \in {"up", "stopped", "removed"}
  /\ stopped \in BOOLEAN /\ cleaned \in BOOLEAN /\ (cleaned => stopped)
  /\ phase \in {"booting", "published", "discarded"}
  /\ pc \in [Callers -> Labels]
  /\ arg \in [Callers -> 0 .. MaxStarts]
  /\ caller \in [Callers -> {"user", "boot", "stop"}]

(* The data directory has one user at a time: never two live clients, and  *)
(* no live client, and no second heal, while sonictool heals. startSonicd  *)
(* and HealSonicd scan /proc for this, instead of trusting the state.      *)
ExclusiveDataDir ==
  /\ \A g, h \in Gens : Live(g) /\ Live(h) => g = h
  /\ \A c \in Callers : pc[c] = "healExec" =>
       /\ NoClientRunning
       /\ \A d \in Callers : pc[d] = "healExec" => c = d

(* Only the end of the current client's own output marks a node as having  *)
(* lost its client: the late watcher of an earlier client never does, even *)
(* when it runs after the restart.                                         *)
OnlyOwnExitIsUnexpected ==
  unexpected => clientGen # 0 /\ stream[clientGen] = "closed"

ClientStarts == \E g \in Gens : client[g] = "none" /\ client'[g] = "up"

(* No client is started on a database that a client of the node left       *)
(* unflushed, or before Initialize: a kill or a crash is followed by       *)
(* HealSonicd before the next start. What a data volume held before the    *)
(* node is another matter, see VolumesAreHealed.                           *)
NoStartOnDirtyDb == [][ClientStarts => db \in {"clean", "unchecked"}]_vars

(* A database that must be assumed dirty is healed before it is used       *)
(* (node_state.go:35), also the one that an earlier node, whose client was *)
(* killed by the stop of its container, left on a data volume.             *)
(* Refuted: Initialize skips a populated data directory, see the README.   *)
VolumesAreHealed == [][ClientStarts => db # "unchecked"]_vars

(* Of the clients of a node at most one runs without doublesign            *)
(* protection, and no client ran before it (bootstrapsNetwork).            *)
UnprotectedOnce ==
  \A g \in unprotected : client[g] # "none" =>
    \A h \in Gens : h < g => client[h] = "none"

(* The exit of a client that nobody asked to stop is recorded: a node      *)
(* whose container runs does not stay syncing or running without it.       *)
CrashIsRecorded ==
  \A g \in Gens :
    (clientGen = g /\ sonicd = g /\ client[g] = "gone" /\ state \in {"syncing", "running"})
      ~> (state \notin {"syncing", "running"} \/ clientGen # g \/ container # "up")

(* StartOperaDockerNode ends with a node it returns or with its container  *)
(* removed, whichever step of the startup fails.                           *)
BootReleasesContainer ==
  phase = "booting" ~> (phase = "published" \/ container = "removed")

==============================================================================
