--------------------------- MODULE OperaNodeProofs ---------------------------
(* Proofs about OperaNode, for any number of starts and any set of faults. *)
EXTENDS OperaNode, TLAPS

(* The executor drives a node from one goroutine at a time. *)
SingleCaller == \A c, d \in Callers : c = d

-----------------------------------------------------------------------------
(* A call enters, moves within and leaves the labels of pc only. *)
LEMMA CallTypes ==
  ASSUME NEW c \in Callers, TypeOK
  PROVE  /\ \A l \in Labels, g \in 0 .. MaxStarts : Enter(c, l, g) =>
              /\ phase' = phase
              /\ pc' \in [Callers -> Labels]
              /\ arg' \in [Callers -> 0 .. MaxStarts]
              /\ caller' \in [Callers -> {"user", "boot", "stop"}]
         /\ \A l \in Labels : Goto(c, l) =>
              /\ phase' = phase /\ arg' = arg /\ caller' = caller
              /\ pc' \in [Callers -> Labels]
         /\ Succeed(c) \/ Fail(c) =>
              /\ phase' = phase /\ arg' = arg /\ caller' = caller
              /\ pc' \in [Callers -> Labels]
  BY DEF TypeOK, Enter, Goto, Succeed, Fail, Labels

(* A signalled client is in one of the recorded process states. *)
LEMMA SignalTypes ==
  ASSUME NEW to \in {"interrupted", "killed"}, TypeOK
  PROVE  Signalled(to) \in [Gens -> {"none", "up", "interrupted", "killed", "gone"}]
  BY DEF TypeOK, Signalled

(* The type invariant holds initially (NewOperaNode). *)
LEMMA InitType == Init => TypeOK
<1>1. 0 \in 0 .. MaxStarts
  BY MaxStartsAssumption
<1> SUFFICES ASSUME Init PROVE TypeOK
  OBVIOUS
<1>2. /\ client \in [Gens -> {"none", "up", "interrupted", "killed", "gone"}]
      /\ stream \in [Gens -> {"none", "open", "closed"}]
      /\ watcher \in [Gens -> {"none", "watching", "returned"}]
  BY DEF Init
<1>3. /\ pc \in [Callers -> Labels]
      /\ arg \in [Callers -> 0 .. MaxStarts]
      /\ caller \in [Callers -> {"user", "boot", "stop"}]
  BY <1>1 DEF Init, Labels
<1>4. /\ state \in NodeStates /\ db \in {"empty", "unchecked", "clean", "dirty"}
      /\ container \in {"up", "stopped", "removed"}
      /\ phase \in {"booting", "published", "discarded"}
  BY DataDirsAssumption DEF Init, NodeStates
<1>5. QED
  BY <1>1, <1>2, <1>3, <1>4, Zenon DEF Init, TypeOK

(* Claiming a state, or being refused, preserves the type invariant. *)
LEMMA CallType ==
  ASSUME TypeOK, NEW c \in Callers, Call(c)
  PROVE  TypeOK'
<1> USE MaxStartsAssumption DEF nodeVars, clientVars, containerVars, callVars
<1>1. CASE InitializeBegin(c)
  BY <1>1, CallTypes DEF InitializeBegin, TypeOK, NodeStates, Labels
<1>2. CASE beginClientStart(c)
  <2>1. clientGen + 1 \in 0 .. MaxStarts
    BY <1>2 DEF beginClientStart, TypeOK
  <2>2. /\ phase' = phase
        /\ pc' \in [Callers -> Labels]
        /\ arg' \in [Callers -> 0 .. MaxStarts]
        /\ caller' \in [Callers -> {"user", "boot", "stop"}]
    BY <1>2, <2>1, CallTypes DEF beginClientStart, Labels
  <2>3. state' \in NodeStates /\ clientGen' \in 0 .. MaxStarts
    BY <1>2, <2>1 DEF beginClientStart, NodeStates
  <2>4. QED
    BY <1>2, <2>2, <2>3 DEF beginClientStart, TypeOK
<1>3. CASE WaitForSyncBegin(c)
  BY <1>3, CallTypes DEF WaitForSyncBegin, TypeOK, NodeStates, Labels
<1>4. CASE WaitForSyncRefused(c)
  BY <1>4 DEF WaitForSyncRefused, TypeOK, Labels
<1>5. CASE StopSonicdBegin(c)
  BY <1>5 DEF StopSonicdBegin, TypeOK, NodeStates, Labels
<1>6. CASE StopRefused(c)
  BY <1>6 DEF StopRefused, TypeOK, Labels
<1>7. CASE ForceStopSonicdBegin(c)
  BY <1>7, CallTypes DEF ForceStopSonicdBegin, TypeOK, NodeStates, Labels
<1>8. CASE HealSonicdBegin(c)
  BY <1>8, CallTypes DEF HealSonicdBegin, TypeOK, NodeStates, Labels
<1>9. CASE CleanupBegin(c)
  BY <1>9, CallTypes DEF CleanupBegin, TypeOK, Labels
<1>10. CASE Kill(c)
  BY <1>10 DEF Kill, Halt, TypeOK
<1>11. QED
  BY <1>1, <1>2, <1>3, <1>4, <1>5, <1>6, <1>7, <1>8, <1>9, <1>10 DEF Call

(* Every later step of an action preserves the type invariant. *)
LEMMA ProceedType ==
  ASSUME TypeOK, NEW c \in Callers, Proceed(c)
  PROVE  TypeOK'
<1> USE MaxStartsAssumption DEF nodeVars, clientVars, containerVars, callVars
<1>1. CASE InitializeExec(c)
  BY <1>1, CallTypes DEF InitializeExec, TypeOK, NodeStates
<1>2. CASE startRequireNoClientRunning(c)
  BY <1>2, CallTypes DEF startRequireNoClientRunning, TypeOK, NodeStates, Labels
<1>3. CASE startWriteConfig(c)
  <2>1. unprotected' \subseteq 0 .. MaxStarts
    <3>1. arg[c] \in 0 .. MaxStarts /\ unprotected \subseteq 0 .. MaxStarts
      BY DEF TypeOK
    <3>2. unprotected' = unprotected \cup {arg[c]} \/ unprotected' = unprotected
      BY <1>3 DEF startWriteConfig
    <3>3. QED
      BY <3>1, <3>2
  <2>2. QED
    BY <1>3, <2>1, CallTypes DEF startWriteConfig, TypeOK, NodeStates, Labels
<1>4. CASE startExecBackground(c)
  BY <1>4, CallTypes DEF startExecBackground, TypeOK, NodeStates, Labels
<1>5. CASE attachClient(c)
  BY <1>5, CallTypes DEF attachClient, TypeOK
<1>6. CASE WaitForSyncProbe(c)
  BY <1>6, CallTypes DEF WaitForSyncProbe, TypeOK, Labels
<1>7. CASE WaitForSyncFinish(c)
  BY <1>7, CallTypes DEF WaitForSyncFinish, TypeOK, NodeStates, Labels
<1>8. CASE stopSignalSonicd(c)
  <2>1. client' \in [Gens -> {"none", "up", "interrupted", "killed", "gone"}]
    BY <1>8, SignalTypes DEF stopSignalSonicd, TypeOK
  <2>2. arg' \in [Callers -> 0 .. MaxStarts] /\ caller' = caller /\ phase' = phase
    BY <1>8, CallTypes DEF stopSignalSonicd, TypeOK
  <2>3. pc' \in [Callers -> Labels]
    BY <1>8, CallTypes DEF stopSignalSonicd, TypeOK, Labels
  <2>4. state' \in NodeStates
    BY <1>8 DEF stopSignalSonicd, stateWithoutClient, TypeOK, NodeStates
  <2>5. QED
    BY <1>8, <2>1, <2>2, <2>3, <2>4 DEF stopSignalSonicd, TypeOK
<1>9. CASE stopWaitForSonicdExit(c)
  BY <1>9, CallTypes DEF stopWaitForSonicdExit, TypeOK, NodeStates
<1>10. CASE killSignalSonicd(c)
  <2>1. client' \in [Gens -> {"none", "up", "interrupted", "killed", "gone"}]
    BY <1>10, SignalTypes DEF killSignalSonicd, TypeOK
  <2>2. arg' \in [Callers -> 0 .. MaxStarts] /\ caller' = caller /\ phase' = phase
    BY <1>10, CallTypes DEF killSignalSonicd, TypeOK
  <2>3. pc' \in [Callers -> Labels]
    BY <1>10, CallTypes DEF killSignalSonicd, TypeOK, Labels
  <2>4. QED
    BY <1>10, <2>1, <2>2, <2>3 DEF killSignalSonicd, TypeOK
<1>11. CASE killWaitForSonicdExit(c)
  BY <1>11, CallTypes DEF killWaitForSonicdExit, TypeOK
<1>12. CASE healRequireNoClientRunning(c)
  BY <1>12, CallTypes DEF healRequireNoClientRunning, TypeOK, NodeStates, Labels
<1>13. CASE healExec(c)
  BY <1>13, CallTypes DEF healExec, TypeOK, NodeStates
<1>14. CASE StopContainer(c)
  BY <1>14, CallTypes DEF StopContainer, Halt, TypeOK, Labels
<1>15. CASE Cleanup(c)
  <2>1. stopped' \in BOOLEAN /\ cleaned' \in BOOLEAN /\ (cleaned' => stopped')
    BY <1>15, Zenon DEF Cleanup, stoppedByCleanup, TypeOK
  <2>2. /\ client' \in [Gens -> {"none", "up", "interrupted", "killed", "gone"}]
        /\ container' \in {"up", "stopped", "removed"}
        /\ db' \in {"empty", "unchecked", "clean", "dirty"}
    BY <1>15 DEF Cleanup, ContainerRemove, Halt, TypeOK
  <2>3. /\ pc' \in [Callers -> Labels]
        /\ phase' \in {"booting", "published", "discarded"}
    BY <1>15 DEF Cleanup, TypeOK, Labels
  <2>4. QED
    BY <1>15, <2>1, <2>2, <2>3 DEF Cleanup, TypeOK
<1>16. QED
  BY <1>1, <1>2, <1>3, <1>4, <1>5, <1>6, <1>7, <1>8, <1>9, <1>10, <1>11,
     <1>12, <1>13, <1>14, <1>15 DEF Proceed

(* Clients, their streams and watchers preserve the type invariant. *)
LEMMA ProcessStepType ==
  ASSUME TypeOK, NEW g \in Gens, ProcessStep(g)
  PROVE  TypeOK'
<1> USE DEF nodeVars, clientVars, containerVars, callVars
<1>1. ASSUME NEW dirty \in BOOLEAN, ClientExits(g, dirty) PROVE TypeOK'
  BY <1>1 DEF ClientExits, TypeOK
<1>2. CASE ClientCrashes(g) \/ ClientShutsDown(g) \/ ClientIsKilled(g)
  BY <1>1, <1>2 DEF ClientCrashes, ClientShutsDown, ClientIsKilled
<1>3. CASE StreamEnds(g)
  BY <1>3 DEF StreamEnds, TypeOK
<1>4. CASE watchClientExit(g)
  BY <1>4, ZenonT(60) DEF watchClientExit, TypeOK, NodeStates
<1>5. QED
  BY <1>2, <1>3, <1>4 DEF ProcessStep

(* The node, its clients and its callers keep their types. *)
THEOREM TypeCorrect == Spec => []TypeOK
<1>1. TypeOK /\ [Next]_vars => TypeOK'
  <2> SUFFICES ASSUME TypeOK, [Next]_vars PROVE TypeOK'
    OBVIOUS
  <2>1. CASE \E c \in Callers : Call(c) \/ Proceed(c)
    BY <2>1, CallType, ProceedType
  <2>2. CASE \E g \in Gens : ProcessStep(g)
    BY <2>2, ProcessStepType
  <2>3. CASE UNCHANGED vars
    BY <2>3 DEF vars, nodeVars, clientVars, containerVars, callVars, TypeOK
  <2>4. QED
    BY <2>1, <2>2, <2>3 DEF Next
<1>2. QED
  BY InitType, <1>1, PTL DEF Spec

-----------------------------------------------------------------------------
(* ExclusiveDataDir is not inductive: between the scan of /proc and the    *)
(* start of a client, or of sonictool heal, nothing may come alive.        *)
Quiet == {"startConfig", "startExec", "healExec"}

DataDirInv ==
  /\ \A g, h \in Gens : Live(g) /\ Live(h) => g = h
  /\ \A c \in Callers : pc[c] \in Quiet => NoClientRunning

(* A step that brings no client to life preserves it, if every caller that *)
(* is quiet after the step was so before, or no client is running.         *)
LEMMA DataDirFrame ==
  ASSUME DataDirInv,
         \A g \in Gens : Live(g)' => Live(g),
         \A c \in Callers : pc'[c] \in Quiet => pc[c] \in Quiet \/ NoClientRunning
  PROVE  DataDirInv'
<1>1. NoClientRunning => NoClientRunning'
  BY DEF NoClientRunning
<1>2. QED
  BY <1>1 DEF DataDirInv

(* Signals, exits and the end of the container bring no client to life. *)
LEMMA FewerClients ==
  ASSUME TypeOK
  PROVE  /\ client' = client => \A g \in Gens : Live(g)' => Live(g)
         /\ \A to \in {"interrupted", "killed"} :
              client' = Signalled(to) => \A g \in Gens : Live(g)' => Live(g)
         /\ \A to : Halt(to) => \A g \in Gens : Live(g)' => Live(g)
         /\ \A g \in Gens, dirty \in BOOLEAN :
              ClientExits(g, dirty) => \A h \in Gens : Live(h)' => Live(h)
  BY DEF TypeOK, Live, Signalled, Halt, ClientExits

(* An action that ends, or that enters elsewhere, adds no quiet caller. *)
LEMMA LeavingIsNotQuiet ==
  ASSUME TypeOK, NEW c \in Callers
  PROVE  /\ Succeed(c) \/ Fail(c) =>
              \A d \in Callers : pc'[d] \in Quiet => pc[d] \in Quiet
         /\ \A l \in Labels \ Quiet : \A g : Enter(c, l, g) =>
              \A d \in Callers : pc'[d] \in Quiet => pc[d] \in Quiet
         /\ \A l \in Labels \ Quiet : pc' = [pc EXCEPT ![c] = l] =>
              \A d \in Callers : pc'[d] \in Quiet => pc[d] \in Quiet
  BY DEF TypeOK, Succeed, Fail, Enter, Goto, Quiet, Labels

(* Calling an action preserves DataDirInv: none starts out quiet. *)
LEMMA DataDirCall ==
  ASSUME TypeOK, DataDirInv, NEW c \in Callers, Call(c)
  PROVE  DataDirInv'
<1>1. \A g \in Gens : Live(g)' => Live(g)
  BY FewerClients
  DEF Call, InitializeBegin, beginClientStart, WaitForSyncBegin, WaitForSyncRefused,
      StopSonicdBegin, StopRefused, ForceStopSonicdBegin, HealSonicdBegin,
      CleanupBegin, Kill, clientVars
<1>2. \A d \in Callers : pc'[d] \in Quiet => pc[d] \in Quiet
  <2>1. /\ "initExec" \in Labels \ Quiet /\ "startScan" \in Labels \ Quiet
        /\ "waitSync" \in Labels \ Quiet /\ "cleanup" \in Labels \ Quiet
        /\ "stopSignal" \in Labels \ Quiet /\ "containerStop" \in Labels \ Quiet
        /\ "killSignal" \in Labels \ Quiet /\ "healScan" \in Labels \ Quiet
    BY DEF Labels, Quiet
  <2>2. CASE Kill(c)
    BY <2>2 DEF Kill, callVars
  <2>3. CASE CleanupBegin(c)
    BY <2>1, <2>3, LeavingIsNotQuiet DEF CleanupBegin, Goto
  <2>4. CASE ~Kill(c) /\ ~CleanupBegin(c)
    BY <2>1, <2>4, LeavingIsNotQuiet
    DEF Call, InitializeBegin, beginClientStart, WaitForSyncBegin, WaitForSyncRefused,
        StopSonicdBegin, StopRefused, ForceStopSonicdBegin, HealSonicdBegin
  <2>5. QED
    BY <2>2, <2>3, <2>4
<1>3. QED
  BY <1>1, <1>2, DataDirFrame

(* The scans of startSonicd and HealSonicd are what makes a caller quiet,  *)
(* and startExecBackground brings a client to life where there was none.   *)
LEMMA DataDirProceed ==
  ASSUME SingleCaller, TypeOK, DataDirInv, NEW c \in Callers, Proceed(c)
  PROVE  DataDirInv'
<1>1. CASE startRequireNoClientRunning(c) \/ healRequireNoClientRunning(c)
  <2>1. \A g \in Gens : Live(g)' => Live(g)
    BY <1>1, FewerClients
    DEF startRequireNoClientRunning, healRequireNoClientRunning, clientVars
  <2>2. NoClientRunning \/ Fail(c)
    BY <1>1 DEF startRequireNoClientRunning, healRequireNoClientRunning,
                requireNoClientRunning
  <2>3. QED
    BY <2>1, <2>2, LeavingIsNotQuiet, DataDirFrame
<1>2. CASE startWriteConfig(c)
  <2>1. \A g \in Gens : Live(g)' => Live(g)
    BY <1>2, FewerClients DEF startWriteConfig
  <2>2. pc[c] \in Quiet
    BY <1>2 DEF startWriteConfig, Quiet
  <2>3. QED
    BY <2>1, <2>2, DataDirFrame DEF SingleCaller
<1>3. CASE startExecBackground(c)
  <2>1. NoClientRunning
    BY <1>3 DEF startExecBackground, DataDirInv, Quiet
  <2>2. pc'[c] \notin Quiet
    BY <1>3 DEF startExecBackground, Succeed, Fail, Goto, Quiet, TypeOK
  <2>3. \A g \in Gens : Live(g)' => g = arg[c]
    BY <1>3, <2>1 DEF startExecBackground, NoClientRunning, Live, TypeOK
  <2>4. QED
    BY <2>2, <2>3 DEF DataDirInv, SingleCaller
<1>4. CASE WaitForSyncProbe(c) \/ WaitForSyncFinish(c) \/ stopSignalSonicd(c)
           \/ killSignalSonicd(c)
  <2>1. \A g \in Gens : Live(g)' => Live(g)
    BY <1>4, FewerClients
    DEF WaitForSyncProbe, WaitForSyncFinish, stopSignalSonicd, killSignalSonicd,
        clientVars
  <2>2. /\ "syncDone" \in Labels \ Quiet /\ "idle" \in Labels \ Quiet
        /\ "stopWait" \in Labels \ Quiet /\ "killWait" \in Labels \ Quiet
    BY DEF Labels, Quiet
  <2>3. QED
    BY <1>4, <2>1, <2>2, LeavingIsNotQuiet, DataDirFrame
    DEF WaitForSyncProbe, WaitForSyncFinish, stopSignalSonicd, killSignalSonicd, Goto
<1>5. CASE \/ InitializeExec(c) \/ attachClient(c) \/ stopWaitForSonicdExit(c)
           \/ killWaitForSonicdExit(c) \/ healExec(c)
  <2>1. \A g \in Gens : Live(g)' => Live(g)
    BY <1>5, FewerClients
    DEF InitializeExec, attachClient, stopWaitForSonicdExit, killWaitForSonicdExit,
        healExec, clientVars
  <2>2. Succeed(c) \/ Fail(c)
    BY <1>5 DEF InitializeExec, attachClient, stopWaitForSonicdExit,
                killWaitForSonicdExit, healExec
  <2>3. QED
    BY <2>1, <2>2, LeavingIsNotQuiet, DataDirFrame
<1>6. CASE StopContainer(c) \/ Cleanup(c)
  <2>1. \A g \in Gens : Live(g)' => Live(g)
    BY <1>6, FewerClients DEF StopContainer, Cleanup
  <2>2. "idle" \in Labels \ Quiet
    BY DEF Labels, Quiet
  <2>3. QED
    BY <1>6, <2>1, <2>2, LeavingIsNotQuiet, DataDirFrame
    DEF StopContainer, Cleanup, Goto
<1>7. QED
  BY <1>1, <1>2, <1>3, <1>4, <1>5, <1>6 DEF Proceed

(* Clients that exit preserve DataDirInv. *)
LEMMA DataDirProcess ==
  ASSUME TypeOK, DataDirInv, NEW g \in Gens, ProcessStep(g)
  PROVE  DataDirInv'
<1>1. \A h \in Gens : Live(h)' => Live(h)
  BY FewerClients
  DEF ProcessStep, ClientCrashes, ClientShutsDown, ClientIsKilled, StreamEnds,
      watchClientExit
<1>2. pc' = pc
  BY DEF ProcessStep, ClientCrashes, ClientShutsDown, ClientIsKilled, ClientExits,
         StreamEnds, watchClientExit, callVars
<1>3. QED
  BY <1>1, <1>2, DataDirFrame

(* The scan of /proc is not out of date when a client or heal starts. *)
LEMMA DataDirInvariant ==
  ASSUME SingleCaller
  PROVE  Spec => []DataDirInv
<1>1. Init => DataDirInv
  BY DEF Init, DataDirInv, Live, Quiet
<1>2. TypeOK /\ DataDirInv /\ [Next]_vars => DataDirInv'
  <2> SUFFICES ASSUME TypeOK, DataDirInv, [Next]_vars PROVE DataDirInv'
    OBVIOUS
  <2>1. CASE \E c \in Callers : Call(c) \/ Proceed(c)
    BY <2>1, DataDirCall, DataDirProceed
  <2>2. CASE \E g \in Gens : ProcessStep(g)
    BY <2>2, DataDirProcess
  <2>3. CASE UNCHANGED vars
    BY <2>3 DEF vars, clientVars, callVars, DataDirInv, NoClientRunning, Live
  <2>4. QED
    BY <2>1, <2>2, <2>3 DEF Next
<1>3. QED
  BY <1>1, <1>2, TypeCorrect, PTL DEF Spec

(* Driven by one goroutine, a node never has two clients on its data       *)
(* directory, nor a client next to sonictool heal, whatever crashes,       *)
(* orphaned processes and broken streams occur (startSonicd, HealSonicd).  *)
THEOREM DataDirIsExclusive ==
  ASSUME SingleCaller
  PROVE  Spec => []ExclusiveDataDir
<1>1. DataDirInv => ExclusiveDataDir
  BY DEF DataDirInv, ExclusiveDataDir, SingleCaller, Quiet
<1>2. QED
  BY <1>1, DataDirInvariant, PTL

-----------------------------------------------------------------------------
(* Why a late watcher does no harm: a watcher exists only for a generation *)
(* whose start has got as far as attachClient, and while a start is on its *)
(* way the current generation is its own and has none.                     *)
Starting == {"startScan", "startConfig", "startExec", "startAttach"}

WatcherInv ==
  /\ OnlyOwnExitIsUnexpected
  /\ \A c \in Callers : pc[c] \in Starting =>
       arg[c] = clientGen /\ ~unexpected /\ watcher[clientGen] = "none"
  /\ \A g \in Gens : g > clientGen => watcher[g] = "none"

(* What most steps of a caller have in common. *)
LEMMA WatcherFrame ==
  ASSUME SingleCaller, TypeOK, WatcherInv, NEW c \in Callers,
         UNCHANGED <<clientGen, unexpected, stream, watcher>>,
         pc'[c] \in Starting => pc[c] \in Starting /\ arg' = arg
  PROVE  WatcherInv'
<1>1. OnlyOwnExitIsUnexpected'
  BY DEF WatcherInv, OnlyOwnExitIsUnexpected
<1>2. \A d \in Callers : pc'[d] \in Starting =>
         arg'[d] = clientGen /\ ~unexpected /\ watcher[clientGen] = "none"
  BY DEF WatcherInv, SingleCaller
<1>3. QED
  BY <1>1, <1>2 DEF WatcherInv

(* Where a caller is after it entered, moved or left. *)
LEMMA LeavingIsNotStarting ==
  ASSUME TypeOK, NEW c \in Callers
  PROVE  /\ Succeed(c) \/ Fail(c) => pc'[c] \notin Starting
         /\ \A l, g : Enter(c, l, g) => pc'[c] = l
         /\ \A l : Goto(c, l) => pc'[c] = l /\ arg' = arg
         /\ \A l : pc' = [pc EXCEPT ![c] = l] => pc'[c] = l
  BY DEF TypeOK, Succeed, Fail, Enter, Goto, Starting

(* beginClientStart claims a generation that has no watcher yet. *)
LEMMA WatcherCall ==
  ASSUME SingleCaller, TypeOK, WatcherInv, NEW c \in Callers, Call(c)
  PROVE  WatcherInv'
<1>1. CASE beginClientStart(c)
  <2>1. /\ clientGen' = clientGen + 1 /\ unexpected' = FALSE /\ watcher' = watcher
        /\ clientGen' \in Gens /\ clientGen \in Nat
        /\ \A d \in Callers : arg'[d] = clientGen'
    BY <1>1, MaxStartsAssumption
    DEF beginClientStart, Enter, clientVars, TypeOK, Gens, SingleCaller
  <2>2. watcher[clientGen'] = "none"
    BY <2>1 DEF WatcherInv
  <2>3. \A g \in Gens : g > clientGen' => watcher'[g] = "none"
    BY <2>1 DEF WatcherInv, Gens
  <2>4. QED
    BY <2>1, <2>2, <2>3 DEF WatcherInv, OnlyOwnExitIsUnexpected
<1>2. CASE ~beginClientStart(c)
  <2>1. UNCHANGED <<clientGen, unexpected, stream, watcher>>
    BY <1>2
    DEF Call, InitializeBegin, WaitForSyncBegin, WaitForSyncRefused,
        StopSonicdBegin, StopRefused, ForceStopSonicdBegin, HealSonicdBegin,
        CleanupBegin, Kill, clientVars, nodeVars
  <2>2. pc'[c] \notin Starting
    BY <1>2, LeavingIsNotStarting
    DEF Call, InitializeBegin, WaitForSyncBegin, WaitForSyncRefused,
        StopSonicdBegin, StopRefused, ForceStopSonicdBegin, HealSonicdBegin,
        CleanupBegin, Kill, callVars, Published, CanCall, Starting
  <2>3. QED
    BY <2>1, <2>2, WatcherFrame
<1>3. QED
  BY <1>1, <1>2

(* attachClient starts the watcher of the current generation. *)
LEMMA WatcherProceed ==
  ASSUME SingleCaller, TypeOK, WatcherInv, NEW c \in Callers, Proceed(c)
  PROVE  WatcherInv'
<1>1. CASE startExecBackground(c)
  <2>1. ~unexpected /\ arg[c] = clientGen /\ watcher[clientGen] = "none"
    BY <1>1 DEF startExecBackground, WatcherInv, Starting
  <2>2. UNCHANGED <<clientGen, unexpected, watcher, arg>>
    BY <1>1, LeavingIsNotStarting DEF startExecBackground, Succeed, Fail, Goto
  <2>3. QED
    BY <2>1, <2>2 DEF WatcherInv, OnlyOwnExitIsUnexpected, SingleCaller
<1>2. CASE attachClient(c)
  <2>1. ~unexpected /\ arg[c] = clientGen
    BY <1>2 DEF attachClient, WatcherInv, Starting
  <2>2. /\ UNCHANGED <<clientGen, unexpected>>
        /\ watcher' = [watcher EXCEPT ![clientGen] = "watching"]
    BY <1>2, <2>1 DEF attachClient
  <2>3. \A g \in Gens : g > clientGen => watcher'[g] = "none"
    BY <2>2 DEF WatcherInv, TypeOK, Gens
  <2>4. \A d \in Callers : pc'[d] \notin Starting
    BY <1>2, LeavingIsNotStarting DEF attachClient, SingleCaller
  <2>5. QED
    BY <2>1, <2>2, <2>3, <2>4 DEF WatcherInv, OnlyOwnExitIsUnexpected
<1>3. CASE startRequireNoClientRunning(c) \/ startWriteConfig(c)
  <2>1. UNCHANGED <<clientGen, unexpected, stream, watcher>>
    BY <1>3 DEF startRequireNoClientRunning, startWriteConfig, clientVars
  <2>2. pc[c] \in Starting /\ arg' = arg
    BY <1>3 DEF startRequireNoClientRunning, startWriteConfig, Starting, Fail, Goto
  <2>3. QED
    BY <2>1, <2>2, WatcherFrame
<1>4. CASE ~(startExecBackground(c) \/ attachClient(c)
             \/ startRequireNoClientRunning(c) \/ startWriteConfig(c))
  <2>1. UNCHANGED <<clientGen, unexpected, stream, watcher>>
    BY <1>4
    DEF Proceed, InitializeExec, WaitForSyncProbe, WaitForSyncFinish,
        stopSignalSonicd, stopWaitForSonicdExit, killSignalSonicd,
        killWaitForSonicdExit, healRequireNoClientRunning, healExec,
        StopContainer, Cleanup, clientVars, nodeVars
  <2>2. pc'[c] \notin Starting
    BY <1>4, LeavingIsNotStarting
    DEF Proceed, InitializeExec, WaitForSyncProbe, WaitForSyncFinish,
        stopSignalSonicd, stopWaitForSonicdExit, killSignalSonicd,
        killWaitForSonicdExit, healRequireNoClientRunning, healExec,
        StopContainer, Cleanup, Starting
  <2>3. QED
    BY <2>1, <2>2, WatcherFrame
<1>5. QED
  BY <1>1, <1>2, <1>3, <1>4

(* watchClientExit marks the node for its own generation only. *)
LEMMA WatcherProcess ==
  ASSUME TypeOK, WatcherInv, NEW g \in Gens, ProcessStep(g)
  PROVE  WatcherInv'
<1>1. CASE watchClientExit(g)
  <2>1. UNCHANGED <<clientGen, stream, pc, arg>> /\ watcher[g] = "watching"
    BY <1>1 DEF watchClientExit, callVars
  <2>2. \A h \in Gens : watcher[h] = "none" => watcher'[h] = "none"
    BY <1>1 DEF watchClientExit, TypeOK
  <2>3. \A c \in Callers : pc[c] \in Starting => clientGen # g
    BY <2>1 DEF WatcherInv
  <2>4. unexpected' => unexpected \/ (clientGen = g /\ stream[g] = "closed")
    BY <1>1 DEF watchClientExit, exitIsUnexpected
  <2>5. OnlyOwnExitIsUnexpected'
    BY <2>1, <2>4, MaxStartsAssumption DEF WatcherInv, OnlyOwnExitIsUnexpected, Gens
  <2>6. \A c \in Callers : pc'[c] \in Starting =>
          arg'[c] = clientGen' /\ ~unexpected' /\ watcher'[clientGen'] = "none"
    BY <1>1, <2>1, <2>3, <2>4 DEF WatcherInv, watchClientExit, TypeOK
  <2>7. QED
    BY <2>1, <2>2, <2>5, <2>6 DEF WatcherInv
<1>2. CASE StreamEnds(g)
  BY <1>2 DEF StreamEnds, WatcherInv, OnlyOwnExitIsUnexpected, TypeOK, nodeVars, callVars
<1>3. CASE ~watchClientExit(g) /\ ~StreamEnds(g)
  BY <1>3
  DEF ProcessStep, ClientCrashes, ClientShutsDown, ClientIsKilled, ClientExits,
      WatcherInv, OnlyOwnExitIsUnexpected, nodeVars, callVars
<1>4. QED
  BY <1>1, <1>2, <1>3

(* No watcher belongs to a generation that is still being started. *)
LEMMA WatcherInvariant ==
  ASSUME SingleCaller
  PROVE  Spec => []WatcherInv
<1>1. Init => WatcherInv
  BY DEF Init, WatcherInv, OnlyOwnExitIsUnexpected, Starting
<1>2. TypeOK /\ WatcherInv /\ [Next]_vars => WatcherInv'
  <2> SUFFICES ASSUME TypeOK, WatcherInv, [Next]_vars PROVE WatcherInv'
    OBVIOUS
  <2>1. CASE \E c \in Callers : Call(c) \/ Proceed(c)
    BY <2>1, WatcherCall, WatcherProceed
  <2>2. CASE \E g \in Gens : ProcessStep(g)
    BY <2>2, WatcherProcess
  <2>3. CASE UNCHANGED vars
    BY <2>3 DEF vars, nodeVars, clientVars, callVars, WatcherInv, OnlyOwnExitIsUnexpected
  <2>4. QED
    BY <2>1, <2>2, <2>3 DEF Next
<1>3. QED
  BY <1>1, <1>2, TypeCorrect, PTL DEF Spec

(* Driven by one goroutine, a node is only marked as having lost its       *)
(* client when the output of its current client has ended: the generation  *)
(* counter retires every earlier watcher (recordUnexpectedClientExit).     *)
THEOREM LateWatcherIsIgnored ==
  ASSUME SingleCaller
  PROVE  Spec => []OnlyOwnExitIsUnexpected
<1>1. WatcherInv => OnlyOwnExitIsUnexpected
  BY DEF WatcherInv
<1>2. QED
  BY <1>1, WatcherInvariant, PTL

-----------------------------------------------------------------------------
(* Why the first client alone runs unprotected: a client that was started  *)
(* is attached or about to be, so sonicd = 0 says that there was none.     *)
UnprotectedInv ==
  /\ UnprotectedOnce
  /\ \A g \in unprotected : g <= clientGen
  /\ sonicd = 0 => \/ \A g \in Gens : client[g] = "none"
                   \/ \E c \in Callers : pc[c] = "startAttach"
  /\ \A c \in Callers : pc[c] \in Starting => clientGen # 0
  /\ \A c \in Callers : pc[c] \in {"startScan", "startConfig"} =>
       arg[c] \notin unprotected
  /\ \A c \in Callers : pc[c] = "startExec" /\ arg[c] \in unprotected =>
       \A g \in Gens : client[g] = "none"

(* Signals, exits and the end of the container start no client. *)
LEMMA NoClientStarts ==
  ASSUME TypeOK
  PROVE  /\ client' = client => \A g \in Gens : client'[g] = "none" <=> client[g] = "none"
         /\ \A to \in {"interrupted", "killed"} : client' = Signalled(to) =>
              \A g \in Gens : client'[g] = "none" <=> client[g] = "none"
         /\ \A to : Halt(to) =>
              \A g \in Gens : client'[g] = "none" <=> client[g] = "none"
         /\ \A h \in Gens, dirty \in BOOLEAN :
              ClientExits(h, dirty) /\ client[h] # "none" =>
                \A g \in Gens : client'[g] = "none" <=> client[g] = "none"
  BY DEF TypeOK, Live, Signalled, Halt, ClientExits

(* What the steps have in common that start and configure no client. *)
LEMMA UnprotectedFrame ==
  ASSUME UnprotectedInv, UNCHANGED <<unprotected, clientGen, sonicd>>,
         \A g \in Gens : client'[g] = "none" <=> client[g] = "none",
         \A d \in Callers : pc'[d] \in Starting => pc'[d] = pc[d] /\ arg'[d] = arg[d],
         \A d \in Callers : pc[d] = "startAttach" => pc'[d] = "startAttach",
         TypeOK
  PROVE  UnprotectedInv'
<1>1. UnprotectedOnce'
  <2> SUFFICES ASSUME NEW g \in unprotected, client'[g] # "none", NEW h \in Gens, h < g
               PROVE  client'[h] = "none"
    BY DEF UnprotectedOnce
  <2>1. g \in Gens
    <3>1. g \in 0 .. MaxStarts /\ h \in 1 .. MaxStarts
      BY DEF TypeOK, Gens
    <3>2. g \in 1 .. MaxStarts
      BY <3>1, MaxStartsAssumption
    <3>3. QED
      BY <3>2 DEF Gens
  <2>2. QED
    BY <2>1 DEF UnprotectedInv, UnprotectedOnce
<1>2. QED
  BY <1>1 DEF UnprotectedInv, Starting

(* beginClientStart claims a generation that is not unprotected. *)
LEMMA UnprotectedCall ==
  ASSUME SingleCaller, TypeOK, UnprotectedInv, NEW c \in Callers, Call(c)
  PROVE  UnprotectedInv'
<1>1. pc[c] = "idle"
  BY DEF Call, InitializeBegin, beginClientStart, WaitForSyncBegin, WaitForSyncRefused,
         StopSonicdBegin, StopRefused, ForceStopSonicdBegin, HealSonicdBegin,
         CleanupBegin, Kill, Published, CanCall
<1>2. CASE beginClientStart(c)
  <2>1. /\ clientGen' = clientGen + 1 /\ clientGen \in Nat
        /\ UNCHANGED <<unprotected, sonicd, client>>
        /\ pc'[c] = "startScan" /\ arg'[c] = clientGen + 1
    BY <1>2 DEF beginClientStart, Enter, clientVars, TypeOK
  <2>2. \A g \in unprotected : g \in Nat /\ g <= clientGen
    BY MaxStartsAssumption DEF TypeOK, UnprotectedInv
  <2>3. \A g \in unprotected : g <= clientGen' /\ g # arg'[c]
    BY <2>1, <2>2
  <2>4. \A d \in Callers : d = c
    BY DEF SingleCaller
  <2>5. UnprotectedOnce'
    BY <2>1 DEF UnprotectedInv, UnprotectedOnce
  <2>6. sonicd' = 0 => \A g \in Gens : client'[g] = "none"
    BY <1>1, <2>1, <2>4 DEF UnprotectedInv
  <2>7. clientGen' # 0
    BY <2>1
  <2>8. QED
    BY <2>1, <2>3, <2>4, <2>5, <2>6, <2>7 DEF UnprotectedInv
<1>3. CASE ~beginClientStart(c)
  <2>1. UNCHANGED <<clientGen, sonicd, unprotected>>
    BY <1>3
    DEF Call, InitializeBegin, WaitForSyncBegin, WaitForSyncRefused,
        StopSonicdBegin, StopRefused, ForceStopSonicdBegin, HealSonicdBegin,
        CleanupBegin, Kill, clientVars, nodeVars
  <2>2. \A g \in Gens : client'[g] = "none" <=> client[g] = "none"
    BY <1>3, NoClientStarts
    DEF Call, InitializeBegin, WaitForSyncBegin, WaitForSyncRefused,
        StopSonicdBegin, StopRefused, ForceStopSonicdBegin, HealSonicdBegin,
        CleanupBegin, Kill, clientVars
  <2>3. pc'[c] \notin Starting
    BY <1>1, <1>3, LeavingIsNotStarting
    DEF Call, InitializeBegin, WaitForSyncBegin, WaitForSyncRefused,
        StopSonicdBegin, StopRefused, ForceStopSonicdBegin, HealSonicdBegin,
        CleanupBegin, Kill, callVars, Starting
  <2>4. \A d \in Callers : d = c
    BY DEF SingleCaller
  <2>5. QED
    BY <1>1, <2>1, <2>2, <2>3, <2>4, UnprotectedFrame DEF Starting
<1>4. QED
  BY <1>2, <1>3

(* Without orphans every client that is started is attached before the     *)
(* next one is configured.                                                 *)
LEMMA UnprotectedProceed ==
  ASSUME SingleCaller, "orphan" \notin Faults, TypeOK, WatcherInv, UnprotectedInv,
         NEW c \in Callers, Proceed(c)
  PROVE  UnprotectedInv'
<1>0. /\ \A d \in Callers : d = c
      /\ pc[c] \in Starting => arg[c] = clientGen /\ clientGen \in 0 .. MaxStarts
  BY DEF SingleCaller, WatcherInv, TypeOK
<1>1. CASE startRequireNoClientRunning(c)
  <2>1. /\ UNCHANGED <<clientGen, sonicd, unprotected, client, arg>>
        /\ pc[c] = "startScan" /\ (pc'[c] = "startConfig" \/ pc'[c] \notin Starting)
    BY <1>1, LeavingIsNotStarting DEF startRequireNoClientRunning, clientVars, Fail, Goto
  <2>2. UnprotectedOnce'
    BY <2>1 DEF UnprotectedInv, UnprotectedOnce
  <2>3. QED
    BY <1>0, <2>1, <2>2 DEF UnprotectedInv, Starting
<1>2. CASE startWriteConfig(c)
  <2>1. /\ UNCHANGED <<clientGen, sonicd, client, arg>>
        /\ pc[c] = "startConfig"
        /\ \/ /\ pc'[c] = "startExec"
              /\ unprotected' = IF bootstrapsNetwork THEN unprotected \cup {arg[c]}
                                                     ELSE unprotected
           \/ pc'[c] \notin Starting /\ unprotected' = unprotected
    BY <1>2, LeavingIsNotStarting DEF startWriteConfig, Fail, Goto
  <2>2. arg[c] = clientGen /\ arg[c] \notin unprotected /\ clientGen \in 0 .. MaxStarts
    BY <1>0, <2>1 DEF UnprotectedInv, Starting
  <2>3. sonicd = 0 => \A g \in Gens : client[g] = "none"
    BY <1>0, <2>1 DEF UnprotectedInv
  <2>4. UnprotectedOnce'
    <3> SUFFICES ASSUME NEW g \in unprotected', client[g] # "none", NEW h \in Gens, h < g
                 PROVE  client[h] = "none"
      BY <2>1 DEF UnprotectedOnce
    <3>1. CASE g \in unprotected
      BY <3>1 DEF UnprotectedInv, UnprotectedOnce
    <3>2. CASE g \notin unprotected
      BY <2>1, <2>3, <3>2 DEF bootstrapsNetwork
    <3>3. QED
      BY <3>1, <3>2
  <2>5. \A g \in unprotected' : g <= clientGen
    <3> TAKE g \in unprotected'
    <3>1. g \in unprotected \/ g = clientGen
      BY <2>1, <2>2
    <3>2. clientGen <= clientGen
      BY <2>2
    <3>3. QED
      BY <3>1, <3>2 DEF UnprotectedInv
  <2>6. pc'[c] = "startExec" /\ arg'[c] \in unprotected' =>
          \A g \in Gens : client'[g] = "none"
    BY <2>1, <2>2, <2>3 DEF bootstrapsNetwork, Starting
  <2>7. QED
    BY <1>0, <2>1, <2>3, <2>4, <2>5, <2>6 DEF UnprotectedInv, Starting
<1>3. CASE startExecBackground(c)
  <2>1. /\ UNCHANGED <<clientGen, sonicd, unprotected, arg>> /\ pc[c] = "startExec"
        /\ \/ client' = [client EXCEPT ![clientGen] = "up"] /\ pc'[c] = "startAttach"
           \/ client' = client /\ pc'[c] \notin Starting
    BY <1>0, <1>3, LeavingIsNotStarting DEF startExecBackground, Fail, Goto, Starting
  <2>2. arg[c] = clientGen /\ clientGen \in 0 .. MaxStarts
    BY <1>0, <2>1 DEF Starting
  <2>3. UnprotectedOnce'
    <3> SUFFICES ASSUME NEW g \in unprotected, client'[g] # "none", NEW h \in Gens, h < g
                 PROVE  client'[h] = "none"
      BY <2>1 DEF UnprotectedOnce
    <3>1. g \in 0 .. MaxStarts /\ g <= clientGen /\ h \in Gens /\ h \in Nat
      BY DEF UnprotectedInv, TypeOK, Gens
    <3>2. h # clientGen
      BY <2>2, <3>1
    <3>3. client'[h] = client[h]
      BY <2>1, <3>1, <3>2 DEF TypeOK
    <3>4. CASE g = clientGen
      BY <2>1, <2>2, <3>3, <3>4 DEF UnprotectedInv
    <3>5. CASE g # clientGen
      <4>1. g \in Gens
        BY <3>1, MaxStartsAssumption DEF Gens
      <4>2. client[g] # "none"
        BY <2>1, <3>5, <4>1 DEF TypeOK
      <4>3. QED
        BY <3>3, <4>2 DEF UnprotectedInv, UnprotectedOnce
    <3>6. QED
      BY <3>4, <3>5
  <2>4. sonicd = 0 => \/ client' = client /\ \A g \in Gens : client[g] = "none"
                      \/ pc'[c] = "startAttach"
    BY <1>0, <2>1 DEF UnprotectedInv
  <2>5. pc'[c] \notin {"startScan", "startConfig", "startExec"}
    BY <2>1 DEF Starting
  <2>6. QED
    BY <1>0, <2>1, <2>3, <2>4, <2>5 DEF UnprotectedInv, Starting
<1>4. CASE attachClient(c)
  <2>1. pc[c] = "startAttach" /\ arg[c] = clientGen /\ pc'[c] \notin Starting
    BY <1>0, <1>4, LeavingIsNotStarting DEF attachClient, Starting
  <2>2. UNCHANGED <<clientGen, unprotected, client>> /\ sonicd' = clientGen
    BY <1>4, <2>1 DEF attachClient
  <2>3. UnprotectedOnce'
    BY <2>2 DEF UnprotectedInv, UnprotectedOnce
  <2>4. sonicd' # 0
    BY <2>1, <2>2 DEF UnprotectedInv, Starting
  <2>5. QED
    BY <1>0, <2>1, <2>2, <2>3, <2>4 DEF UnprotectedInv, Starting
<1>5. CASE ~(startExecBackground(c) \/ attachClient(c)
             \/ startRequireNoClientRunning(c) \/ startWriteConfig(c))
  <2>1. UNCHANGED <<clientGen, sonicd, unprotected>>
    BY <1>5
    DEF Proceed, InitializeExec, WaitForSyncProbe, WaitForSyncFinish,
        stopSignalSonicd, stopWaitForSonicdExit, killSignalSonicd,
        killWaitForSonicdExit, healRequireNoClientRunning, healExec,
        StopContainer, Cleanup, clientVars, nodeVars
  <2>2. pc'[c] \notin Starting
    BY <1>5, LeavingIsNotStarting
    DEF Proceed, InitializeExec, WaitForSyncProbe, WaitForSyncFinish,
        stopSignalSonicd, stopWaitForSonicdExit, killSignalSonicd,
        killWaitForSonicdExit, healRequireNoClientRunning, healExec,
        StopContainer, Cleanup, Starting
  <2>3. pc[c] # "startAttach"
    BY <1>5
    DEF Proceed, InitializeExec, WaitForSyncProbe, WaitForSyncFinish,
        stopSignalSonicd, stopWaitForSonicdExit, killSignalSonicd,
        killWaitForSonicdExit, healRequireNoClientRunning, healExec,
        StopContainer, Cleanup
  <2>4. \A g \in Gens : client'[g] = "none" <=> client[g] = "none"
    BY <1>5, NoClientStarts
    DEF Proceed, InitializeExec, WaitForSyncProbe, WaitForSyncFinish,
        stopSignalSonicd, stopWaitForSonicdExit, killSignalSonicd,
        killWaitForSonicdExit, healRequireNoClientRunning, healExec,
        StopContainer, Cleanup, clientVars
  <2>5. QED
    BY <1>0, <2>1, <2>2, <2>3, <2>4, UnprotectedFrame DEF Starting
<1>6. QED
  BY <1>1, <1>2, <1>3, <1>4, <1>5

(* Clients that exit preserve UnprotectedInv. *)
LEMMA UnprotectedProcess ==
  ASSUME TypeOK, UnprotectedInv, NEW g \in Gens, ProcessStep(g)
  PROVE  UnprotectedInv'
<1>1. \A h \in Gens : client'[h] = "none" <=> client[h] = "none"
  BY NoClientStarts
  DEF ProcessStep, ClientCrashes, ClientShutsDown, ClientIsKilled, StreamEnds,
      watchClientExit
<1>2. UNCHANGED <<pc, arg, unprotected, clientGen, sonicd>>
  BY DEF ProcessStep, ClientCrashes, ClientShutsDown, ClientIsKilled, ClientExits,
         StreamEnds, watchClientExit, callVars, nodeVars
<1>3. QED
  BY <1>1, <1>2, UnprotectedFrame

(* Driven by one goroutine, and as long as a failed ExecBackground leaves  *)
(* no client behind, only the first client of the bootstrapping node ever  *)
(* runs without doublesign protection (bootstrapsNetwork, attachClient).   *)
THEOREM FirstClientIsUnprotected ==
  ASSUME SingleCaller, "orphan" \notin Faults
  PROVE  Spec => []UnprotectedOnce
<1>1. Init => UnprotectedInv
  BY DEF Init, UnprotectedInv, UnprotectedOnce, Starting
<1>2. TypeOK /\ WatcherInv /\ UnprotectedInv /\ [Next]_vars => UnprotectedInv'
  <2> SUFFICES ASSUME TypeOK, WatcherInv, UnprotectedInv, [Next]_vars
               PROVE  UnprotectedInv'
    OBVIOUS
  <2>1. CASE \E c \in Callers : Call(c) \/ Proceed(c)
    BY <2>1, UnprotectedCall, UnprotectedProceed
  <2>2. CASE \E g \in Gens : ProcessStep(g)
    BY <2>2, UnprotectedProcess
  <2>3. CASE UNCHANGED vars
    BY <2>3, UnprotectedFrame DEF vars, nodeVars, clientVars, callVars
  <2>4. QED
    BY <2>1, <2>2, <2>3 DEF Next
<1>3. UnprotectedInv => UnprotectedOnce
  BY DEF UnprotectedInv
<1>4. QED
  BY <1>1, <1>2, <1>3, TypeCorrect, WatcherInvariant, PTL DEF Spec

-----------------------------------------------------------------------------
(* Why no client starts on a dirty database. What may make it dirty is a   *)
(* client that runs, or that was killed; nodes that are ready, being       *)
(* started or waiting for an interrupted client have none.                 *)
Harmless == \A g \in Gens : client[g] \notin {"up", "killed"}
Usable == {"clean", "unchecked"}
NoneStarted == \A g \in Gens : client[g] = "none"

DbInv ==
  /\ ~NoClientRunning => db \in Usable
  /\ \A g \in Gens : client[g] = "killed" => state \in {"killed", "healing"}
  /\ state \in {"uninitialized", "initializing"} => NoneStarted /\ db # "dirty"
  /\ state = "ready" => db \in Usable /\ Harmless
  /\ \A c \in Callers : pc[c] \in {"startScan", "startConfig", "startExec", "stopWait"} =>
       db \in Usable /\ Harmless
  /\ \A c \in Callers : pc[c] = "initExec" => NoneStarted /\ db # "dirty"

CleanInv ==
  /\ \A c \in Callers : pc[c] \in Starting => state = "syncing"
  /\ \A c \in Callers : pc[c] = "stopSignal" => state = "stopping"
  /\ \A c \in Callers : pc[c] = "killSignal" => state = "killed"
  /\ container = "up" => DbInv

(* Where a caller that ends an action is. *)
Leaving == {"idle", "containerStop", "cleanup"}

(* An action that succeeds or fails ends there. *)
LEMMA LeavingIs ==
  ASSUME TypeOK, NEW c \in Callers, Succeed(c) \/ Fail(c)
  PROVE  pc'[c] \in Leaving
  BY DEF TypeOK, Succeed, Fail, Goto, Leaving

(* The places of a caller that CleanInv speaks about. *)
Busy == {"initExec", "startScan", "startConfig", "startExec", "startAttach",
         "stopSignal", "stopWait", "killSignal"}

(* A step that leaves the clients and the database alone, or takes the     *)
(* container down, and ends in none of these places.                       *)
LEMMA CleanFrame ==
  ASSUME SingleCaller, CleanInv, NEW c \in Callers, pc'[c] \notin Busy,
         container' = "up" => container = "up" /\ UNCHANGED <<client, db>>,
         \/ state' = state
         \/ state' = "running" /\ state \in {"syncing", "stopping"}
         \/ state' \in {"killed", "healing"}
  PROVE  CleanInv'
<1>1. \A d \in Callers : d = c
  BY DEF SingleCaller
<1>2. container' = "up" => DbInv'
  <2> SUFFICES ASSUME container' = "up" PROVE DbInv'
    OBVIOUS
  <2>1. DbInv /\ UNCHANGED <<client, db>>
    BY DEF CleanInv
  <2>2. /\ (NoClientRunning' <=> NoClientRunning) /\ (Harmless' <=> Harmless)
        /\ (NoneStarted' <=> NoneStarted)
    BY <2>1 DEF NoClientRunning, Harmless, NoneStarted, Live
  <2>3. \A g \in Gens : client'[g] = "killed" => state' \in {"killed", "healing"}
    BY <2>1 DEF DbInv
  <2>4. state' \in {"uninitialized", "initializing", "ready"} => state' = state
    OBVIOUS
  <2>5. QED
    BY <1>1, <2>1, <2>2, <2>3, <2>4 DEF DbInv, Busy
<1>3. QED
  BY <1>1, <1>2 DEF CleanInv, Busy, Starting

(* Calls: the claimed state tells what the clients may do. *)
LEMMA CleanCall ==
  ASSUME SingleCaller, TypeOK, CleanInv, NEW c \in Callers, Call(c)
  PROVE  CleanInv'
<1>0. \A d \in Callers : d = c
  BY DEF SingleCaller
<1>1. CASE InitializeBegin(c)
  <2>1. /\ state = "uninitialized" /\ state' = "initializing" /\ pc'[c] = "initExec"
        /\ UNCHANGED <<client, db, container>>
    BY <1>1, LeavingIsNotStarting DEF InitializeBegin, clientVars, containerVars
  <2>2. container = "up" => DbInv'
    BY <1>0, <2>1 DEF CleanInv, DbInv, NoClientRunning, Live, NoneStarted, Harmless
  <2>3. QED
    BY <1>0, <2>1, <2>2 DEF CleanInv, Starting
<1>2. CASE beginClientStart(c)
  <2>1. /\ state = "ready" /\ state' = "syncing" /\ pc'[c] = "startScan"
        /\ UNCHANGED <<client, db, container>>
    BY <1>2, LeavingIsNotStarting DEF beginClientStart, clientVars, containerVars
  <2>2. container = "up" => DbInv'
    BY <1>0, <2>1 DEF CleanInv, DbInv, NoClientRunning, Live, NoneStarted, Harmless
  <2>3. QED
    BY <1>0, <2>1, <2>2 DEF CleanInv, Starting
<1>3. CASE StopSonicdBegin(c)
  <2>1. /\ state = "running" /\ state' = "stopping" /\ pc'[c] = "stopSignal"
        /\ UNCHANGED <<client, db, container>>
    BY <1>3, LeavingIsNotStarting DEF StopSonicdBegin, clientVars, containerVars
  <2>2. container = "up" => DbInv'
    BY <1>0, <2>1 DEF CleanInv, DbInv, NoClientRunning, Live, NoneStarted, Harmless
  <2>3. QED
    BY <1>0, <2>1, <2>2 DEF CleanInv, Starting
<1>4. CASE ForceStopSonicdBegin(c)
  <2>1. /\ state' = "killed" /\ pc'[c] = "killSignal"
        /\ UNCHANGED <<client, db, container>>
    BY <1>4, LeavingIsNotStarting DEF ForceStopSonicdBegin, clientVars, containerVars
  <2>2. container = "up" => DbInv'
    BY <1>0, <2>1 DEF CleanInv, DbInv, NoClientRunning, Live, NoneStarted, Harmless
  <2>3. QED
    BY <1>0, <2>1, <2>2 DEF CleanInv, Starting
<1>5. CASE HealSonicdBegin(c)
  <2>1. state' = "healing" /\ pc'[c] = "healScan" /\ UNCHANGED <<client, db, container>>
    BY <1>5, LeavingIsNotStarting DEF HealSonicdBegin, clientVars, containerVars
  <2>2. QED
    BY <2>1, CleanFrame DEF Busy
<1>6. CASE WaitForSyncBegin(c) \/ WaitForSyncRefused(c) \/ StopRefused(c) \/ CleanupBegin(c)
  <2>1. UNCHANGED <<state, client, db, container>>
    BY <1>6 DEF WaitForSyncBegin, WaitForSyncRefused, StopRefused, CleanupBegin,
                nodeVars, clientVars, containerVars
  <2>2. pc'[c] \in {"waitSync", "cleanup", "containerStop"}
    BY <1>6, LeavingIsNotStarting
    DEF WaitForSyncBegin, WaitForSyncRefused, StopRefused, CleanupBegin
  <2>3. QED
    BY <2>1, <2>2, CleanFrame DEF Busy
<1>7. CASE Kill(c)
  <2>1. container' = "stopped" /\ state' = state /\ pc'[c] = "idle"
    BY <1>7 DEF Kill, Halt, nodeVars, callVars, Published, CanCall
  <2>2. QED
    BY <2>1, CleanFrame DEF Busy
<1>8. QED
  BY <1>1, <1>2, <1>3, <1>4, <1>5, <1>6, <1>7 DEF Call

(* A flushed database and no client that could make it dirty: whatever the *)
(* step did otherwise.                                                     *)
LEMMA CleanAndHarmless ==
  ASSUME SingleCaller, NEW c \in Callers,
         container' = "up" => db' \in Usable /\ Harmless',
         state' \notin {"uninitialized", "initializing"} /\ pc'[c] # "initExec",
         pc'[c] \in Starting => state' = "syncing",
         pc'[c] \notin {"stopSignal", "killSignal"}
  PROVE  CleanInv'
<1>1. \A d \in Callers : d = c
  BY DEF SingleCaller
<1>2. container' = "up" => DbInv'
  BY <1>1 DEF DbInv, Harmless
<1>3. QED
  BY <1>1, <1>2 DEF CleanInv

(* Signals, in the states in which the actions that send them leave the node. *)
LEMMA CleanSignal ==
  ASSUME SingleCaller, TypeOK, CleanInv, NEW c \in Callers, pc'[c] \notin Busy,
         NEW to \in {"interrupted", "killed"}, client' = Signalled(to),
         UNCHANGED <<db, container>>,
         \/ to = "interrupted" /\ state' = "running" /\ state = "stopping"
         \/ state' = "killed"
  PROVE  CleanInv'
<1>1. \A d \in Callers : d = c
  BY DEF SingleCaller
<1>2. container' = "up" => DbInv'
  <2> SUFFICES ASSUME container = "up" PROVE DbInv'
    OBVIOUS
  <2>1. DbInv
    BY DEF CleanInv
  <2>2. NoClientRunning => NoClientRunning'
    BY FewerClients DEF NoClientRunning
  <2>3. \A g \in Gens : client'[g] = "killed" => state' = "killed"
    BY <2>1 DEF Signalled, DbInv
  <2>4. QED
    BY <1>1, <2>1, <2>2, <2>3 DEF DbInv, Busy
<1>3. QED
  BY <1>1, <1>2 DEF CleanInv, Busy, Starting

(* A failed start leaves the node ready as it was, a stop only once it was *)
(* the interrupted client that is gone, a heal with a healed database.     *)
LEMMA CleanProceed ==
  ASSUME SingleCaller, "orphan" \notin Faults, TypeOK, DataDirInv, CleanInv,
         NEW c \in Callers, Proceed(c)
  PROVE  CleanInv'
<1>0. \A d \in Callers : d = c
  BY DEF SingleCaller
<1>1. CASE InitializeExec(c)
  <2>1. /\ pc[c] = "initExec" /\ pc'[c] \in Leaving /\ UNCHANGED <<client, container>>
        /\ state' \in {state, "ready", "uninitialized"}
        /\ db' = db \/ db' \in Usable \cup {"empty"}
        /\ state' = "uninitialized" \/ db' \in Usable \/ (db = "dirty" /\ db' = db)
    BY <1>1, LeavingIs DEF InitializeExec, needsInit, containerVars, TypeOK, Usable
  <2>2. container = "up" => NoneStarted /\ DbInv /\ db # "dirty"
    BY <2>1 DEF CleanInv, DbInv
  <2>3. container = "up" => NoneStarted' /\ NoClientRunning' /\ Harmless'
    BY <2>1, <2>2 DEF NoneStarted, NoClientRunning, Harmless, Live
  <2>4. container = "up" => DbInv'
    BY <1>0, <2>1, <2>2, <2>3 DEF DbInv, Leaving, Harmless, Usable
  <2>5. QED
    BY <1>0, <2>1, <2>4 DEF CleanInv, Leaving, Starting
<1>2. CASE startRequireNoClientRunning(c) \/ startWriteConfig(c)
  <2>1. /\ pc[c] \in {"startScan", "startConfig"} /\ UNCHANGED <<client, container, db>>
        /\ \/ pc'[c] \in {"startConfig", "startExec"} /\ state' = state
           \/ pc'[c] \in Leaving /\ state' = "ready"
    BY <1>2, LeavingIs, LeavingIsNotStarting
    DEF startRequireNoClientRunning, startWriteConfig, clientVars, containerVars
  <2>2. state = "syncing"
    BY <2>1 DEF CleanInv, Starting
  <2>3. container = "up" => db \in Usable /\ Harmless
    BY <2>1 DEF CleanInv, DbInv
  <2>4. container' = "up" => db' \in Usable /\ Harmless'
    BY <2>1, <2>3 DEF Harmless
  <2>5. QED
    BY <2>1, <2>2, <2>4, CleanAndHarmless DEF Leaving, Starting
<1>3. CASE startExecBackground(c)
  <2>1. /\ pc[c] = "startExec" /\ UNCHANGED <<container, db>>
        /\ \/ /\ pc'[c] = "startAttach" /\ state' = state
              /\ client' = [client EXCEPT ![arg[c]] = "up"]
           \/ pc'[c] \in Leaving /\ state' = "ready" /\ client' = client
    BY <1>3, LeavingIs, LeavingIsNotStarting DEF startExecBackground, containerVars
  <2>2. state = "syncing"
    BY <2>1 DEF CleanInv, Starting
  <2>3. container = "up" => db \in Usable /\ Harmless
    BY <2>1 DEF CleanInv, DbInv
  <2>4. CASE client' = client
    <3>1. container' = "up" => db' \in Usable /\ Harmless'
      BY <2>1, <2>3, <2>4 DEF Harmless
    <3>2. QED
      BY <2>1, <2>2, <3>1, CleanAndHarmless DEF Leaving, Starting
  <2>5. CASE /\ pc'[c] = "startAttach" /\ state' = state
             /\ client' = [client EXCEPT ![arg[c]] = "up"]
    <3>1. Harmless => \A g \in Gens : client'[g] # "killed"
      BY <2>5 DEF Harmless, TypeOK
    <3>2. container' = "up" => DbInv'
      BY <1>0, <2>1, <2>2, <2>3, <2>5, <3>1 DEF DbInv
    <3>3. QED
      BY <1>0, <2>2, <2>5, <3>2 DEF CleanInv
  <2>6. QED
    BY <2>1, <2>4, <2>5
<1>4. CASE attachClient(c) \/ WaitForSyncProbe(c) \/ killWaitForSonicdExit(c)
  <2>1. UNCHANGED <<state, client, db, container>>
    BY <1>4 DEF attachClient, WaitForSyncProbe, killWaitForSonicdExit, nodeVars,
                clientVars, containerVars
  <2>2. pc'[c] \in Leaving \cup {"syncDone"}
    BY <1>4, LeavingIs, LeavingIsNotStarting
    DEF attachClient, WaitForSyncProbe, killWaitForSonicdExit
  <2>3. QED
    BY <2>1, <2>2, CleanFrame DEF Busy, Leaving
<1>5. CASE WaitForSyncFinish(c)
  <2>1. UNCHANGED <<client, db, container>>
    BY <1>5 DEF WaitForSyncFinish, clientVars, containerVars
  <2>2. state' = state \/ (state' = "running" /\ state \in {"syncing", "stopping"})
    BY <1>5 DEF WaitForSyncFinish
  <2>3. pc'[c] \in Leaving
    <3>1. CASE Fail(c)
      BY <3>1, LeavingIs
    <3>2. CASE pc' = [pc EXCEPT ![c] = "idle"]
      BY <3>2, LeavingIsNotStarting DEF Leaving
    <3>3. QED
      BY <1>5, <3>1, <3>2 DEF WaitForSyncFinish
  <2>4. QED
    BY <2>1, <2>2, <2>3, CleanFrame DEF Busy, Leaving
<1>6. CASE stopSignalSonicd(c)
  <2>1. pc[c] = "stopSignal" /\ UNCHANGED <<container, db>>
    BY <1>6 DEF stopSignalSonicd, containerVars
  <2>2. state = "stopping"
    BY <2>1 DEF CleanInv
  <2>3. CASE /\ ~NoClientRunning /\ client' = Signalled("interrupted")
             /\ state' = state /\ pc' = [pc EXCEPT ![c] = "stopWait"]
    <3>1. pc'[c] = "stopWait"
      BY <2>3, LeavingIsNotStarting
    <3>2. container = "up" => db \in Usable /\ \A g \in Gens : client[g] # "killed"
      BY <2>2, <2>3 DEF CleanInv, DbInv
    <3>3. container = "up" => Harmless'
      BY <2>3, <3>2 DEF Harmless, Signalled, Live
    <3>4. QED
      BY <2>1, <2>2, <2>3, <3>1, <3>2, <3>3, CleanAndHarmless DEF Starting
  <2>4. CASE state' = "killed" /\ client' = client /\ Fail(c)
    <3>1. pc'[c] \in Leaving
      BY <2>4, LeavingIs
    <3>2. QED
      BY <2>1, <2>4, <3>1, CleanFrame DEF Busy, Leaving
  <2>5. CASE state' = "running" /\ client' = client /\ Fail(c)
    <3>1. pc'[c] \in Leaving
      BY <2>5, LeavingIs
    <3>2. QED
      BY <2>1, <2>2, <2>5, <3>1, CleanFrame DEF Busy, Leaving
  <2>6. CASE state' = "running" /\ client' = Signalled("interrupted") /\ Fail(c)
    <3>1. pc'[c] \in Leaving
      BY <2>6, LeavingIs
    <3>2. QED
      BY <2>1, <2>2, <2>6, <3>1, CleanSignal DEF Busy, Leaving
  <2>7. QED
    BY <1>6, <2>3, <2>4, <2>5, <2>6 DEF stopSignalSonicd, stateWithoutClient
<1>7. CASE stopWaitForSonicdExit(c)
  <2>1. pc[c] = "stopWait" /\ pc'[c] \in Leaving /\ UNCHANGED <<client, container, db>>
        /\ (state' = state \/ state' = "ready")
    BY <1>7, LeavingIs DEF stopWaitForSonicdExit, clientVars, containerVars
  <2>2. container = "up" => db \in Usable /\ Harmless
    BY <2>1 DEF CleanInv, DbInv
  <2>3. container' = "up" => db' \in Usable /\ Harmless'
    BY <2>1, <2>2 DEF Harmless
  <2>4. CASE state' = state
    BY <2>1, <2>4, CleanFrame DEF Busy, Leaving
  <2>5. CASE state' = "ready"
    BY <2>1, <2>3, <2>5, CleanAndHarmless DEF Leaving, Starting
  <2>6. QED
    BY <2>1, <2>4, <2>5
<1>8. CASE killSignalSonicd(c)
  <2>1. pc[c] = "killSignal" /\ UNCHANGED <<state, container, db>>
    BY <1>8 DEF killSignalSonicd, nodeVars, containerVars
  <2>2. state' = "killed"
    BY <2>1 DEF CleanInv
  <2>3. pc'[c] \in Leaving \cup {"killWait"}
    BY <1>8, LeavingIs, LeavingIsNotStarting DEF killSignalSonicd
  <2>4. client' = client \/ client' = Signalled("killed")
    BY <1>8 DEF killSignalSonicd
  <2>5. pc'[c] \notin Busy
    BY <2>3 DEF Busy, Leaving
  <2>6. QED
    BY <2>1, <2>2, <2>4, <2>5, CleanSignal, CleanFrame
<1>9. CASE healRequireNoClientRunning(c)
  <2>1. UNCHANGED <<client, db, container>> /\ (state' = state \/ state' = "killed")
    BY <1>9 DEF healRequireNoClientRunning, clientVars, containerVars
  <2>2. pc'[c] \in Leaving \cup {"healExec"}
    BY <1>9, LeavingIs, LeavingIsNotStarting DEF healRequireNoClientRunning
  <2>3. QED
    BY <2>1, <2>2, CleanFrame DEF Busy, Leaving
<1>10. CASE healExec(c)
  <2>1. /\ pc[c] = "healExec" /\ pc'[c] \in Leaving /\ UNCHANGED <<client, container>>
        /\ \/ db' = "clean" /\ state' \in {state, "ready"}
           \/ state' = "killed"
    BY <1>10, LeavingIs DEF healExec, containerVars
  <2>2. NoClientRunning
    BY <2>1 DEF DataDirInv, Quiet
  <2>3. NoClientRunning' /\ Harmless' /\ (NoneStarted => NoneStarted')
    BY <2>1, <2>2 DEF NoClientRunning, Live, Harmless, NoneStarted
  <2>4. container' = "up" => DbInv'
    BY <1>0, <2>1, <2>3 DEF CleanInv, DbInv, Leaving, Harmless, Usable
  <2>5. QED
    BY <1>0, <2>1, <2>4 DEF CleanInv, Leaving, Starting
<1>11. CASE StopContainer(c) \/ Cleanup(c)
  <2>1. state' = state
    BY <1>11 DEF StopContainer, Cleanup, nodeVars
  <2>2. pc'[c] = "idle"
    BY <1>11, LeavingIsNotStarting DEF StopContainer, Cleanup
  <2>3. container' = "up" => container = "up" /\ UNCHANGED <<client, db>>
    BY <1>11 DEF StopContainer, Cleanup, Halt, ContainerRemove
  <2>4. QED
    BY <2>1, <2>2, <2>3, CleanFrame DEF Busy
<1>12. QED
  BY <1>1, <1>2, <1>3, <1>4, <1>5, <1>6, <1>7, <1>8, <1>9, <1>10, <1>11 DEF Proceed

(* The only client that runs is the one that can make the database dirty,  *)
(* and it does so by ceasing to run.                                       *)
LEMMA CleanProcess ==
  ASSUME "dirtyStop" \notin Faults, TypeOK, DataDirInv, WatcherInv, CleanInv,
         NEW g \in Gens, ProcessStep(g)
  PROVE  CleanInv'
<1>1. CASE ClientCrashes(g) \/ ClientIsKilled(g)
  <2>1. /\ client[g] \in {"up", "killed"} /\ client' = [client EXCEPT ![g] = "gone"]
        /\ UNCHANGED <<state, container, pc>>
    BY <1>1 DEF ClientCrashes, ClientIsKilled, ClientExits, nodeVars, containerVars, callVars
  <2>2. NoClientRunning'
    BY <2>1 DEF DataDirInv, NoClientRunning, Live, TypeOK
  <2>3. ~Harmless /\ ~NoneStarted
    BY <2>1 DEF Harmless, NoneStarted
  <2>4. \A h \in Gens : client'[h] # "killed"
    BY <2>2 DEF NoClientRunning, Live
  <2>5. container = "up" => DbInv'
    BY <2>1, <2>2, <2>3, <2>4 DEF CleanInv, DbInv
  <2>6. QED
    BY <2>1, <2>5 DEF CleanInv
<1>2. CASE ClientShutsDown(g)
  <2>1. /\ client' = [client EXCEPT ![g] = "gone"] /\ client[g] = "interrupted"
        /\ UNCHANGED <<state, container, pc, db>>
    BY <1>2 DEF ClientShutsDown, ClientExits, nodeVars, containerVars, callVars
  <2>2. /\ NoClientRunning => NoClientRunning'
        /\ Harmless => Harmless'
        /\ ~NoneStarted
        /\ \A h \in Gens : client'[h] = "killed" => client[h] = "killed"
    BY <2>1 DEF NoClientRunning, Harmless, NoneStarted, Live, TypeOK
  <2>3. container = "up" => DbInv'
    BY <2>1, <2>2 DEF CleanInv, DbInv
  <2>4. QED
    BY <2>1, <2>3 DEF CleanInv
<1>3. CASE StreamEnds(g) \/ watchClientExit(g)
  <2>1. UNCHANGED <<client, container, pc, db>>
    BY <1>3 DEF StreamEnds, watchClientExit, containerVars, callVars
  <2>2. \/ state' = state
        \/ /\ state' = "killed" /\ state \in {"syncing", "running"}
           /\ watcher[clientGen] = "watching"
    BY <1>3 DEF StreamEnds, watchClientExit, exitIsUnexpected, nodeVars
  <2>3. \A c \in Callers : pc[c] \in Starting => state' = "syncing"
    BY <2>2 DEF CleanInv, WatcherInv
  <2>4. /\ (NoClientRunning' <=> NoClientRunning) /\ (Harmless' <=> Harmless)
        /\ (NoneStarted' <=> NoneStarted)
    BY <2>1 DEF NoClientRunning, Harmless, NoneStarted, Live
  <2>5. container = "up" => DbInv'
    BY <2>1, <2>2, <2>4 DEF CleanInv, DbInv
  <2>6. QED
    BY <2>1, <2>2, <2>3, <2>5 DEF CleanInv
<1>4. QED
  BY <1>1, <1>2, <1>3 DEF ProcessStep

(* Only startExecBackground starts a client. *)
LEMMA ClientStartsOnce ==
  ASSUME TypeOK, [Next]_vars, NEW g \in Gens, client[g] = "none", client'[g] = "up"
  PROVE  \E c \in Callers : pc[c] = "startExec" /\ container = "up"
<1>1. ASSUME \A h \in Gens : client'[h] = "none" <=> client[h] = "none"
      PROVE  FALSE
  BY <1>1
<1>2. CASE \E c \in Callers : startExecBackground(c)
  BY <1>2, <1>1 DEF startExecBackground, ExecWorks
<1>3. ASSUME NEW c \in Callers, Call(c) PROVE FALSE
  BY <1>1, <1>3, NoClientStarts
  DEF Call, InitializeBegin, beginClientStart, WaitForSyncBegin, WaitForSyncRefused,
      StopSonicdBegin, StopRefused, ForceStopSonicdBegin, HealSonicdBegin,
      CleanupBegin, Kill, clientVars
<1>4. ASSUME NEW c \in Callers, Proceed(c), ~startExecBackground(c) PROVE FALSE
  BY <1>1, <1>4, NoClientStarts
  DEF Proceed, InitializeExec, startRequireNoClientRunning, startWriteConfig,
      attachClient, WaitForSyncProbe, WaitForSyncFinish, stopSignalSonicd,
      stopWaitForSonicdExit, killSignalSonicd, killWaitForSonicdExit,
      healRequireNoClientRunning, healExec, StopContainer, Cleanup, clientVars
<1>5. ASSUME NEW h \in Gens, ProcessStep(h) PROVE FALSE
  BY <1>1, <1>5, NoClientStarts
  DEF ProcessStep, ClientCrashes, ClientShutsDown, ClientIsKilled, StreamEnds,
      watchClientExit
<1>6. CASE UNCHANGED vars
  BY <1>1, <1>6 DEF vars, clientVars
<1>7. QED
  BY <1>2, <1>3, <1>4, <1>5, <1>6 DEF Next

(* Driven by one goroutine, and as long as a client that is interrupted    *)
(* flushes its database and a failed ExecBackground leaves no client       *)
(* behind, no client starts on a database that an earlier one left         *)
(* unflushed: whatever is killed, crashes or loses its stream, HealSonicd  *)
(* comes first (startSonicd). This holds on a data volume too, apart from  *)
(* what the volume held before the node (Initialize).                      *)
THEOREM ClientsStartClean ==
  ASSUME SingleCaller, "orphan" \notin Faults, "dirtyStop" \notin Faults
  PROVE  Spec => NoStartOnDirtyDb
<1>1. Init => CleanInv
  BY DataDirsAssumption
  DEF Init, CleanInv, DbInv, NoneStarted, NoClientRunning, Live, Starting
<1>2. TypeOK /\ DataDirInv /\ WatcherInv /\ CleanInv /\ [Next]_vars => CleanInv'
  <2> SUFFICES ASSUME TypeOK, DataDirInv, WatcherInv, CleanInv, [Next]_vars
               PROVE  CleanInv'
    OBVIOUS
  <2>1. CASE \E c \in Callers : Call(c) \/ Proceed(c)
    BY <2>1, CleanCall, CleanProceed
  <2>2. CASE \E g \in Gens : ProcessStep(g)
    BY <2>2, CleanProcess
  <2>3. CASE UNCHANGED vars
    BY <2>3 DEF vars, nodeVars, clientVars, containerVars, callVars, CleanInv, DbInv,
                NoClientRunning, Live, Harmless, NoneStarted
  <2>4. QED
    BY <2>1, <2>2, <2>3 DEF Next
<1>3. TypeOK /\ CleanInv /\ [Next]_vars =>
        [ClientStarts => db \in {"clean", "unchecked"}]_vars
  <2> SUFFICES ASSUME TypeOK, CleanInv, [Next]_vars, ClientStarts
               PROVE  db \in Usable
    BY DEF Usable
  <2>1. \E c \in Callers : pc[c] = "startExec" /\ container = "up"
    BY ClientStartsOnce DEF ClientStarts
  <2>2. QED
    BY <2>1 DEF CleanInv, DbInv
<1>4. QED
  BY <1>1, <1>2, <1>3, TypeCorrect, DataDirInvariant, WatcherInvariant, PTL
  DEF Spec, NoStartOnDirtyDb

==============================================================================
