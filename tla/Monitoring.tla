----------------------------- MODULE Monitoring -----------------------------
(***************************************************************************)
(* The monitoring of norma: the log broadcaster of a container             *)
(* (driver/docker/logs.go), the node log dispatcher with its block series  *)
(* (driver/monitoring/node_log_provider.go, logreader.go, node and network *)
(* block_metrics.go), the Prometheus dispatcher (prom_log_provider.go),    *)
(* the periodic sources (utils/periodic_source.go, node/node_source.go)    *)
(* and Monitor.Shutdown (monitor.go), driven by the callbacks that         *)
(* LocalNetwork makes while the executor starts, kills, restarts and stops *)
(* nodes.                                                                  *)
(*                                                                         *)
(* A log line is the height of the block it reports: other lines carry     *)
(* nothing to the series.  A node's label outlives its containers: the     *)
(* g-th container of a node is its g-th object.                            *)
(***************************************************************************)
EXTENDS Integers, Sequences, FiniteSets, SequencesExt, FiniteSetsExt

CONSTANTS
    Nodes,          \* the labels of the nodes
    MaxHeight,      \* bound: the highest block of the chain
    MaxEvents,      \* bound: callbacks the network makes
    MaxTicks,       \* bound: ticks of the Prometheus ticker
    MaxSamples,     \* bound: ticks of the periodic sources
    MaxFaults,      \* bound: streams, addresses, logs or metrics that fail
    logReplayLines, logSubscriberBuffer,    \* 150 and 8192 in logs.go
    PromBuffer      \* 100 in prom_log_provider.go

ASSUME MonitoringAssumption ==
    /\ {MaxHeight, MaxEvents, MaxTicks, MaxSamples, MaxFaults} \subseteq Nat
    /\ {logReplayLines, logSubscriberBuffer, PromBuffer} \subseteq Nat \ {0}
    /\ logReplayLines <= logSubscriberBuffer

VARIABLES
    node,       \* the network's view: phase, the object, the client's head
    logs,       \* the broadcaster of a node's current object
    reader,     \* the dispatcher's readers of a node, in the order they attach
    state,      \* NodeLogDispatcher.nodes: known, and the object consumed
    syncing,    \* syncingTracker.syncingNodes
    series,     \* the block series of each node
    netSeries,  \* the block series of the network
    lost,       \* heights that a full or trimmed buffer dropped (history)
    skipped,    \* heights below the head of a used data volume (history)
    call,       \* the callback under way, with the listeners still to serve
    prom,       \* PrometheusLogDispatcher: channels, readers, ticker
    subject,    \* PeriodicDataSource: the samplers of each node
    monitor,    \* how far Monitor.Shutdown has come
    panicked,   \* the process died of a panic
    spent       \* the bounds used up so far

vars == <<node, logs, reader, state, syncing, series, netSeries, lost, skipped,
          call, prom, subject, monitor, panicked, spent>>

logVars    == <<logs, reader, state, syncing, series, netSeries, lost, skipped>>
Heights    == 1 .. MaxHeight
Objects    == 1 .. MaxEvents
Listeners  == {"nodeLogs", "prometheus", "periodic"}
NoCall     == [kind |-> "none", node |-> CHOOSE n \in Nodes : TRUE, todo |-> {}, at |-> "", then |-> ""]
NoReader   == [at |-> "none", object |-> 0, queue |-> <<>>]

Running == ~panicked
Idle    == call.kind = "none"

Init ==
    /\ node = [n \in Nodes |-> [phase |-> "absent", object |-> 0, client |-> "off", head |-> 0]]
    /\ logs = [n \in Nodes |-> [replay |-> <<>>, closed |-> FALSE]]
    /\ reader = [n \in Nodes |-> [g \in Objects |-> NoReader]]
    /\ state = [n \in Nodes |-> [known |-> FALSE, source |-> 0, attached |-> 0]]
    /\ syncing = [n \in Nodes |-> "unknown"]
    /\ series = [n \in Nodes |-> <<>>]
    /\ netSeries = <<>>
    /\ lost = [n \in Nodes |-> {}]
    /\ skipped = [n \in Nodes |-> {}]
    /\ call = NoCall
    /\ prom = [channel |-> [n \in Nodes |-> 0], open |-> [n \in Nodes |-> FALSE],
               queue |-> [n \in Nodes |-> 0],
               reader |-> [n \in Nodes |-> [k \in Objects |-> "none"]],
               ticker |-> "idle", todo |-> {}, done |-> FALSE]
    /\ subject = [n \in Nodes |-> [current |-> 0, exists |-> FALSE,
                                   sampler |-> [k \in Objects |-> "none"]]]
    /\ monitor = "running"
    /\ panicked = FALSE
    /\ spent = [events |-> 0, ticks |-> 0, samples |-> 0, faults |-> 0]

-----------------------------------------------------------------------------
(***************************************************************************)
(* The network: the executor's steps run one after the other and make one  *)
(* callback each, which visits the listeners in any order while            *)
(* listenerMutex is held.                                                  *)
(***************************************************************************)
Begin(kind, n, then) ==
    /\ Running /\ Idle /\ monitor = "running"
    /\ spent.events < MaxEvents
    /\ spent' = [spent EXCEPT !.events = @ + 1]
    /\ call' = [kind |-> kind, node |-> n, todo |-> Listeners, at |-> "start", then |-> then]

\* createNode: the client runs, and may already speak, before the listeners
\* hear of it.  A fresh container has a fresh broadcaster.  Its client starts
\* from genesis, or on a data volume that a client of this or of another node
\* left at height h: then it reports the blocks above h only.
CreateNode(n) ==
    /\ node[n].phase \in {"absent", "stopped"}
    /\ Begin("created", n, "nothing")
    /\ \E m \in Nodes : \E h \in 0 .. node[m].head :
          /\ node' = [node EXCEPT ![n] = [phase |-> "up", object |-> @.object + 1,
                                          client |-> "on", head |-> h]]
          /\ skipped' = [skipped EXCEPT ![n] = @ \cup ((1 .. h) \ ToSet(series[n]))]
    /\ logs' = [logs EXCEPT ![n] = [replay |-> <<>>, closed |-> FALSE]]
    /\ UNCHANGED <<reader, state, syncing, series, netSeries, lost,
                   prom, subject, monitor, panicked>>

\* execKillSonic: SuspendNode first, then ForceStopSonicd.
SuspendNode(n) ==
    /\ node[n].phase = "up"
    /\ Begin("removed", n, "kill")
    /\ UNCHANGED <<node, logVars, prom, subject, monitor, panicked>>

\* restartNodeInPlace: the client comes back on its database, which may be
\* behind what it has reported, and only then ResumeNode tells the listeners.
ResumeNode(n) ==
    /\ node[n].phase = "suspended"
    /\ Begin("created", n, "nothing")
    /\ \E h \in 0 .. node[n].head :
          node' = [node EXCEPT ![n].phase = "up", ![n].client = "on", ![n].head = h]
    /\ UNCHANGED <<logVars, prom, subject, monitor, panicked>>

\* execStopNode: RemoveNode, then Stop and Cleanup.
RemoveNode(n) ==
    /\ node[n].phase \in {"up", "suspended"}
    /\ Begin("removed", n, "stop")
    /\ UNCHANGED <<node, logVars, prom, subject, monitor, panicked>>

\* All listeners have returned: the executor goes on with its step.  Stop
\* closes the broadcaster, so that its reader ends once it has drained it.
CallReturns ==
    /\ Running /\ ~Idle /\ call.todo = {}
    /\ call' = NoCall
    /\ LET n == call.node IN
       /\ node' = CASE call.then = "kill" ->
                         [node EXCEPT ![n].phase = "suspended", ![n].client = "off"]
                    [] call.then = "stop" ->
                         [node EXCEPT ![n].phase = "stopped", ![n].client = "off"]
                    [] OTHER -> node
       /\ logs' = IF call.then = "stop" THEN [logs EXCEPT ![n].closed = TRUE] ELSE logs
    /\ UNCHANGED <<reader, state, syncing, series, netSeries, lost, skipped,
                   prom, subject, monitor, panicked, spent>>

Serving(listener, kind, at) ==
    /\ Running /\ listener \in call.todo /\ call.kind = kind /\ call.at = at

Served(listener) == call' = [call EXCEPT !.todo = @ \ {listener}, !.at = "start"]

-----------------------------------------------------------------------------
(***************************************************************************)
(* The broadcaster and the log dispatcher.                                 *)
(***************************************************************************)
\* offer: enqueue without blocking, drop the line when the buffer is full.
offer(queue, line) ==
    IF Len(queue) < logSubscriberBuffer THEN Append(queue, line) ELSE queue

subscribers(n) ==
    {r \in Objects : reader[n][r].at = "reading" /\ reader[n][r].object = node[n].object}

offerToAll(n, h) ==
    [r \in Objects |-> IF r \in subscribers(n) THEN [reader[n][r] EXCEPT !.queue = offer(@, h)]
                       ELSE reader[n][r]]

\* The replay buffer keeps the last lines: a full one gives up its first.
isFull(n) == Len(logs[n].replay) = logReplayLines
retain(n, h) == Append(IF isFull(n) THEN Tail(logs[n].replay) ELSE logs[n].replay, h)

\* Nobody will read a line that a full buffer refused, or that leaves the
\* replay buffer while nobody is subscribed, even when a client that was
\* restarted reports the block again: the second line is out of order.
droppedBy(n, h) ==
    IF subscribers(n) = {} THEN IF isFull(n) THEN {Head(logs[n].replay)} ELSE {}
    ELSE {h : r \in {x \in subscribers(n) : Len(reader[n][x].queue) >= logSubscriberBuffer}}

\* The client logs its next block: publish keeps the line for replay and
\* offers it to every subscriber of this object.
publish(n) ==
    LET h == node[n].head + 1 IN
    /\ Running /\ node[n].client = "on" /\ h <= MaxHeight
    /\ node' = [node EXCEPT ![n].head = h]
    /\ logs' = [logs EXCEPT ![n].replay = retain(n, h)]
    /\ reader' = [reader EXCEPT ![n] = offerToAll(n, h)]
    /\ lost' = [lost EXCEPT ![n] = @ \cup droppedBy(n, h)]
    /\ UNCHANGED <<state, syncing, series, netSeries, skipped, call, prom, subject,
                   monitor, panicked, spent>>

\* Fault: a subscriber sees only what is published from now on.
subscribeFresh(n) == [at |-> "reading", object |-> node[n].object, queue |-> <<>>]

\* subscribe: the retained tail is offered first, and a fresh buffer has room
\* for all of it (MonitoringAssumption); a closed broadcaster hands out a
\* reader that ends after it.
subscribe(n) ==
    [at |-> "reading", object |-> node[n].object, queue |-> logs[n].replay]

\* SyncedSeries.Append refuses a position at or before the last one.
OutOfOrder(points, h) == points # <<>> /\ Last(points) >= h

\* BlockNodeMetricSource.OnBlock and BlockNetworkMetricSource.OnBlock, both
\* under listenersLock, for the head of the reader's queue.
OnBlock(n, r) ==
    LET h == Head(reader[n][r].queue)
        was == IF syncing[n] = "unknown" THEN "syncing" ELSE syncing[n]
        refused == OutOfOrder(series[n], h)
    IN  /\ Running /\ reader[n][r].at = "reading" /\ reader[n][r].queue # <<>>
        /\ reader' = [reader EXCEPT ![n][r].queue = Tail(@)]
        /\ IF monitor \in {"sources", "dumped"}     \* listeners unregistered
           THEN UNCHANGED <<series, syncing, netSeries>>
           ELSE /\ series' = IF refused THEN series ELSE [series EXCEPT ![n] = Append(@, h)]
                /\ syncing' = [syncing EXCEPT ![n] = IF refused THEN was ELSE "synced"]
                /\ netSeries' = IF OutOfOrder(netSeries, h) THEN netSeries ELSE Append(netSeries, h)
        /\ UNCHANGED <<node, logs, state, lost, skipped, call, prom, subject, monitor,
                       panicked, spent>>

\* The end of startDispatcher's goroutine: the subscription is closed and
\* the node is no longer consumed, unless another object took its place.
readerEnds(n, r) ==
    /\ reader' = [reader EXCEPT ![n][r] = [@ EXCEPT !.at = "ended", !.queue = <<>>]]
    /\ state' = IF state[n].source = reader[n][r].object THEN [state EXCEPT ![n].source = 0] ELSE state
    /\ UNCHANGED <<node, logs, syncing, series, netSeries, skipped, call, prom, subject,
                   monitor, panicked>>

\* The stream is over: the broadcaster is closed and drained.
LogEnds(n, r) ==
    /\ Running /\ reader[n][r].at = "reading" /\ reader[n][r].queue = <<>>
    /\ reader[n][r].object < node[n].object \/ logs[n].closed
    /\ readerEnds(n, r)
    /\ UNCHANGED <<lost, spent>>

\* readBlocks gives up on a line it cannot parse or that is too long: what
\* is buffered and what follows is not dispatched.
LogFails(n, r) ==
    /\ Running /\ reader[n][r].at = "reading" /\ spent.faults < MaxFaults
    /\ reader[n][r].queue # <<>>
    /\ spent' = [spent EXCEPT !.faults = @ + 1]
    /\ readerEnds(n, r)
    /\ lost' = [lost EXCEPT ![n] = @ \cup ToSet(reader[n][r].queue)]

notifyNodeRestart(n) == syncing' = [syncing EXCEPT ![n] = "syncing"]

\* Fault: every creation attaches a reader.
neverConsumed(n) == FALSE

\* NodeLogDispatcher.AfterNodeCreation, up to its early return: is the node
\* known, and is this object's stream consumed already?  A known node is
\* announced as restarting.
isConsumed(n) == state[n].source = node[n].object

LogCreated ==
    LET n == call.node IN
    /\ Serving("nodeLogs", "created", "start")
    /\ IF isConsumed(n) THEN Served("nodeLogs") ELSE call' = [call EXCEPT !.at = "attach"]
    /\ IF state[n].known THEN notifyNodeRestart(n) ELSE UNCHANGED syncing
    /\ state' = [state EXCEPT ![n].known = TRUE]
    /\ UNCHANGED <<node, logs, reader, series, netSeries, lost, skipped,
                   prom, subject, monitor, panicked, spent>>

\* ... and the rest: the stream of a new object is subscribed and consumed.
LogAttach ==
    LET n == call.node
        r == state[n].attached + 1
    IN  /\ Running /\ call.at = "attach"
        /\ reader' = [reader EXCEPT ![n][r] = subscribe(n)]
        /\ state' = [state EXCEPT ![n].source = node[n].object, ![n].attached = r]
        /\ Served("nodeLogs")
        /\ UNCHANGED <<node, logs, syncing, series, netSeries, lost, skipped, prom,
                       subject, monitor, panicked, spent>>

\* StreamLog fails: the creation is over, and the node stays unconsumed.
LogAttachFails ==
    /\ Running /\ call.at = "attach" /\ spent.faults < MaxFaults
    /\ spent' = [spent EXCEPT !.faults = @ + 1]
    /\ Served("nodeLogs")
    /\ UNCHANGED <<node, logVars, prom, subject, monitor, panicked>>

\* NodeLogDispatcher.BeforeNodeRemoval.
LogRemoval ==
    /\ Serving("nodeLogs", "removed", "start")
    /\ notifyNodeRestart(call.node)
    /\ Served("nodeLogs")
    /\ UNCHANGED <<node, logs, reader, state, series, netSeries, lost, skipped,
                   prom, subject, monitor, panicked, spent>>

-----------------------------------------------------------------------------
(***************************************************************************)
(* The Prometheus dispatcher.  Its ticker keeps nodesLock while it sends.  *)
(***************************************************************************)
LockIsFree  == prom.ticker # "sending"
promOnly    == UNCHANGED <<node, logVars, subject, monitor, panicked>>

\* AfterNodeCreation: a channel and its reader, unless the node has one.
PromCreated ==
    LET n == call.node
        k == prom.channel[n] + 1
    IN  /\ Serving("prometheus", "created", "start") /\ LockIsFree
        /\ prom' = IF prom.open[n] THEN prom
                   ELSE [prom EXCEPT !.channel[n] = k, !.open[n] = TRUE, !.queue[n] = 0,
                                     !.reader[n][k] = "idle"]
        /\ Served("prometheus") /\ promOnly /\ UNCHANGED spent

\* GetServiceUrl fails: the node gets no channel.
PromCreateFails ==
    /\ Serving("prometheus", "created", "start") /\ LockIsFree
    /\ ~prom.open[call.node] /\ spent.faults < MaxFaults
    /\ spent' = [spent EXCEPT !.faults = @ + 1]
    /\ Served("prometheus") /\ promOnly /\ UNCHANGED prom

\* Closing and draining the channel of a node ends its reader, at once when it
\* waits for a tick, else after the read it is at; then wg.Done.  One that waits
\* may take a buffered tick of the closed channel before it is drained.
readersOf(n, takes) ==
    [k \in Objects |-> IF prom.reader[n][k] # "idle" THEN prom.reader[n][k]
                       ELSE IF takes /\ prom.queue[n] > 0 THEN "reading" ELSE "gone"]
closeChannel(n, takes) ==
    [prom EXCEPT !.open[n] = FALSE, !.queue[n] = 0, !.reader[n] = readersOf(n, takes)]

\* BeforeNodeRemoval: close and drain the channel.  A node that has none, such
\* as one suspended before or one whose address was not found, has a nil
\* channel, and closing it panics.
PromRemoved ==
    LET n == call.node IN
    /\ Serving("prometheus", "removed", "start") /\ LockIsFree
    /\ \E takes \in BOOLEAN : prom' = closeChannel(n, takes)
    /\ panicked' = ~prom.open[n]
    /\ Served("prometheus")
    /\ UNCHANGED <<node, logVars, subject, monitor, spent>>

\* startPeriodicDispatch takes a tick, locks, and sends it to every channel.
\* The channels outlive the loop: nobody closes one without nodesLock.
TickerFires ==
    LET open == {n \in Nodes : prom.open[n]} IN
    /\ Running /\ monitor = "running" /\ spent.ticks < MaxTicks
    /\ prom.ticker = "idle" /\ open # {}
    /\ spent' = [spent EXCEPT !.ticks = @ + 1]
    /\ prom' = [prom EXCEPT !.ticker = "sending", !.todo = open]
    /\ promOnly /\ UNCHANGED call

\* A send blocks while the channel is full; after the last one it unlocks.
SendTick(n) ==
    /\ Running /\ n \in prom.todo /\ prom.queue[n] < PromBuffer
    /\ prom' = [prom EXCEPT !.queue[n] = @ + 1, !.todo = @ \ {n},
                            !.ticker = IF prom.todo = {n} THEN "idle" ELSE @]
    /\ promOnly /\ UNCHANGED <<call, spent>>

\* Fault: the goroutine returns and leaves the channels open.
leaveChannels(takers) == [prom EXCEPT !.ticker = "gone"]

\* The done case of the same select: every channel is closed and drained.
closeChannels(takers) ==
    [prom EXCEPT !.open = [n \in Nodes |-> FALSE], !.queue = [n \in Nodes |-> 0],
                 !.reader = [n \in Nodes |-> readersOf(n, n \in takers)], !.ticker = "gone"]

StopTicker ==
    /\ Running /\ prom.ticker = "idle" /\ prom.done
    /\ \E takers \in SUBSET Nodes : prom' = closeChannels(takers)
    /\ promOnly /\ UNCHANGED <<call, spent>>

setPromReader(n, k, at) == prom' = [prom EXCEPT !.reader[n][k] = at]
isCurrent(n, k) == k = prom.channel[n] /\ prom.open[n]

\* startNodeLogsDispatch: one read of the node's metrics per tick received.
TakeTick(n, k) ==
    /\ Running /\ prom.reader[n][k] = "idle" /\ isCurrent(n, k) /\ prom.queue[n] > 0
    /\ prom' = [prom EXCEPT !.queue[n] = @ - 1, !.reader[n][k] = "reading"]
    /\ promOnly /\ UNCHANGED <<call, spent>>

\* Back to the loop over the channel, which may be closed by now.
nextTick(n, k) == setPromReader(n, k, IF isCurrent(n, k) THEN "idle" ELSE "gone")

\* The metrics are read and distributed to the listeners.
distributeLog(n, k) ==
    /\ Running /\ prom.reader[n][k] = "reading"
    /\ nextTick(n, k) /\ promOnly /\ UNCHANGED <<call, spent>>

\* They cannot be read: to report it the reader needs nodesLock.
ReadFails(n, k) ==
    /\ Running /\ prom.reader[n][k] = "reading" /\ spent.faults < MaxFaults
    /\ spent' = [spent EXCEPT !.faults = @ + 1]
    /\ setPromReader(n, k, "failed") /\ promOnly /\ UNCHANGED call

ReportFailure(n, k) ==
    /\ Running /\ prom.reader[n][k] = "failed" /\ LockIsFree
    /\ nextTick(n, k) /\ promOnly /\ UNCHANGED <<call, spent>>

-----------------------------------------------------------------------------
(***************************************************************************)
(* The periodic sources: one sampler per node.  process.Stop closes its    *)
(* stop channel and waits until it says it is done, which it does between  *)
(* two readings.                                                           *)
(***************************************************************************)
periodOnly == UNCHANGED <<node, logVars, prom, monitor, panicked>>

isStoppable(n) == subject[n].sampler[subject[n].current] = "idle"
stopped(n) ==
    IF subject[n].exists THEN [subject[n] EXCEPT !.sampler[subject[n].current] = "gone"]
    ELSE subject[n]

\* AddSubject: a sampler that still runs is stopped before one is started.
AddSubject ==
    LET n == call.node
        k == subject[n].current + 1
    IN  /\ Serving("periodic", "created", "start")
        /\ subject[n].exists => isStoppable(n)
        /\ subject' = [subject EXCEPT ![n] = [stopped(n) EXCEPT !.current = k, !.exists = TRUE,
                                                                !.sampler[k] = "idle"]]
        /\ Served("periodic") /\ periodOnly /\ UNCHANGED spent

removed(n) == [stopped(n) EXCEPT !.exists = FALSE]

RemoveSubject ==
    LET n == call.node IN
    /\ Serving("periodic", "removed", "start")
    /\ subject[n].exists => isStoppable(n)
    /\ subject' = [subject EXCEPT ![n] = removed(n)]
    /\ Served("periodic") /\ periodOnly /\ UNCHANGED spent

setSampler(n, k, at) == subject' = [subject EXCEPT ![n].sampler[k] = at]

\* The loop of the sampler: a tick, one reading of the sensor, a point in
\* the series, and back to waiting for a tick or the stop signal.
ReadSensor(n, k) ==
    /\ Running /\ subject[n].sampler[k] = "idle" /\ spent.samples < MaxSamples
    /\ spent' = [spent EXCEPT !.samples = @ + 1]
    /\ setSampler(n, k, "reading") /\ periodOnly /\ UNCHANGED call

SensorRead(n, k) ==
    /\ Running /\ subject[n].sampler[k] = "reading"
    /\ setSampler(n, k, "idle") /\ periodOnly /\ UNCHANGED <<call, spent>>

-----------------------------------------------------------------------------
(***************************************************************************)
(* Monitor.Shutdown, once the executor has ended.                          *)
(***************************************************************************)
Shutdown ==
    /\ Running /\ Idle /\ monitor = "running"
    /\ monitor' = "prometheus"
    /\ prom' = [prom EXCEPT !.done = TRUE]
    /\ UNCHANGED <<node, logVars, call, subject, panicked, spent>>

\* Fault: the readers are not waited for.
NobodyIsAwaited == TRUE

\* wg.Wait of the Prometheus dispatcher.
PromReadersAreDone ==
    \A n \in Nodes, k \in Objects : prom.reader[n][k] \in {"none", "gone"}

PromIsDown ==
    /\ Running /\ monitor = "prometheus" /\ PromReadersAreDone
    /\ monitor' = "sources"
    /\ UNCHANGED <<node, logVars, call, prom, subject, panicked, spent>>

\* The sources: block sources unregister, periodic ones stop their samplers,
\* which stay in the map of subjects.
StopSource(n) ==
    /\ Running /\ monitor = "sources" /\ subject[n].exists /\ isStoppable(n)
    /\ subject' = [subject EXCEPT ![n] = stopped(n)]
    /\ periodOnly /\ UNCHANGED <<call, spent>>

SourcesAreDown ==
    /\ Running /\ monitor = "sources"
    /\ \A n \in Nodes : subject[n].exists => subject[n].sampler[subject[n].current] = "gone"
    /\ monitor' = "dumped"      \* the CSV is written
    /\ UNCHANGED <<node, logVars, call, prom, subject, panicked, spent>>

-----------------------------------------------------------------------------
Network ==
    \/ \E n \in Nodes : CreateNode(n) \/ SuspendNode(n) \/ ResumeNode(n) \/ RemoveNode(n)
    \/ Shutdown

Environment ==
    \/ \E n \in Nodes : publish(n)
    \/ \E n \in Nodes, g \in Objects : LogFails(n, g) \/ ReadFails(n, g) \/ ReadSensor(n, g)
    \/ TickerFires \/ LogAttachFails \/ PromCreateFails

\* What the goroutines of norma do by themselves.
Work ==
    \/ CallReturns \/ LogCreated \/ LogAttach \/ LogRemoval
    \/ PromCreated \/ PromRemoved \/ StopTicker
    \/ \E n \in Nodes : SendTick(n) \/ StopSource(n)
    \/ \E n \in Nodes, k \in Objects :
          \/ OnBlock(n, k) \/ LogEnds(n, k)
          \/ TakeTick(n, k) \/ distributeLog(n, k) \/ ReportFailure(n, k)
          \/ SensorRead(n, k)
    \/ AddSubject \/ RemoveSubject \/ PromIsDown \/ SourcesAreDown

Next == Network \/ Environment \/ Work

Spec == Init /\ [][Next]_vars /\ WF_vars(Work)

-----------------------------------------------------------------------------
TypeOK ==
    /\ node \in [Nodes -> [phase : {"absent", "up", "suspended", "stopped"},
                           object : 0 .. MaxEvents, client : {"on", "off"}, head : 0 .. MaxHeight]]
    /\ \A n \in Nodes :
          /\ Len(logs[n].replay) <= logReplayLines /\ ToSet(logs[n].replay) \subseteq Heights
          /\ prom.channel[n] \in 0 .. MaxEvents /\ prom.queue[n] \in 0 .. PromBuffer
          /\ ToSet(series[n]) \cup skipped[n] \subseteq Heights
          /\ syncing[n] \in {"unknown", "syncing", "synced"}
          /\ \A r \in Objects :
                /\ reader[n][r].at \in {"none", "reading", "ended"}
                /\ Len(reader[n][r].queue) <= logSubscriberBuffer
                /\ prom.reader[n][r] \in {"none", "idle", "reading", "failed", "gone"}
                /\ subject[n].sampler[r] \in {"none", "idle", "reading", "gone"}
    /\ call.todo \subseteq Listeners
    /\ call.at \in {"", "start", "attach"}
    /\ monitor \in {"running", "prometheus", "sources", "dumped"}

\* The heights a series leaves out.
MissingBelow(points) == IF points = <<>> THEN {} ELSE (1 .. Last(points)) \ ToSet(points)

\* A block that is missing in the series of a node, or of the network, below
\* its last point was dropped by a bounded buffer or with a reader that failed,
\* or lay below the head of the data volume that a container of the node
\* started on, and was not recorded by then: subscribing late, restarting a
\* client in place, which may fall back and report blocks again, and starting
\* a node again from genesis lose nothing (logs.go subscribe,
\* node_log_provider.go AfterNodeCreation).
GapsAreDrops ==
    /\ \A n \in Nodes : MissingBelow(series[n]) \subseteq lost[n] \cup skipped[n]
    /\ MissingBelow(netSeries) \subseteq UNION {lost[n] \cup skipped[n] : n \in Nodes}

\* A node that starts on the volume it had before loses nothing either: what
\* its earlier containers reported is recorded or was dropped.
\* Refuted: see the README.
VolumesLoseNothing == \A n \in Nodes : MissingBelow(series[n]) \subseteq lost[n]

\* However often a node is killed, restarted, stopped and started, each log
\* stream has at most one reader that dispatches it, or every block would be
\* reported twice (node_log_provider.go AfterNodeCreation), and each node at
\* most one sampler (periodic_source.go AddSubject, RemoveSubject).
OneReaderPerStream ==
    \A n \in Nodes, r, q \in Objects : r # q =>
        /\ ~ /\ reader[n][r].at = "reading" /\ reader[n][q].at = "reading"
             /\ reader[n][r].object = reader[n][q].object
        /\ ~ {subject[n].sampler[r], subject[n].sampler[q]} \subseteq {"idle", "reading"}

\* When Monitor.Shutdown writes the measurements, no goroutine that feeds a
\* series is left: neither a reader of metrics nor a sampler, of whatever
\* registration of whatever node (monitor.go Shutdown).
DumpIsFinal ==
    monitor = "dumped" => \A n \in Nodes, k \in Objects :
        /\ prom.reader[n][k] \in {"none", "gone"}
        /\ subject[n].sampler[k] \in {"none", "gone"}

\* No callback and no shutdown is under way.
Quiet == Idle /\ monitor \in {"running", "dumped"}

\* The ticker keeps nodesLock while it waits for a place in a full channel,
\* whose reader waits for nodesLock to report that it could not read.
Jammed ==
    \E n \in prom.todo, k \in Objects :
        isCurrent(n, k) /\ prom.queue[n] = PromBuffer /\ prom.reader[n][k] = "failed"

\* Every callback of the network returns, so the executor goes on, and
\* Monitor.Shutdown ends, unless the process panics or the Prometheus
\* dispatcher is jammed: nobody else waits for ever on nodesLock, on a full
\* channel or on a sampler (prom_log_provider.go startPeriodicDispatch,
\* BeforeNodeRemoval, Shutdown; periodic_source.go Stop).
NothingHangs == ~Quiet ~> Quiet \/ panicked \/ Jammed

\* The dispatcher is never jammed, so that its ticker, whose only work is to
\* send the signal every period, goes on (startPeriodicDispatch).
\* Refuted: see the README.
TickerGoesOn == ~Jammed

\* A removal that the network announces is handled by every listener, whatever
\* was announced before (prom_log_provider.go BeforeNodeRemoval).
\* Refuted: see the README.
NoPanic == ~panicked

\* A restarted client replays blocks that were reported already, and these are
\* excused (syncing_tracker.go shouldSuppressAppendConflict): no block of a
\* node that counts as synced is refused, and logged, as out of order.
\* Refuted: see the README.
ReplaysAreExcused ==
    [][\A n \in Nodes, r \in Objects :
         OnBlock(n, r) /\ monitor = "running" /\ OutOfOrder(series[n], Head(reader[n][r].queue))
           => syncing[n] # "synced"]_vars

=============================================================================
