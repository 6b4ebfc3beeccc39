# Norma in TLA+

Norma starts real Sonic clients in docker containers, drives them through a
scenario (start, stop, kill, heal, load, rule changes, checks) and measures what
happens to the load. This directory holds a TLA+ model of its control, the
TLC runs that check it on small instances, and TLAPS proofs of the properties that
matter most. `PROJECT.json` lists components, runs, the map from definitions to
source lines, hazards, findings and theorems.

## The system

| component | state | operations | talks to |
|---|---|---|---|
| client node (`driver/node`) | `NodeState`, client generation and handle | Initialize, StartSonicd, WaitForSync, StopSonicd, ForceStopSonicd, HealSonicd, Stop, Kill, Cleanup; a watcher goroutine per client | docker; called by executor and local network |
| docker layer (`driver/docker`) | container flags, exec handles, log broadcaster, images | start, exec, background exec, signal, stop, remove, stream logs | node, log dispatcher |
| local network (`driver/network/local`) | nodes, suspended nodes, applications, listeners | create, remove, suspend, resume, reconnect node; create application; shutdown | everything; listeners are called under a lock |
| RPC worker pool (`driver/network/rpc`) | channel of transactions, a worker group per node | send, attach and close groups, close | generators, clients, submission observers |
| load (`load`) | trigger channel, a generator per user, shaper | start, trigger, generate, stop | RPC pool |
| transaction monitoring (`driver/monitoring/transactions`) | tracker: transactions in flight, senders, counters, block compositions; observers: visited events, seen blocks | submission, emission and block reports | RPC pool, clients, log dispatcher |
| log and Prometheus dispatchers (`driver/monitoring`) | a reader or channel per node, listeners | node added, removed, tick, shutdown | clients, sources |
| sources and series (`driver/monitoring`) | append-only series | start, collect, shutdown, export | dispatchers |
| executor (`driver/executor`) | active nodes and applications, validator ids, expected stakes | one handler per scenario step | network, registry, checks |
| network operations (`driver/network`) | none | epoch, rules, delegation, registration: a transaction, then polling | clients |
| parser and static check (`driver/parser`) | simulated nodes and applications | decode, check | executor |
| checks (`driver/checking`) | what the calls of one check have read so far | poll, compare, retry, give up | clients, monitor |
| CLI (`driver/norma`), genesis, report, scenarios | none worth modelling | | |

What is hard to test here: the client can die at any point of an action on it; docker
calls fail before or after their effect; watchers and probes of earlier clients
outlive a restart; three unsynchronised sources report on the same transactions; nodes
that are asked lag behind each other; channels fill and their readers go away; and the
order of teardown. The `hazards` of PROJECT.json give each of these its source line.

What makes each component correct: a node's data directory has one user, a dirty
database is healed before it is used, a crash is noticed, a failed start leaks nothing;
the tracker's counters are the sizes of the populations they name; each event is read
once and each block settled once; no generated transaction goes unreported and
stopping ends; every created node is cleaned up, and executor, network and listeners
agree on the nodes; ids, stakes and the validator set the executor relies on are those of
the chain; the load follows its shape and its nonces leave no gap; a stream of blocks has
one reader and nothing is measured after the dump; a check passes and fails for a reason.

## Modules

**OperaNode** is the lifecycle of one node. `state`, `clientGen`, `sonicd` and
`unexpected` are the fields of the same name of the Go struct; `client`, `stream` and
`watcher` are, for each client start, the process, its exec stream and its watcher
goroutine; `db` and `container` are the outside world. An action of the code
that calls docker is split where the lock is released or docker is called: the first
step claims the state (`StopSonicdBegin`), later ones carry out the rest
(`stopSignalSonicd`, `stopWaitForSonicdExit`). `Callers` are the goroutines; `caller`
says whether a call is made by a user, by `StartOperaDockerNode` (which cleans up when
a step fails) or as the first half of `Stop`. `Faults` selects what docker and the
client may do wrong. `DataDirs` says what the data directory may hold when the node is
created: nothing, or on a mounted data volume also what an earlier node left
("unchecked"), which `Initialize` uses as it is (`needsInit`). **MCOperaNode** defines
the sets of faults of the runs.

**Tracker** is the transaction tracker next to the network that it observes. A
transaction is a sender and a nonce. Each report is one step, as it holds the lock;
reports come in any order relative to the network and to each other. Latency samples
and gas are left out: no control depends on them. **MCTracker** gives the nonces.

**EmissionObserver** is the walk of the event DAG. Each RPC call is a step, and events
are created, epochs sealed and nodes lag in between. **InclusionObserver** is the
reader of blocks: log readers between the two locks of `OnBlock`, the bounded queue,
reads with retries, cancellation. **BlockFeed** is what it promises: each announced
block is settled once, as reported or as missed, and eventually while it runs;
`ImplementsBlockFeed` is the refinement, with `seen` and `lost` as the abstract sets.

**LoadPipeline** composes the load controller, its generators, the RPC pool and
the executor goroutine that adds and removes nodes, stops the application and shuts the
network down. Each channel operation is a step. The 150 workers of a node are alike and
are modelled by one; transactions are counted. A shaper is any number of messages per
interval.

**LoadApps** is the other half of the load: the set-up of an application
(deployment, users, funding in batches, minting), the arithmetic that turns a rate into
triggers, and what becomes of the transactions of the 17 kinds of applications and of a
mix: plain calls with nonces the account counts, and bundles whose nonces are read from
the chain. An application is a record of what it checks, funds and mints and of the plans
of its transactions; the mix is the fixed list of `mixAppTypes`, deployed and provided
with users in its order. A plan adds at most one to what is received, except a failing
bundle, which counts calls and adds up to two. A duplicated AllOf bundle adds one: A pays
B, and B pays the account whose balance is read (duplicatedbundle_app.go:232-238), although
the comment above `GetReceivedTransactions` says two. **Shapers** are the shapers as operators over scaled integers, with
the static checks of their parameters and the reference they are compared with, the area
below the curve. **MCLoadApps** lists the cases: every shape with a counter, every
application at a steady rate, and the mix.

**Scenario** composes the executor, its goroutines, the local network and the start and
end of a run. A step has a plan, the calls it makes in the order of the code, and each
call is an action with its failures; `nodes`, `nodeHistory`, `validatorIds` and `apps`
are the fields of `runState`, `members` and `suspended` those of `LocalNetwork`,
`listening` what its listeners were told. A scenario is any sequence of steps from the
sets of **MCScenario** that `StepCheck` lets through; it includes steps the static check
must reject. The shutdown stops one application, then one node after the other; a node
whose `Stop` or `Cleanup` fails is recorded in `shutdown.left`, and the shutdown goes on,
as the code does. An application that is stopped is waited for, and it ends only while
some node has workers that take its transactions (`workers`). When there are none, the
step or the shutdown waits for good: `Hung`, the case that LoadPipelineHangs.cfg shows in
detail.

**Staking** are the steps that change validators and stakes: executor, validator
registry, network operations and receipts, against a chain that each node knows a prefix
of. Each call picks a node, as `DialRandomRpc` does, and reads what that node knows.
A `startNode` marked as failing registers its validators and does not wait for their
activation; they are `excused` until the next seal. **MCStaking** gives the steps.

**Monitoring** composes the callbacks of the network with its listeners: log broadcaster
and node log dispatcher with the block series, Prometheus dispatcher with its lock and
channels, periodic sources, and `Monitor.Shutdown`. A log line is the height of the block
it reports. A new container of a node starts from genesis and reports every block again,
or, on a data volume, from the height the volume has; the blocks below that height that
were not recorded by then are `skipped`.

**Checks** is one check at a time, call by call, while the network moves: nodes advance,
become unreachable, fork, emit events, seal epochs. `Promise` is what a passing check
says of the network, `Reason` what justifies a failing one. Three checks see the network
through the monitor, and what they can vouch for is what the monitor showed: `watched`
records, for each node, whether it was sampled, took a block after that, and was sampled
again; `reported` are the blocks reported while the check waited. Both follow the network
and not what the check reads. A read of the events of an epoch may miss some that the node
does not have (`missing`); the code skips these (event_throttled.go:393-395), so that the
comment at line 304, "second.counts[id] is always >= first.counts[id]", holds only without
them. **MCChecks** lists the parameters.

**Sums** is the sum of a function over a set.

The proofs are in **OperaNodeProofs**, **TransactionsProofs** (Tracker, EmissionObserver,
InclusionObserver), **LoadProofs** (LoadPipeline, LoadApps), **MonitoringProofs**,
**ScenarioProofs**, **StakingProofs** and **ChecksProofs**. **SetLemmas** are the facts
about finite sets, maxima and sums they share. Where two components share a proof module
the names of one of them carry its prefix: `EmissionSpec`, `InclusionSpec`, `AppSpec`.

## Runs

| run | shows | bounds |
|---|---|---|
| `node_faults` | all faults at once: one user of the data directory, late watchers ignored | one caller, 3 starts: a watcher can be two clients late |
| `node_recovery` | crashes, failing execs and broken streams: no start on a database a client of the node left dirty, on an empty or a used data directory, one unprotected client, a crash is recorded, a failed start leaves no container | the same |
| `tracker` | counters, compositions, stalled runs and release of records in every order of reports | two accounts, one with three nonces (so a gap can be filled behind), two blocks, a limit of 3 reached by the 4 transactions |
| `emission_observer` | no event is read twice; without failing calls every event of the current epoch is found | 4 events (a diamond, or two heads over shared ancestors), 2 epochs, 1 failure |
| `inclusion_observer` | each announced block is in one place; refinement of BlockFeed | 3 nodes, 4 heights, queue of 2, the code's 3 attempts |
| `load_pipeline` | no send on a closed channel, no unreported transaction, stopping ends while a worker serves | 2 users, 2 nodes, channels of 1, 4 messages: enough to fill both channels and block a generator |
| `load_apps` | funding, minting and deployment are complete before the load starts; triggers are the area below the curve; received exceeds sent by the failing bundles at most; nonces leave no gap | 2 users, batches of 2 (so two accounts per user need several), 5 ticks of half a second, 3 transactions (2 for the mix of 16 types: a bundle in two envelopes, or one bundle next to another transaction), 1 lost |
| `scenario` | executor, network and listeners agree between steps; no validator runs twice; nothing is left but what a failed call left; ids are kept; every scenario ends or waits for an application no node serves | 5 steps over two names, one with two instances, 5 containers, 1 fault and the timeout anywhere |
| `staking` | stakes, ids and the validator set after each step, with steps marked as failing | 4 steps, 2 nodes that lag by any number of blocks, 1 epoch sealed by itself |
| `monitoring` | gaps in the series are drops, or below the head of a data volume; one reader per stream; nothing feeds a series after the dump; nobody hangs | 1 node, 3 callbacks (kill and restart, stop and start again, kill and stop), 2 blocks, buffers of 1, 2 ticks: one read, one waiting (the third, which blocks, is in MonitoringFullChannel.cfg) |
| `checks` | a check passes and fails for a reason, and ends | 3 nodes, heights to 3, a fork, 1 unreachable node, 1 epoch, 2 events, 2 samples; patches that are empty, invalid, or do not fit the rules of a node |

`staking` and `scenario` check for deadlock: their only terminal states are ended
scenarios, which stutter. The others say `CHECK_DEADLOCK FALSE`: a bounded number of
starts, transactions, events or messages is used up, and a shut-down system stops.

The type invariants of the modules without one in their run were checked under the same
constants; the runs are about what can go wrong. `monitoring` was also checked with 4
callbacks and 1 tick.

### Refuted statements

Where a comment or a doc of the repository says more than the code does, the statement is
a formula of its module and TLC refutes it. One is a run (`monitoring_kill_stop`, under
`findings`): stopping a killed node announces its removal a second time, and the
Prometheus dispatcher closes a nil channel. The others can be repeated with
`tlc -config <file> <module>`:

| module, file | formula | what TLC shows |
|---|---|---|
| MCOperaNode, OperaNodeLostCrash | `CrashIsRecorded` with failing signals | The client crashes while `StopSonicd` holds the node in Stopping, so its watcher gives up; the signal then fails and `forceSetState` (node_actions.go:394) sets Running for good. node_state.go:43: "a crash is a transition rather than something a later action stumbles over" |
| MCOperaNode, OperaNodeDirtyStop | `NoStartOnDirtyDb` with clients that die during shutdown | `StopSonicd` ends in Ready whatever way the client ended, and the next start uses a database that was not flushed (node_actions.go:407) |
| MCOperaNode, OperaNodeTwoCallers | `ExclusiveDataDir` with two callers | The unconditional state change of a stop overwrites what a concurrent kill and heal claimed, and two heals run. node_state.go:21: "two concurrent actions cannot interleave". The executor uses one goroutine per node, the case of the passing runs |
| MCOperaNode, OperaNodeVolume | `VolumesAreHealed` | `Stop` goes on when `StopSonicd` times out, and docker kills the client with its container; the next node on the same volume skips genesis (node_actions.go:104) and starts its client on what is there. node_state.go:34: "the database must be assumed dirty, so the node stays in Killed and heal is the only way out." |
| MCTracker, TrackerLateReport | `NothingBecomesEmittable` | A block reported before the submission of one of its transactions leaves the next one counted as stalled. tracker.go:464: "Nothing becomes emittable by this" |
| EmissionObserver, EmissionObserverReadFails | `ParentsAreFollowed` | One failed read drops the stack below events that are visited already. emissions.go:39: "each event is read exactly once over a run" |
| LoadPipeline, LoadPipelineHangs | `ShutdownCompletes` | Once the last node has left, generators block on the full channel of the pool and `Shutdown` waits for them. local.go:640: "cleanups shall be completed, even after execution context is canceled." |
| MCLoadApps, LoadAppsAuto | `CutOnlyOnOverload` | A transaction sent and executed between the two reads makes `sent - received` (auto.go:88) wrap around, and the rate is cut. auto.go:53: "If the gap becomes > twice the current rate per second, the transaction rate is reduced" |
| MCLoadApps, LoadAppsAllOf | `AllOfCountsTwo` | An AllOf bundle moves one token to the target. duplicatedbundle_app.go:145: "2 per bundle for AllOf" |
| MCScenario, ScenarioLoneRestart | `HealedNodeRestarts` | The only node of a network was killed and healed; its restart asks the network for its height and fails (run.go:327), as no member answers although the network is not empty |
| MCStaking, StakingUndelegateAll | `AllIsUndelegated` | The stake to take back is read from a node that lags (delegation.go:118): a rest stays on the chain and the executor expects zero |
| MCStaking, StakingAdvance | `AdvanceEpochSeals` | The epoch ends by itself while `AdvanceEpoch` waits, which takes that for the epoch it asked for. epoch.go:23: "The function blocks until the final epoch has been reached." |
| Monitoring, MonitoringReplay | `ReplaysAreExcused` | A block of the killed client that was still buffered marks the node as synced after `OnNodeRestart`, so the replay is logged as inconsistent. syncing_tracker.go:80: "its replayed blocks take the branch above" |
| Monitoring, MonitoringFullChannel | `TickerGoesOn` | The ticker waits for a full channel under `nodesLock`, whose reader waits for `nodesLock` to report a failure (prom_log_provider.go:267, 285). The buffer holds 100 ticks in the code |
| Monitoring, MonitoringVolume | `VolumesLoseNothing` | A node is stopped and started again on its volume. The new reader is ahead of the old one, which still has a block in its buffer; the series refuses this block once it has a higher one, and nothing was dropped |
| MCChecks, ChecksLag | `OnlyStandstillFails` | The chain grows, and the monitor samples no node twice around a block. blocks_rolling.go:29: the check verifies production by "requiring at least one node to advance its block height while it waits" |
| MCChecks, ChecksOldBlock | `OnlyNewBlocksFail` | A block produced before the check and reported to the monitor after its start fails it. block_gas_rate.go:91: "every block produced during it stayed at or below the gas rate ceiling" |

The passing runs state the corresponding property with the condition under which it does
hold: faults without failing signals and dirty stops, one caller, databases that the
node's own clients left, senders that no block overtook, no failed call, a serving worker,
stakes that are covered rather than exact, no jammed dispatcher, blocks above the head of
a volume, blocks and samples that the monitor got.

### Fairness

Goroutines that can proceed do (weak fairness), calls return with an answer or an error,
tickers tick, an exited process closes its stream. The select statements of
`AppController.Run` and of the workers choose at random among ready cases, so the case
of a context that stays done is taken in the end (strong fairness of `SelectDone` and
`WorkerEnds`). The scenario's context ends (it has a timeout), a deadline passes, and the
calls of a step or a check return. The chain executes what it can (LoadApps). Nobody has
to call anything, no client has to exit after a signal, blocks need not be produced in
Scenario, and nothing has to fail.

## Proofs

Each theorem holds for every value of the constants that the assumptions of its module
admit: any number of nodes, users, starts, heights, events, transactions, steps and
faults, any capacity and any scenario. None of the invariants below is inductive alone;
the third column says what had to be added, and why it is true. The additions were
checked by TLC on the instance of the run before they were proved.

| module | theorem: property | the inductive invariant |
|---|---|---|
| OperaNode | `TypeCorrect`: `TypeOK` | inductive as it is |
| | `DataDirIsExclusive`: `ExclusiveDataDir` | `DataDirInv`: no client lives while a caller is between its scan of /proc and the start of a client or a heal. The scan establishes it, and with one caller only that caller can start a client |
| | `LateWatcherIsIgnored`: `OnlyOwnExitIsUnexpected` | `WatcherInv`: a start under way works on the current generation, which has no watcher yet, and later generations have none |
| | `FirstClientIsUnprotected`: `UnprotectedOnce` | `UnprotectedInv`: a client that was started is attached or about to be, so a node without a handle has had none |
| | `ClientsStartClean`: `NoStartOnDirtyDb` (an action property) | `CleanInv` ties where a caller is to the state it claimed; `DbInv`: only the states Killed and Healing have a killed client, and Ready, the start and the wait of a stop have a database that is clean, or as the volume brought it, and nobody who could spoil it |
| Tracker | `TypeCorrect`: `TypeOK`; `CountersAreExact`: `CountsMatch`; `RecordsAreReleased`: `IncludedIsReleased`; `RunsAreExact`: `StalledBehindGap` | `TrackerInv`, all four at once with `NetworkInv` (a sender's transactions are included in the order of their nonces) and `FollowInv` (an included transaction of a sender no block overtook has a record, or its nonce was released). They need each other: a counter is exact only if `unblock` moves exactly the records of the run that starts at the filled nonce |
| | `BlocksAddUp`: `CompositionAddsUp` | `CompositionInv` with `TrackerInv`: a height is recorded once, so `MarkBlock` adds to one new block what it adds to `Included`, and no application has the name under which foreign transactions are recorded |
| EmissionObserver | `EventsAreReadOnce`: `ReadOnce`; `WalkLeavesNothing`: `WalkIsComplete` | `EmissionInv`: parents are created before their children, the stack is empty outside a walk, what was read is visited |
| InclusionObserver | `ObserverIsBlockFeed`: every step is a step of BlockFeed or a stutter | `FeedInv`: an announced block that is not settled is held by at most one of a log reader, the queue and `run`, so whoever settles it is the first |
| | `BlocksAreAccounted`: `BlockIsInOnePlace` | `PlaceInv`: it is held by at least one, and `missed` counts the lost ones |
| LoadPipeline | `TypeCorrect`: `TypeOK` | inductive as it is |
| | `ChannelIsClosedLast`: `NoSendOnClosedChannel` | `ShutdownInv`: past the wait for `Run` no generator is left, and none is started |
| | `NoTxIsLost`: `EveryTxIsReported` | `ReportInv`: a node without a worker group has no worker that holds a transaction; `Count` lemmas say how one process that moves changes the number of those at a place |
| LoadApps | `SetupsAreComplete`: `SetupIsComplete` | `SetupInv`: the types that are no longer left were dealt with, and the accounts of the current type are funded or in line for a later batch of `FundAccounts` |
| | `NoMoreThanSent`: `ReceivedAtMostSent` | `CountInv`: what is received is at most the plans executed, those at most the plans built, those at most what the users count as sent. An executed plan of any application adds one at most, a failing bundle two, and none is executed twice |
| | `LoadFollowsShape`: `TriggersFollowShape` | `ShapeInv`: the sum of what the control loop got from the shaper is the total of the shape up to the clock, the rest carried over is more than -1 and at most 0 messages, and what was triggered is a whole number. Lemmas on the shapes say that the total is the area below the curve and that no interval is negative |
| | `AppTypeCorrect`: `AppTypeOK` | the three above with `PlacesInv` (phases, accounts and nonces) |
| Monitoring | `StreamsHaveOneReader`: `OneReaderPerStream` | `ReaderInv`: the dispatcher remembers the object whose stream it consumes, no reader is ahead of its node, and nobody reads the object that is being attached; `SamplerInv` |
| | `NothingFeedsAfterDump`: `DumpIsFinal` | `FinalInv`: from the shutdown of the sources on no reader of metrics is left, and a sampler that works is the current one of its node |
| | `OnlyDropsLeaveGaps`: `GapsAreDrops` | `GapInv`: in each stream the blocks seen and the blocks waiting in the replay buffer or a subscriber's queue, in this order, leave out only blocks that were dropped or that a data volume already had |
| Scenario | `ExecutorAndNetworkAgree`: `NodesAgree`; `ValidatorsRunOnce`: `OneNodePerValidator`; `ShutdownIsComplete`: `NothingIsLeft`; `NamesKeepValidators`: `ValidatorIsKept` (an action property) | `Inv`: `PlanInv` (a plan awaits the goroutines it starts, and a plan that restarts neither creates nor removes), `TaskInv` (no goroutine outlives its call), `NodeInv` (for each stage of each creating or removing goroutine, which of the lists know its node), `VidInv` and `KeepInv` (a name has one validator, a container runs the one of its name), `LeftInv` (a running container is a member, or a failed call lost it, of a step or of the shutdown) |
| Staking | `TypeCorrect`: `TypeOK`; `ExpectedStakesHold`: `StakesAreCovered`; `StartedValidatorsAreActive`: `ValidatorsAreActive`; `RegisteredIdsAreDistinct`: `IdsAreDistinct` | `Inv`: `HistoryInv` (what a lagging node shows is still true: ids and receipts only get more, a validator leaves the set only without stake and gets none back), `PoolInv` (only the transaction of the current call is in the pool), `PlanInv`, `CallInv` (the shapes of plans and calls), `CountInv` (ids are given in order), `StakeInv` (stakes cover the expectation, also between the effect of a transaction and its receipt), `SelfInv` and `ActiveInv` (a registered validator has stake and is active, unless it left, its step has yet to wait for it, or it was registered by a step marked as failing and no epoch has ended since) |
| Checks | `PassesAreEarned`: `PassIsEarned`; `FailuresAreReal`: `FailureIsReal`; `ChecksTypeCorrect`: `TypeOK` | `ChecksInv`: what each call of a check has read so far (heights, hashes of a range, rules, samples, event counts of two snapshots) lies between what the network was when the attempt began (`was`) and what it is now. `Grows`: whatever the network does, heights, epochs, events and applied rules only grow, so what was read stays a witness for `Promise` or `Reason` until the verdict. `Observed` ties the samples and points a check reads to `watched` and `reported`: a node has samples that differ exactly when it took a block between two of them |

Assumptions. Those declared with the constants say that bounds are numbers, that sets are
finite where they are counted, and that buffers hold something. Some say more.
`MonitoringAssumption`: the replay buffer is no larger than a subscriber's
(docker/logs.go:31 and 37: 150 and 8192 lines). `ScenarioAssumption` and
`StakingAssumption`: the steps offered have the fields their functions read, which the decoder and the static check
guarantee; `CasesAssumption` and `ChecksAssumption` say the same of the rates and types of
LoadApps and of the parameters of a check. `NamesAssumption`: no application has the name
that stands for foreign transactions. In Staking a scenario registers at most `MaxIds` validators, a bound in the
guard of `NextStep`, as the model's accounts are finitely many. The theorems of OperaNode
other than `TypeCorrect` state theirs: a single caller, as the executor drives a node from
one goroutine (OperaNodeTwoCallers.cfg shows that `ExclusiveDataDir` needs it);
`FirstClientIsUnprotected` and `ClientsStartClean` exclude an exec that fails after it
started the client ("orphan"), the latter also a client that dies while it is stopped
("dirtyStop", refuted by OperaNodeDirtyStop.cfg). They hold for data directories that are
empty and for used volumes (`DataDirsAssumption`); a used one stays outside the property
until a client of the node ran on it. `RecordsAreReleased` and `RunsAreExact`
are about senders that no block overtook, and `WalkLeavesNothing` is about walks without a
failed call; the properties themselves say so.

The proof of `OnlyDropsLeaveGaps` corrected the model: what is dropped is now recorded per
line (`isFull`, `retain`, `droppedBy`), where it was recorded per height. With the buffers
of 1 of the run both are the same; with larger ones a restarted client has lines of the
same height in one buffer.

The proofs about Checks corrected that module. The end of an observation was a CASE whose
guards overlap when the context ends after a sufficient sample, which leaves the verdict
open (`ObservationEnds` now fails whenever the context has ended, as the code does).
`Reason` lacked the checks that find no node to ask, and `Promise` asked too little of a
node that is expected to fail `blocksHashes`: it now has a block that differs from a healthy
node's.

Sums and recursive functions need an induction, and the prover cannot use the induction
theorems of the library. SetLemmas takes a least counterexample instead: the fold of a sum
exists, is unique, and an element may be taken out of it. The polynomial lemmas of
LoadProofs give the area below a slope and a wave interval by interval, and the outcome
of a bundle is unrolled, as no plan has more than three steps.

Model-checked only: liveness, that is `CrashIsRecorded`, `BootReleasesContainer`,
`EventIsFound`, `StopCompletes`, `PlainIsExecuted`, `ScenarioEnds`, `NothingHangs`,
`CheckEnds` and the fairness of BlockFeed in `ImplementsBlockFeed`. Fairness and ENABLED
are out of reach of the prover. Every invariant and every action property of the passing
runs is a theorem.

## Not modelled

- Contract bindings (`load/contracts`, generated code, about a third of the repository),
  the call data of transactions, genesis and rules, reports and scenarios: data without
  state.
- Decoding of scenarios, flags, progress display, output files: text.
- Docker images, networks, port mappings and the set-up of a container's files: calls
  of the docker API in a fixed order whose only outcome the model sees is success or
  failure.
- Peer tables: Scenario knows whether a node can join, not whom it is connected to.
- The collector that copies a client's log to a file, CSV export, and the metrics that
  are series fed like the modelled ones.
- Races on Go memory (controller.go:171): the outcome is inside the client library.

## Left of the plan

1. An abstract specification of the static check that Scenario implements: a scenario it
   accepts fails for a fault or the timeout only.
2. Composition of tracker and observers with their shutdown.
