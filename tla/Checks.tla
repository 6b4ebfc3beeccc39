------------------------------- MODULE Checks -------------------------------
(***************************************************************************)
(* The checks of driver/checking, one at a time as execCheck runs them     *)
(* (driver/executor/run.go), while the network under test keeps moving:    *)
(* nodes advance one by one, become unreachable, seal epochs, take over    *)
(* rules and emit events between any two reads of a check.                 *)
(*                                                                         *)
(* No node is started or stopped while a check runs, so GetActiveNodes is  *)
(* Nodes throughout.  It lists a Go map: the order of the nodes is any.    *)
(***************************************************************************)
EXTENDS Integers, Sequences, FiniteSets, SequencesExt, FiniteSetsExt

CONSTANTS
    Nodes,
    Validators,     \* the nodes with a validator id
    Specs,          \* the sub-checks, with the nodes that are expected to fail
    StartHeights,   \* the chains a check may find, as functions of the nodes
    Forks,          \* the first block a node disagrees about
    MaxHeight,      \* bound: the highest block of the chain
    MaxBlocks,      \* bound: blocks the nodes take while a check runs
    MaxFaults,      \* bound: changes of a node's reachability
    MaxEpochs,      \* bound: epochs sealed while a check runs
    MaxEvents,      \* bound: events a validator emits in an epoch
    maxSampleAttempts   \* 5 in event_throttled.go

Kinds == {"blockHeight", "blocksHashes", "blocksRolling", "blocksHalted", "blockGasRate",
          "networkRules", "validatorsActive", "eventThrottled"}

\* What the sub-checks of a scenario may ask for.  The patch of networkRules is
\* empty, updates rules, does not fit the rules of the nodes, or is malformed.
SubChecks == [kind : Kinds, tolerance : Int, duration : Int, failing : BOOLEAN,
              failures : SUBSET Nodes, expected : SUBSET Nodes,
              patch : {"none", "rules", "unfit", "invalid"}]
Unset     == -1     \* a tolerance or a duration that is not given

ASSUME NodesAssumption == IsFiniteSet(Nodes) /\ Nodes # {} /\ Validators \subseteq Nodes
ASSUME ChecksAssumption ==
    /\ Specs \subseteq SubChecks
    /\ StartHeights \subseteq [Nodes -> 0 .. MaxHeight] /\ Forks \subseteq [Nodes -> Nat]
    /\ MaxHeight \in Nat \ {0} /\ {MaxBlocks, MaxFaults, MaxEpochs, MaxEvents} \subseteq Nat
    /\ maxSampleAttempts \in Nat \ {0}

minComparableBlock    == 2
minObservationSamples == 2
minGapRatio           == 2

VARIABLES
    spec, pc, verdict,      \* the check under way and its outcome
    todo, got, failed,      \* nodes to visit, what they said, gotFailures
    limit, block,           \* blocksHashes: the range and the block compared
    attempt, late, ctx,     \* attempts made, deadline passed, context ended
    snap,                   \* eventThrottled: the snapshots taken
    height, fork, down,     \* the chain of each node, unreachable nodes
    applied,                \* the nodes whose rules match the patch
    epoch, view, members,   \* epochs sealed, each node's epoch, sets of validators
    events,                 \* events of each validator in each epoch
    missing,                \* the node asked lacks events it has announced
    samples, spikes, seen,  \* what the monitor recorded
    was,                    \* the network when the attempt began (history)
    watched, reported,      \* blocks taken and reported while it waits (history)
    everDown, spent         \* nodes unreachable at some time (history), bounds used

check   == <<spec, pc, verdict, todo, got, failed, limit, block, attempt, late, ctx, snap>>
network == <<height, fork, down, applied, epoch, view, members, events, missing,
             samples, spikes, seen, watched, reported, everDown, spent>>
vars    == <<check, network, was>>

Observing == {"blocksRolling", "blocksHalted", "blockGasRate"}
Polling   == {"blockHeight", "networkRules", "validatorsActive"}
Failing   == spec.failures       \* IsExpectedFailure
Healthy   == Nodes \ Failing
Is(kinds) == spec.kind \in kinds

\* checkSubChecks: malformed patches and observation windows shorter than two
\* samples are refused before the scenario starts.
SpecCheck(s) ==
    /\ s.kind = "networkRules" => s.patch # "invalid"
    /\ s.kind \in Observing =>
        /\ s.duration # Unset => s.duration >= minObservationSamples
        /\ (s.duration = Unset /\ s.tolerance # Unset) => s.tolerance >= minObservationSamples

defaultToleranceSamples == 2        \* bound: 10 in blocks_rolling.go
defaultSlack            == 1        \* bound: 5 in block_height.go

\* execCheck hands tolerance to blockHeight as slack and to the others as
\* their tolerance; what is not given keeps the checker's default.
slack == IF spec.tolerance # Unset THEN spec.tolerance ELSE defaultSlack
toleranceSamples == IF spec.tolerance # Unset THEN spec.tolerance ELSE defaultToleranceSamples

\* A duration is the timeout of the polling checks: they poll for 30 seconds
\* without one, and 0 is a single attempt.  validatorsActive ignores it.
polls == Is({"validatorsActive"}) \/ spec.duration = Unset \/ spec.duration > 0

\* observationWindow, in samples of the monitor.
observationWindow == IF spec.duration > 0 THEN spec.duration ELSE toleranceSamples

\* NewFailingChecker: a check marked as failing passes when it finds an error.
result ==
    IF spec.failing /\ verdict # "none" THEN IF verdict = "ok" THEN "error" ELSE "ok"
    ELSE verdict

Moment == [height |-> height, seen |-> seen, view |-> view, applied |-> applied,
           samples |-> [n \in Nodes |-> Len(samples[n])]]

Init ==
    /\ spec \in {s \in Specs : SpecCheck(s)}
    /\ pc = "start" /\ verdict = "none"
    /\ todo = {} /\ got = [n \in Nodes |-> 0] /\ failed = {}
    /\ limit = MaxHeight + 1 /\ block = 0
    /\ attempt = 0 /\ late = FALSE /\ ctx = "live" /\ snap = <<>>
    /\ height \in (IF Is({"blockHeight", "blocksHashes"} \cup Observing) THEN StartHeights
                   ELSE {[n \in Nodes |-> 1]})
    /\ fork \in (IF Is({"blocksHashes"}) THEN Forks ELSE {[n \in Nodes |-> MaxHeight + 1]})
    /\ down = {}
    /\ applied \in (IF Is({"networkRules"}) THEN SUBSET Nodes ELSE {{}})
    /\ epoch = 1 /\ view = [n \in Nodes |-> 1]
    /\ members \in (IF Is({"validatorsActive"}) THEN [1 .. MaxEpochs + 1 -> {{}, spec.expected}]
                    ELSE {[e \in 1 .. MaxEpochs + 1 |-> {}]})
    /\ events = [e \in 1 .. MaxEpochs + 1 |-> [n \in Nodes |-> 0]]
    /\ samples = [n \in Nodes |-> IF height[n] = 0 THEN <<>> ELSE <<height[n] - 1, height[n]>>]
    /\ spikes \in (IF Is({"blockGasRate"}) THEN SUBSET {Max(Range(height))} ELSE {{}})
    /\ seen \in (IF Is({"blockGasRate"}) THEN {Max(Range(height)), Max({0, Max(Range(height)) - 1})}
                 ELSE {0})
    /\ missing = FALSE /\ watched = [n \in Nodes |-> "no"] /\ reported = {}
    /\ was = Moment /\ everDown = {} /\ spent = [blocks |-> 0, faults |-> 0]

-----------------------------------------------------------------------------
(***************************************************************************)
(* The network.  What a check does not read is left alone while it runs.   *)
(***************************************************************************)
moving == pc \notin {"start", "done"} /\ UNCHANGED <<check, was>>

\* eventThrottled asks one node from the start to the end.
asked == IF Is({"eventThrottled"}) THEN todo ELSE Nodes

\* A node takes the next block of the chain; the first to do so may find that
\* its gas rate is above the ceiling.
Advance(n) ==
    /\ moving /\ Is({"blockHeight", "blocksHashes"} \cup Observing)
    /\ height[n] < MaxHeight /\ spent.blocks < MaxBlocks
    /\ spent' = [spent EXCEPT !.blocks = @ + 1]
    /\ height' = [height EXCEPT ![n] = @ + 1]
    /\ watched' = [watched EXCEPT ![n] = IF @ = "once" THEN "grown" ELSE @]
    /\ \/ UNCHANGED spikes
       \/ /\ Is({"blockGasRate"}) /\ height[n] = Max(Range(height))
          /\ spikes' = spikes \cup {height[n] + 1}
    /\ UNCHANGED <<fork, down, applied, epoch, view, members, events, missing, samples, seen,
                   reported, everDown>>

\* A node stops answering, or answers again.
ToggleReachable(n) ==
    /\ moving /\ ~Is({"blockGasRate"}) /\ n \in asked /\ spent.faults < MaxFaults
    /\ spent' = [spent EXCEPT !.faults = @ + 1]
    /\ down' = IF n \in down THEN down \ {n} ELSE down \cup {n}
    /\ everDown' = everDown \cup {n}
    /\ UNCHANGED <<height, fork, applied, epoch, view, members, events, missing, samples, spikes,
                   seen, watched, reported>>

\* A node reaches the epoch in which the updated rules hold.
ApplyRules(n) ==
    /\ moving /\ Is({"networkRules"}) /\ n \notin applied
    /\ applied' = applied \cup {n}
    /\ UNCHANGED <<height, fork, down, epoch, view, members, events, missing, samples, spikes,
                   seen, watched, reported, everDown, spent>>

SealEpoch ==
    /\ moving /\ Is({"validatorsActive", "eventThrottled"}) /\ epoch <= MaxEpochs
    /\ epoch' = epoch + 1
    /\ UNCHANGED <<height, fork, down, applied, view, members, events, missing, samples, spikes,
                   seen, watched, reported, everDown, spent>>

\* A node learns of an epoch that was sealed.
CatchUp(n) ==
    /\ moving /\ n \in asked /\ view[n] < epoch
    /\ view' = [view EXCEPT ![n] = @ + 1]
    /\ UNCHANGED <<height, fork, down, applied, epoch, members, events, missing, samples, spikes,
                   seen, watched, reported, everDown, spent>>

EmitEvent(n) ==
    /\ moving /\ Is({"eventThrottled"}) /\ n \in Validators /\ events[epoch][n] < MaxEvents
    /\ events' = [events EXCEPT ![epoch][n] = @ + 1]
    /\ UNCHANGED <<height, fork, down, applied, epoch, view, members, missing, samples, spikes,
                   seen, watched, reported, everDown, spent>>

\* The node asked drops events of its DAG: counts below them come out too low.
DropEvents ==
    /\ moving /\ Is({"eventThrottled"}) /\ ~missing /\ spent.faults < MaxFaults
    /\ spent' = [spent EXCEPT !.faults = @ + 1]
    /\ missing' = TRUE
    /\ UNCHANGED <<height, fork, down, applied, epoch, view, members, events, samples, spikes,
                   seen, watched, reported, everDown>>

\* The monitor samples the height of a node (NodeBlockStatus), and reads the
\* next block of the network's log (BlockGasRate).  A node that was sampled once
\* has grown when it takes a block, and is seen to have with the next sample.
Sample(n) ==
    /\ moving /\ Is({"blocksRolling", "blocksHalted"}) /\ pc = "observe" /\ n \notin down
    /\ Len(samples[n]) - was.samples[n] < observationWindow
    /\ samples' = [samples EXCEPT ![n] = Append(@, height[n])]
    /\ watched' = [watched EXCEPT ![n] = CASE @ = "no" -> "once" [] @ = "grown" -> "seen"
                                           [] OTHER -> @]
    /\ UNCHANGED <<height, fork, down, applied, epoch, view, members, events, missing, spikes,
                   seen, reported, everDown, spent>>

ReportBlock ==
    /\ moving /\ Is({"blockGasRate"}) /\ pc = "observe" /\ seen < Max(Range(height))
    /\ seen' = seen + 1 /\ reported' = reported \cup {seen + 1}
    /\ UNCHANGED <<height, fork, down, applied, epoch, view, members, events, missing, samples,
                   spikes, watched, everDown, spent>>

ContextEnds ==
    /\ ctx = "live" /\ pc # "done"
    /\ ctx' = "ended"
    /\ UNCHANGED <<spec, pc, verdict, todo, got, failed, limit, block, attempt, late, snap,
                   network, was>>

DeadlinePasses ==
    /\ Is(Polling) /\ polls /\ ~late /\ pc # "done"
    /\ late' = TRUE
    /\ UNCHANGED <<spec, pc, verdict, todo, got, failed, limit, block, attempt, ctx, snap,
                   network, was>>

-----------------------------------------------------------------------------
(***************************************************************************)
(* What the checks have in common.                                         *)
(***************************************************************************)
At(kinds, where) == Is(kinds) /\ pc = where /\ UNCHANGED <<spec, ctx, late, network>>

scratch == <<todo, got, failed, limit, block, attempt, snap>>

Finish(v) == pc' = "done" /\ verdict' = v /\ UNCHANGED <<scratch, was>>

GoTo(where, nodes) ==
    /\ pc' = where /\ todo' = nodes
    /\ UNCHANGED <<verdict, got, failed, limit, block, attempt, snap, was>>

\* A call fails when the node is unreachable; Call takes no context.  DialRpc
\* and BlockNumber fail when the context ended, too.
Reachable(n) == n \notin down
Dials(n)     == Reachable(n) /\ ctx = "live"

\* The convergence loops: an attempt that failed is repeated after a pause
\* until the deadline.
\* Fault: the deadline is not looked at.
alwaysRetry == polls

mayRetry == polls /\ ~late
Retry == IF mayRetry THEN GoTo("sleep", {}) ELSE Finish("error")

\* An attempt: every node is asked anew.  Without a validator or a well-formed
\* patch there is nothing to ask, and an empty patch is satisfied by every node.
BeginAttempt ==
    /\ At(Polling, "start")
    /\ CASE Is({"validatorsActive"}) /\ spec.expected = {} -> Finish("error")
         [] Is({"networkRules"}) /\ spec.patch = "invalid" -> Finish("error")
         [] Is({"networkRules"}) /\ spec.patch = "none" -> Finish("ok")
         [] OTHER -> /\ pc' = "read" /\ todo' = Nodes /\ was' = Moment
                     /\ got' = [n \in Nodes |-> 0] /\ failed' = {}
                     /\ UNCHANGED <<verdict, limit, block, attempt, snap>>

\* sleep: the pause, unless the context ends first.
Sleep ==
    /\ At(Polling, "sleep")
    /\ IF ctx = "ended" THEN Finish("error") ELSE GoTo("start", {})

-----------------------------------------------------------------------------
(***************************************************************************)
(* blockHeight: the heights are read concurrently, hence in any order.     *)
(***************************************************************************)
getBlockHeight(n) ==
    /\ At({"blockHeight"}, "read") /\ n \in todo
    /\ got' = [got EXCEPT ![n] = IF Dials(n) THEN height[n] ELSE -1]
    /\ todo' = todo \ {n}
    /\ UNCHANGED <<pc, verdict, failed, limit, block, attempt, snap, was>>

tooOld(n) == got[n] < Max(Range(got)) - slack

heightsAgree ==
    /\ \A n \in Nodes : got[n] >= 1
    /\ {n \in Nodes : tooOld(n)} = Failing

checkHeights ==
    /\ At({"blockHeight"}, "read") /\ todo = {}
    /\ IF heightsAgree THEN Finish("ok") ELSE Retry

-----------------------------------------------------------------------------
(***************************************************************************)
(* blocksHashes: dial all nodes, take the lowest head of the healthy ones, *)
(* and compare every block up to it.                                       *)
(***************************************************************************)
HashesStart == At({"blocksHashes"}, "start") /\ GoTo("dial", Nodes)

HashesDial(n) ==
    /\ At({"blocksHashes"}, "dial") /\ n \in todo
    /\ CASE Dials(n) ->
              /\ todo' = todo \ {n} /\ got' = [got EXCEPT ![n] = 1]
              /\ UNCHANGED <<pc, verdict, failed, limit, block, attempt, snap, was>>
         [] ~Dials(n) /\ n \in Failing ->
              /\ todo' = todo \ {n} /\ failed' = failed \cup {n}
              /\ UNCHANGED <<pc, verdict, got, limit, block, attempt, snap, was>>
         [] OTHER -> Finish("error")

HashesDialed ==
    /\ At({"blocksHashes"}, "dial") /\ todo = {}
    /\ IF Failing = Nodes THEN Finish("ok") ELSE GoTo("heights", Healthy)

\* Fault: the range ends at the highest head.
highest(h) == IF limit > MaxHeight THEN h ELSE Max({limit, h})

lowest(h) == Min({limit, h})

commonHeight(n) ==
    /\ At({"blocksHashes"}, "heights") /\ n \in todo
    /\ IF ~Dials(n) THEN Finish("error")
       ELSE /\ limit' = lowest(height[n]) /\ todo' = todo \ {n}
            /\ UNCHANGED <<pc, verdict, got, failed, block, attempt, snap, was>>

HashesLimit ==
    /\ At({"blocksHashes"}, "heights") /\ todo = {}
    /\ IF limit < minComparableBlock THEN Finish("error") ELSE GoTo("blocks", {})

\* The block as a node reports it: nil, or a hash that tells forks apart.
getBlockHashes(n, b) ==
    IF height[n] < b THEN <<>> ELSE IF b >= fork[n] THEN <<n, b>> ELSE <<b>>

compareHealthyNodes(b) ==
    /\ \A n \in Healthy : Reachable(n) /\ height[n] >= b
    /\ \A n, m \in Healthy : getBlockHashes(n, b) = getBlockHashes(m, b)

recordFailingNodes(b) ==
    {n \in Failing : \/ ~Reachable(n)
                     \/ \E m \in Healthy : getBlockHashes(n, b) # getBlockHashes(m, b)}

CompareBlock ==
    /\ At({"blocksHashes"}, "blocks") /\ block <= limit
    /\ IF compareHealthyNodes(block)
       THEN /\ block' = block + 1
            /\ failed' = failed \cup recordFailingNodes(block)
            /\ UNCHANGED <<pc, verdict, todo, got, limit, attempt, snap, was>>
       ELSE Finish("error")

HashesVerdict ==
    /\ At({"blocksHashes"}, "blocks") /\ block > limit
    /\ Finish(IF failed = Failing THEN "ok" ELSE "error")

-----------------------------------------------------------------------------
(***************************************************************************)
(* networkRules: one node after the other; the first healthy node that     *)
(* cannot be asked or disagrees ends the attempt, and so does the first    *)
(* node of any kind whose rules the patch does not fit.                    *)
(***************************************************************************)
CheckRules(n) ==
    /\ At({"networkRules"}, "read") /\ n \in todo
    /\ CASE Dials(n) /\ spec.patch = "unfit" -> Retry
         [] Dials(n) /\ spec.patch # "unfit" /\ n \in applied ->
              /\ todo' = todo \ {n}
              /\ UNCHANGED <<pc, verdict, got, failed, limit, block, attempt, snap, was>>
         [] ~(Dials(n) /\ (spec.patch = "unfit" \/ n \in applied)) /\ n \in Failing ->
              /\ todo' = todo \ {n} /\ failed' = failed \cup {n}
              /\ UNCHANGED <<pc, verdict, got, limit, block, attempt, snap, was>>
         [] OTHER -> Retry

RulesVerdict ==
    /\ At({"networkRules"}, "read") /\ todo = {}
    /\ IF failed = Failing THEN Finish("ok") ELSE Retry

-----------------------------------------------------------------------------
(***************************************************************************)
(* validatorsActive: the set of the current epoch of one reachable node.   *)
(***************************************************************************)
dialFirstReachable == {n \in Healthy : Dials(n)}

verifyAllActive(n) == spec.expected \subseteq members[view[n]]

ReadActiveValidators ==
    /\ At({"validatorsActive"}, "read")
    /\ \/ \E n \in dialFirstReachable :
             IF verifyAllActive(n) THEN Finish("ok") ELSE Retry
       \/ dialFirstReachable = {} /\ Retry

-----------------------------------------------------------------------------
(***************************************************************************)
(* blocksRolling, blocksHalted and blockGasRate observe the network        *)
(* forward in time, over the samples taken since the check began.          *)
(***************************************************************************)
BeginObservation ==
    /\ At(Observing, "start")
    /\ IF observationWindow < minObservationSamples THEN Finish("error")
       ELSE pc' = "observe" /\ was' = Moment /\ UNCHANGED <<verdict, scratch>>

\* Fault: the whole series is looked at.
allPoints(n) == samples[n]

\* series.GetRange(observationStart, last + 1)
points(n) == SubSeq(samples[n], was.samples[n] + 1, Len(samples[n]))

blocksRolling == \E n \in Nodes : points(n) # <<>> /\ Head(points(n)) < Last(points(n))

blocksHalted ==
    \A n \in Nodes : Len(points(n)) >= minObservationSamples =>
        \A i \in 2 .. Len(points(n)) : points(n)[i] <= points(n)[i - 1]

blockGasRate == spikes \cap (was.seen + 1 .. seen) = {}

(* What the check looks for in the samples it has taken. *)
observationHolds ==
    \/ Is({"blocksRolling"}) /\ blocksRolling
    \/ Is({"blocksHalted"}) /\ blocksHalted
    \/ Is({"blockGasRate"}) /\ blockGasRate

ObservationEnds ==
    /\ At(Observing, "observe")
    /\ Finish(IF ctx = "live" /\ observationHolds THEN "ok" ELSE "error")

-----------------------------------------------------------------------------
(***************************************************************************)
(* eventThrottled: two snapshots of the events of one epoch, retried when  *)
(* the epoch ended between them.                                           *)
(***************************************************************************)
ThrottleStart ==
    /\ At({"eventThrottled"}, "start")
    /\ IF spec.expected = {} \/ ~(spec.expected \subseteq Validators) \/ dialFirstReachable = {}
       THEN Finish("error")
       ELSE \E n \in dialFirstReachable : GoTo("epoch", {n})

\* An attempt is discarded; after the last one the check fails, and the pause
\* before the next ends with the context.
Discard ==
    IF attempt + 1 < maxSampleAttempts /\ ctx = "live"
    THEN /\ pc' = "epoch" /\ attempt' = attempt + 1 /\ snap' = <<>>
         /\ UNCHANGED <<verdict, todo, got, failed, limit, block, was>>
    ELSE Finish("error")

client == CHOOSE n \in todo : TRUE

\* snapshotEpochCounts asks for the current epoch first ...
ReadEpoch ==
    /\ At({"eventThrottled"}, "epoch")
    /\ IF ~Reachable(client) THEN Discard
       ELSE /\ snap' = Append(snap, [epoch |-> view[client], counts |-> [n \in Nodes |-> 0]])
            /\ pc' = "heads"
            /\ UNCHANGED <<verdict, todo, got, failed, limit, block, attempt, was>>

\* countEventsFromHeads: what the walk over the events of an epoch counts.  An
\* event the node lacks is skipped, with those that only it leads to.
countEventsFromHeads(e) ==
    IF missing THEN {f \in [Nodes -> 0 .. MaxEvents] : \A n \in Nodes : f[n] <= events[e][n]}
    ELSE {events[e]}

\* ... then for its heads, and counts the events below them.  The walk and the
\* pause between the snapshots end with the context.
ReadHeads ==
    /\ At({"eventThrottled"}, "heads")
    /\ \E counts \in countEventsFromHeads(Last(snap).epoch) :
         IF ~Dials(client) \/ \A n \in Nodes : counts[n] = 0 THEN Discard
         ELSE /\ snap' = [snap EXCEPT ![Len(snap)].counts = counts]
              /\ pc' = IF Len(snap) = 1 THEN "epoch" ELSE "rates"
              /\ UNCHANGED <<verdict, todo, got, failed, limit, block, attempt, was>>

sameEpoch == snap[1].epoch = snap[2].epoch

\* The rates of the validators that were observed, below zero when events are
\* missing; the measured interval is the same for all of them.
emitted(n) == snap[2].counts[n] - snap[1].counts[n]

verifyThrottled ==
    LET observed == {n \in Nodes : snap[2].counts[n] > 0}
        listed   == observed \cap spec.expected
        unlisted == observed \ spec.expected
        fastest  == Max({emitted(n) : n \in listed})
        slowest  == Min({emitted(n) : n \in unlisted})
    IN  /\ listed # {} /\ unlisted # {}
        /\ CASE fastest = 0 -> slowest # 0
             [] fastest > 0 -> slowest >= minGapRatio * fastest
             [] fastest < 0 -> slowest <= minGapRatio * fastest

ThrottleVerdict ==
    /\ At({"eventThrottled"}, "rates")
    /\ IF sameEpoch THEN Finish(IF verifyThrottled THEN "ok" ELSE "error") ELSE Discard

-----------------------------------------------------------------------------
Environment ==
    \/ \E n \in Nodes : \/ Advance(n) \/ ToggleReachable(n) \/ ApplyRules(n) \/ CatchUp(n)
                        \/ EmitEvent(n) \/ Sample(n)
    \/ SealEpoch \/ DropEvents \/ ReportBlock \/ ContextEnds

Check ==
    \/ BeginAttempt \/ Sleep
    \/ \E n \in Nodes : getBlockHeight(n) \/ HashesDial(n) \/ commonHeight(n) \/ CheckRules(n)
    \/ checkHeights \/ RulesVerdict \/ ReadActiveValidators
    \/ HashesStart \/ HashesDialed \/ HashesLimit \/ CompareBlock \/ HashesVerdict
    \/ BeginObservation \/ ObservationEnds
    \/ ThrottleStart \/ ReadEpoch \/ ReadHeads \/ ThrottleVerdict

Next == Environment \/ DeadlinePasses \/ Check

\* Time passes, and the calls of a check return.
Spec == Init /\ [][Next]_vars /\ WF_vars(Check) /\ WF_vars(DeadlinePasses)

-----------------------------------------------------------------------------
Heights == [Nodes -> 0 .. MaxHeight]

CheckTypes ==
    /\ spec \in Specs /\ SpecCheck(spec)
    /\ pc \in {"start", "read", "sleep", "dial", "heights", "blocks", "observe",
               "epoch", "heads", "rates", "done"}
    /\ verdict \in {"none", "ok", "error"} /\ (verdict = "none" <=> pc # "done")
    /\ todo \subseteq Nodes /\ failed \subseteq Failing /\ got \in [Nodes -> Int]
    /\ limit \in 0 .. MaxHeight + 1 /\ block \in 0 .. MaxHeight + 2
    /\ attempt \in 0 .. maxSampleAttempts - 1 /\ ctx \in {"live", "ended"}

NetworkTypes ==
    /\ height \in Heights /\ fork \in [Nodes -> Nat] /\ applied \subseteq Nodes
    /\ down \subseteq everDown /\ everDown \subseteq Nodes
    /\ epoch \in 1 .. MaxEpochs + 1 /\ view \in [Nodes -> Nat]
    /\ \A n \in Nodes : 1 <= view[n] /\ view[n] <= epoch
    /\ events \in [1 .. MaxEpochs + 1 -> [Nodes -> Nat]]
    /\ samples \in [Nodes -> Seq(Nat)]
    /\ missing \in BOOLEAN /\ spikes \subseteq Nat /\ seen \in Nat
    /\ watched \in [Nodes -> {"no", "once", "grown", "seen"}] /\ reported \subseteq Nat

TypeOK == CheckTypes /\ NetworkTypes

\* What a check that found nothing wrong vouches for.
Promise ==
    /\ Is({"blockHeight"}) =>
         /\ \A n \in Healthy : height[n] >= Max(Range(was.height)) - slack
         /\ \A n \in Failing : was.height[n] < Max(Range(height)) - slack
    /\ Is({"blocksHashes"}) /\ Healthy # {} =>
         /\ limit >= minComparableBlock /\ \E n \in Healthy : limit >= was.height[n]
         /\ \A b \in 0 .. limit, n, m \in Healthy : getBlockHashes(n, b) = getBlockHashes(m, b)
         /\ \A n \in Failing :
              \/ ctx = "ended" \/ n \in everDown \/ was.height[n] < limit
              \/ \E b \in 0 .. limit, m \in Healthy : getBlockHashes(n, b) # getBlockHashes(m, b)
    /\ Is({"networkRules"}) /\ spec.patch # "none" =>
         /\ Healthy \subseteq applied
         /\ ctx = "live" => Failing \cap was.applied \subseteq everDown
    /\ Is({"validatorsActive"}) =>
         \E n \in Healthy : \E e \in was.view[n] .. epoch : spec.expected \subseteq members[e]
    /\ Is({"blocksRolling"}) => \E n \in Nodes : watched[n] = "seen" /\ height[n] > was.height[n]
    /\ Is({"blocksHalted"})  => \A n \in Nodes : watched[n] # "seen"
    /\ Is({"blockGasRate"})  => spikes \cap reported = {}
    /\ Is({"eventThrottled"}) =>
         \E e \in 1 .. epoch : \A n \in Nodes :
             (missing \/ 0 <= emitted(n)) /\ snap[2].counts[n] <= events[e][n]

\* What may be wrong with the network when a check finds an error.
Reason ==
    \/ ctx = "ended" \/ everDown # {}
    \/ /\ Is({"blockHeight"})
       /\ \/ \E n \in Nodes : was.height[n] < 1
          \/ \E n \in Healthy : was.height[n] < Max(Range(height)) - slack
          \/ \E n \in Failing : height[n] >= Max(Range(was.height)) - slack
    \/ /\ Is({"blocksHashes"})
       /\ \/ \E n \in Healthy : was.height[n] < minComparableBlock \/ fork[n] <= limit
          \/ \E n \in Failing : fork[n] > limit
    \/ /\ Is({"networkRules"})
       /\ \/ spec.patch = "unfit"
          \/ ~(Healthy \subseteq was.applied) \/ Failing \cap applied # {}
    \/ /\ Is({"validatorsActive"})
       /\ \/ spec.expected = {} \/ Healthy = {}
          \/ \E e \in 1 .. epoch : ~(spec.expected \subseteq members[e])
    \/ Is({"blocksRolling"}) /\ \A n \in Nodes : watched[n] # "seen"
    \/ Is({"blocksHalted"}) /\ \E n \in Nodes : watched[n] = "seen" /\ height[n] > was.height[n]
    \/ Is({"blockGasRate"}) /\ spikes \cap reported # {}
    \/ /\ Is({"eventThrottled"})
       /\ \/ ~(spec.expected \subseteq Validators) \/ spec.expected = {} \/ Healthy = {}
          \/ attempt + 1 = maxSampleAttempts \/ ~verifyThrottled

\* A check passes only when the network was as it says, although its nodes
\* moved between its reads: heights within the slack of each other, the blocks
\* all healthy nodes have equal, new rules on all of them unless the patch is
\* empty, the validators in the set of an epoch no older than the start of the
\* check, event counts of a single epoch.  blocksRolling passes when a node took
\* a block between two samples of it, blocksHalted when none did, and
\* blockGasRate when no block reported while it waited was above the ceiling:
\* what happens between the samples, or is reported later, they do not vouch
\* for.  A check expected to fail passes only for a reason (driver/checking,
\* checker.go NewFailingChecker).
PassIsEarned ==
    result = "ok" => IF spec.failing THEN Reason ELSE Promise

\* A check fails only for a reason; a chain that grows under it or a window
\* checkSubChecks let through never is one.  The checks that observe through
\* the monitor do fail when it lags: blocksRolling when no node was sampled both
\* before and after a block it took, blockGasRate on a block above the ceiling
\* that was reported while the check waited, whenever it was produced
\* (block_height.go, blocks_hashes.go, timing.go observationWindow).
FailureIsReal ==
    result = "error" => IF spec.failing THEN Promise ELSE Reason

\* Every check ends: it polls until its deadline, retries a bounded number of
\* times, and never chases the growing chain (blocks_hashes.go, timing.go).
CheckEnds == <>(pc = "done")

\* A block with a high gas rate fails the check only if it was produced while
\* the check waited.
\* Refuted: see the README.
OnlyNewBlocksFail ==
    (spec.kind = "blockGasRate" /\ verdict = "error" /\ ctx = "live") =>
        \E b \in spikes : b > Max(Range(was.height))

\* blocksRolling fails only when no node took a block while it waited.
\* Refuted: see the README.
OnlyStandstillFails ==
    (spec.kind = "blocksRolling" /\ verdict = "error" /\ ctx = "live" /\ everDown = {}) =>
        height = was.height

=============================================================================
