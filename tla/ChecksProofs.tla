---------------------------- MODULE ChecksProofs -----------------------------
(***************************************************************************)
(* PassIsEarned and FailureIsReal for every network, every sub-check a     *)
(* scenario may ask for, and every way the network moves under a check.    *)
(*                                                                         *)
(* The network only grows while a check runs (Grows), so what a check read *)
(* lies between the network it began with and the one it ends with.        *)
(***************************************************************************)
EXTENDS Checks, SetLemmas, SequenceTheorems

-----------------------------------------------------------------------------
(* The inductive invariant *)

(* The network moved on since the attempt began. *)
SinceWas ==
  /\ was.height \in Heights /\ was.seen \in Nat /\ was.view \in [Nodes -> Nat]
  /\ was.applied \subseteq applied /\ was.seen <= seen
  /\ was.samples \in [Nodes -> Nat]
  /\ \A n \in Nodes : /\ was.height[n] <= height[n]
                      /\ 1 <= was.view[n] /\ was.view[n] <= view[n]
                      /\ was.samples[n] <= Len(samples[n])

(* The samples taken since then are heights of the meantime, in order. *)
SamplesRise ==
  \A n \in Nodes :
    /\ \A i \in was.samples[n] + 1 .. Len(samples[n]) :
         was.height[n] <= samples[n][i] /\ samples[n][i] <= height[n]
    /\ \A i, j \in was.samples[n] + 1 .. Len(samples[n]) :
         i <= j => samples[n][i] <= samples[n][j]

(* What the monitor saw of a node, and what it reported, while the check   *)
(* waits: no sample, samples of its present height, samples of one height  *)
(* below it, samples of two heights.                                       *)
Observed ==
  /\ pc \notin {"observe", "done"} => reported = {} /\ \A n \in Nodes : watched[n] = "no"
  /\ reported = was.seen + 1 .. seen
  /\ \A n \in Nodes :
       /\ watched[n] = "no" <=> Len(samples[n]) = was.samples[n]
       /\ watched[n] = "once" =>
            \A i \in was.samples[n] + 1 .. Len(samples[n]) : samples[n][i] = height[n]
       /\ watched[n] = "grown" =>
            /\ samples[n][was.samples[n] + 1] < height[n]
            /\ \A i \in was.samples[n] + 1 .. Len(samples[n]) :
                 samples[n][i] = samples[n][was.samples[n] + 1]
       /\ watched[n] = "seen" => samples[n][was.samples[n] + 1] < Last(samples[n])

Unanswered(n) == n \in everDown \/ ctx = "ended"

HeightsRead ==
  Is({"blockHeight"}) /\ pc = "read" =>
    \A n \in Nodes \ todo :
      \/ was.height[n] <= got[n] /\ got[n] <= height[n]
      \/ Unanswered(n) /\ got[n] = -1

(* The blocks compared so far agree, the nodes in failed disagreed, and    *)
(* the others that may fail did not.                                       *)
HashesRead ==
  Is({"blocksHashes"}) =>
    /\ pc = "start" => failed = {}
    /\ pc \in {"start", "dial"} => block = 0 /\ limit = MaxHeight + 1
    /\ pc = "dial" => \A n \in failed : Unanswered(n)
    /\ pc \in {"heights", "blocks"} => Healthy # {}
    /\ pc = "heights" =>
         /\ block = 0 /\ todo \subseteq Healthy /\ \A n \in failed : Unanswered(n)
         /\ \A n \in Healthy \ todo : limit <= height[n]
         /\ limit = MaxHeight + 1 \/ \E n \in Healthy : was.height[n] <= limit
    /\ pc = "blocks" =>
         /\ limit >= minComparableBlock /\ block <= limit + 1
         /\ \A n \in Healthy : limit <= height[n]
         /\ \E n \in Healthy : was.height[n] <= limit
         /\ \A k \in 0 .. block - 1 : \A n, m \in Healthy : getBlockHashes(n, k) = getBlockHashes(m, k)
         /\ \A n \in failed :
              \/ Unanswered(n) \/ was.height[n] < limit
              \/ \E k \in 0 .. block - 1 : \E m \in Healthy :
                   k <= height[n] /\ getBlockHashes(n, k) # getBlockHashes(m, k)
         /\ \A n \in Failing \ failed : \A k \in 0 .. block - 1 : k < fork[n]

RulesRead ==
  Is({"networkRules"}) /\ pc = "read" =>
    /\ Nodes \ (todo \cup failed) \subseteq applied
    /\ \A n \in failed : Unanswered(n) \/ n \notin was.applied

(* The snapshots are counts of their epoch, and the second of one epoch    *)
(* is not below the first unless events are missing.                       *)
SnapshotsTaken ==
  Is({"eventThrottled"}) =>
    /\ pc = "start" => snap = <<>>
    /\ pc \in {"epoch", "heads", "rates"} => todo # {}
    /\ pc = "epoch" => Len(snap) \in {0, 1}
    /\ pc = "heads" => Len(snap) \in {1, 2}
    /\ pc = "rates" => Len(snap) = 2
    /\ snap \in Seq([epoch : Nat, counts : [Nodes -> Nat]])
    /\ \A i \in 1 .. Len(snap) :
         /\ 1 <= snap[i].epoch /\ snap[i].epoch <= epoch
         /\ \A n \in Nodes : snap[i].counts[n] <= events[snap[i].epoch][n]
    /\ pc = "rates" /\ sameEpoch /\ ~missing =>
         \A n \in Nodes : snap[1].counts[n] <= snap[2].counts[n]

Verdict == (verdict = "ok" => Promise) /\ (verdict = "error" => Reason)

Types == CheckTypes /\ NetworkTypes /\ SinceWas /\ SamplesRise /\ Observed

ChecksInv ==
  /\ Types /\ HeightsRead /\ HashesRead /\ RulesRead /\ SnapshotsTaken /\ Verdict

-----------------------------------------------------------------------------
(* Heights and samples *)

(* The highest of the values of a function of the nodes. *)
LEMMA MaxOfRange ==
  ASSUME NEW f \in [Nodes -> Int]
  PROVE  /\ Max(Range(f)) \in Int /\ \A n \in Nodes : f[n] <= Max(Range(f))
         /\ \E n \in Nodes : f[n] = Max(Range(f))
<1>1. Range(f) = {f[n] : n \in Nodes}
  BY DEF Range
<1>2. IsFiniteSet(Range(f))
  <2>1. f \in Surjection(Nodes, Range(f))
    BY <1>1 DEF Surjection
  <2> QED BY <2>1, NodesAssumption, FS_Surjection
<1>3. Range(f) \subseteq Int /\ Range(f) # {}
  BY <1>1, NodesAssumption
<1>4. Max(Range(f)) \in Range(f) /\ \A y \in Range(f) : y <= Max(Range(f))
  BY <1>2, <1>3, MaxOfFinite
<1> QED
  BY <1>1, <1>3, <1>4

(* Pointwise order carries over to the highest value. *)
LEMMA MaxIsMonotone ==
  ASSUME NEW f \in [Nodes -> Int], NEW g \in [Nodes -> Int], \A n \in Nodes : f[n] <= g[n]
  PROVE  Max(Range(f)) <= Max(Range(g))
<1>1. PICK n \in Nodes : f[n] = Max(Range(f))
  BY MaxOfRange
<1>2. f[n] <= g[n] /\ g[n] <= Max(Range(g)) /\ Max(Range(g)) \in Int /\ f[n] \in Int /\ g[n] \in Int
  BY MaxOfRange
<1> QED
  BY <1>1, <1>2

(* What a sub-check of a scenario looks like. *)
LEMMA SpecIs ==
  ASSUME CheckTypes
  PROVE  /\ spec.kind \in Kinds /\ spec.tolerance \in Int /\ spec.duration \in Int
         /\ spec.failing \in BOOLEAN /\ Failing \subseteq Nodes /\ Healthy \subseteq Nodes
         /\ slack \in Int
  BY ChecksAssumption DEF CheckTypes, SubChecks, Failing, Healthy, slack, defaultSlack, Unset

-----------------------------------------------------------------------------
(* The network grows *)

Grows ==
  /\ UNCHANGED <<spec, pc, verdict, todo, got, failed, limit, block, attempt, snap, was>>
  /\ fork' = fork /\ members' = members
  /\ \A n \in Nodes : height[n] <= height'[n] /\ view[n] <= view'[n]
  /\ epoch <= epoch' /\ applied \subseteq applied' /\ everDown \subseteq everDown'
  /\ ctx = "ended" => ctx' = "ended"
  /\ missing => missing'
  /\ \A e \in 1 .. MaxEpochs + 1 : \A n \in Nodes : events[e][n] <= events'[e][n]

(* What does not move grows as well. *)
LEMMA Ordered ==
  ASSUME Types
  PROVE  /\ epoch <= epoch
         /\ \A n \in Nodes : height[n] <= height[n] /\ view[n] <= view[n]
         /\ \A e \in 1 .. MaxEpochs + 1 : \A n \in Nodes : events[e][n] <= events[e][n]
<1>1. \A e \in 1 .. MaxEpochs + 1 : \A n \in Nodes : events[e][n] \in Nat
  BY DEF Types, NetworkTypes
<1>2. epoch \in Int /\ \A n \in Nodes : height[n] \in Int /\ view[n] \in Int
  BY DEF Types, NetworkTypes, Heights
<1> QED
  BY <1>1, <1>2

(* A node takes a block. *)
LEMMA AdvanceGrows ==
  ASSUME Types, NEW n \in Nodes, Advance(n)
  PROVE  Grows /\ Types'
<1>1. height \in Heights /\ height[n] < MaxHeight /\ height' = [height EXCEPT ![n] = @ + 1]
  BY DEF Types, NetworkTypes, Advance
<1>2. /\ height' \in Heights /\ \A k \in Nodes : height[k] <= height'[k]
      /\ height[n] \in Nat
  BY <1>1, ChecksAssumption DEF Heights
<1>3. spikes' \subseteq Nat
  BY <1>2 DEF Advance, Types, NetworkTypes
<1>4. /\ UNCHANGED <<check, was, fork, down, applied, epoch, view, members, events, missing,
                     samples, seen, reported, everDown>>
      /\ watched' = [watched EXCEPT ![n] = IF watched[n] = "once" THEN "grown" ELSE watched[n]]
  BY DEF Advance, moving
<1>5. CheckTypes'
  BY <1>4 DEF Types, CheckTypes, check, Failing
<1>6. NetworkTypes'
  <2>1. watched' \in [Nodes -> {"no", "once", "grown", "seen"}]
    BY <1>4 DEF Types, NetworkTypes
  <2> QED BY <1>2, <1>3, <1>4, <2>1 DEF Types, NetworkTypes
<1>7. SinceWas'
  <2>1. \A k \in Nodes : was.height[k] <= height'[k]
    BY <1>1, <1>2 DEF Types, SinceWas, Heights
  <2> QED BY <1>4, <2>1 DEF Types, SinceWas
<1>8. SamplesRise'
  <2>1. \A k \in Nodes : \A i \in was.samples[k] + 1 .. Len(samples[k]) : samples[k][i] <= height'[k]
    <3> TAKE k \in Nodes
    <3> TAKE i \in was.samples[k] + 1 .. Len(samples[k])
    <3>1. samples[k][i] <= height[k] /\ height[k] <= height'[k]
      BY <1>2 DEF Types, SamplesRise
    <3>2. samples[k] \in Seq(Nat) /\ i \in 1 .. Len(samples[k])
      BY DEF Types, NetworkTypes, SinceWas
    <3>3. samples[k][i] \in Nat /\ height[k] \in Nat /\ height'[k] \in Nat
      BY <1>1, <1>2, <3>2 DEF Heights
    <3> QED BY <3>1, <3>3
  <2> QED BY <1>4, <2>1 DEF Types, SamplesRise
<1>9. Grows
  BY <1>2, <1>4, Ordered DEF Grows, check
<1>10. Observed'
  <2>1. ASSUME NEW k \in Nodes
        PROVE  /\ watched'[k] = "no" <=> Len(samples[k]) = was.samples[k]
               /\ watched'[k] = "once" =>
                    \A i \in was.samples[k] + 1 .. Len(samples[k]) : samples[k][i] = height'[k]
               /\ watched'[k] = "grown" =>
                    /\ samples[k][was.samples[k] + 1] < height'[k]
                    /\ \A i \in was.samples[k] + 1 .. Len(samples[k]) :
                         samples[k][i] = samples[k][was.samples[k] + 1]
               /\ watched'[k] = "seen" => samples[k][was.samples[k] + 1] < Last(samples[k])
    <3>1. /\ watched[k] = "no" <=> Len(samples[k]) = was.samples[k]
          /\ watched[k] = "once" =>
               \A i \in was.samples[k] + 1 .. Len(samples[k]) : samples[k][i] = height[k]
          /\ watched[k] = "grown" =>
               /\ samples[k][was.samples[k] + 1] < height[k]
               /\ \A i \in was.samples[k] + 1 .. Len(samples[k]) :
                    samples[k][i] = samples[k][was.samples[k] + 1]
          /\ watched[k] = "seen" => samples[k][was.samples[k] + 1] < Last(samples[k])
      BY DEF Types, Observed
    <3>2. CASE k # n
      <4>1. watched'[k] = watched[k] /\ height'[k] = height[k]
        BY <1>1, <1>4, <3>2 DEF Types, NetworkTypes, Heights
      <4> QED BY <3>1, <4>1
    <3>3. CASE k = n /\ watched[n] # "once"
      <4>1. watched'[k] = watched[k] /\ height'[k] = height[k] + 1
        BY <1>1, <1>4, <3>3 DEF Types, NetworkTypes, Heights
      <4>2. CASE watched[k] # "grown"
        BY <3>1, <3>3, <4>1, <4>2
      <4>3. CASE watched[k] = "grown"
        <5>1. /\ samples[k] \in Seq(Nat) /\ was.samples[k] \in Nat
              /\ was.samples[k] <= Len(samples[k]) /\ was.samples[k] # Len(samples[k])
          BY <3>1, <4>3 DEF Types, NetworkTypes, SinceWas
        <5>2. samples[k][was.samples[k] + 1] \in Nat
          BY <5>1
        <5> QED BY <1>2, <3>1, <3>3, <4>1, <4>3, <5>2
      <4> QED BY <4>2, <4>3
    <3>4. CASE k = n /\ watched[n] = "once"
      <4>1. watched'[k] = "grown" /\ height'[k] = height[k] + 1
        BY <1>1, <1>4, <3>4 DEF Types, NetworkTypes, Heights
      <4>2. /\ samples[k] \in Seq(Nat) /\ was.samples[k] \in Nat
            /\ was.samples[k] <= Len(samples[k]) /\ was.samples[k] # Len(samples[k])
        BY <3>1, <3>4 DEF Types, NetworkTypes, SinceWas
      <4>3. was.samples[k] + 1 \in was.samples[k] + 1 .. Len(samples[k])
        BY <4>2
      <4>4. \A i \in was.samples[k] + 1 .. Len(samples[k]) : samples[k][i] = height[k]
        BY <3>1, <3>4
      <4>5. samples[k][was.samples[k] + 1] = height[k] /\ height[k] < height'[k]
        BY <1>2, <3>4, <4>1, <4>3, <4>4
      <4> QED BY <3>1, <3>4, <4>1, <4>2, <4>4, <4>5
    <3> QED BY <3>2, <3>3, <3>4
  <2>2. pc \notin {"observe", "done"} => \A k \in Nodes : watched'[k] = "no"
    BY <1>4 DEF Types, Observed, NetworkTypes
  <2> QED BY <1>4, <2>1, <2>2 DEF Types, Observed, check
<1> QED
  BY <1>5, <1>6, <1>7, <1>8, <1>9, <1>10 DEF Types

(* The monitor samples a node. *)
LEMMA SampleGrows ==
  ASSUME Types, NEW n \in Nodes, Sample(n)
  PROVE  Grows /\ Types'
<1>1. /\ samples' = [samples EXCEPT ![n] = Append(samples[n], height[n])]
      /\ UNCHANGED <<check, was, height, fork, down, applied, epoch, view, members, events,
                     missing, spikes, seen, reported, everDown>>
      /\ watched' = [watched EXCEPT ![n] = CASE watched[n] = "no" -> "once"
                                             [] watched[n] = "grown" -> "seen"
                                             [] OTHER -> watched[n]]
      /\ pc = "observe"
  BY DEF Sample, moving
<1>2. /\ samples \in [Nodes -> Seq(Nat)] /\ height[n] \in Nat /\ height \in Heights
      /\ was.samples \in [Nodes -> Nat] /\ was.samples[n] <= Len(samples[n])
      /\ was.height[n] <= height[n]
  BY DEF Types, NetworkTypes, Heights, SinceWas
<1>3. /\ samples' \in [Nodes -> Seq(Nat)]
      /\ \A k \in Nodes \ {n} : samples'[k] = samples[k]
      /\ samples'[n] = Append(samples[n], height[n])
      /\ Len(samples'[n]) = Len(samples[n]) + 1
      /\ samples'[n][Len(samples[n]) + 1] = height[n]
      /\ \A i \in 1 .. Len(samples[n]) : samples'[n][i] = samples[n][i]
      /\ Len(samples[n]) \in Nat
  BY <1>1, <1>2
<1>4. CheckTypes' /\ NetworkTypes' /\ SinceWas'
  <2>1. CheckTypes'
    BY <1>1 DEF Types, CheckTypes, check, Failing
  <2>2. NetworkTypes'
    <3>1. watched' \in [Nodes -> {"no", "once", "grown", "seen"}]
      BY <1>1 DEF Types, NetworkTypes
    <3> QED BY <1>1, <1>3, <3>1 DEF Types, NetworkTypes
  <2>3. \A k \in Nodes : was.samples[k] <= Len(samples'[k])
    <3> TAKE k \in Nodes
    <3>1. CASE k = n
      BY <1>2, <1>3, <3>1
    <3>2. CASE k # n
      BY <1>3, <3>2 DEF Types, SinceWas
    <3> QED BY <3>1, <3>2
  <2>4. SinceWas'
    BY <1>1, <2>3 DEF Types, SinceWas
  <2> QED BY <2>1, <2>2, <2>4
<1>5. SamplesRise'
  <2> SUFFICES ASSUME NEW k \in Nodes
      PROVE  /\ \A i \in was.samples[k] + 1 .. Len(samples'[k]) :
                  was.height[k] <= samples'[k][i] /\ samples'[k][i] <= height[k]
             /\ \A i, j \in was.samples[k] + 1 .. Len(samples'[k]) :
                  i <= j => samples'[k][i] <= samples'[k][j]
    BY <1>1 DEF SamplesRise
  <2>1. CASE k # n
    BY <1>3, <2>1 DEF Types, SamplesRise
  <2>2. CASE k = n
    <3>1. \A i \in was.samples[n] + 1 .. Len(samples[n]) :
            /\ was.height[n] <= samples[n][i] /\ samples[n][i] <= height[n]
            /\ i \in 1 .. Len(samples[n])
      BY <1>2 DEF Types, SamplesRise
    <3>2. \A i, j \in was.samples[n] + 1 .. Len(samples[n]) :
            i <= j => samples[n][i] <= samples[n][j]
      BY DEF Types, SamplesRise
    <3>3. \A i \in was.samples[n] + 1 .. Len(samples'[n]) :
            i \in was.samples[n] + 1 .. Len(samples[n]) \/ i = Len(samples[n]) + 1
      BY <1>2, <1>3
    <3>4. \A i \in was.samples[n] + 1 .. Len(samples'[n]) :
            was.height[n] <= samples'[n][i] /\ samples'[n][i] <= height[n]
      BY <1>2, <1>3, <3>1, <3>3, SMTT(30)
    <3>5. ASSUME NEW i \in was.samples[n] + 1 .. Len(samples'[n]),
                 NEW j \in was.samples[n] + 1 .. Len(samples'[n]), i <= j
          PROVE  samples'[n][i] <= samples'[n][j]
      <4>1. CASE j = Len(samples[n]) + 1
        BY <1>3, <3>4, <4>1
      <4>2. CASE j # Len(samples[n]) + 1
        <5>1. j \in was.samples[n] + 1 .. Len(samples[n]) /\ i \in was.samples[n] + 1 .. Len(samples[n])
          BY <1>2, <1>3, <3>3, <3>5, <4>2
        <5> QED BY <1>3, <3>1, <3>2, <3>5, <5>1
      <4> QED BY <4>1, <4>2
    <3> QED BY <2>2, <3>4, <3>5
  <2> QED BY <2>1, <2>2
<1>6. Grows
  BY <1>1, Ordered DEF Grows, check
<1>7. Observed'
  <2>1. ASSUME NEW k \in Nodes
        PROVE  /\ watched'[k] = "no" <=> Len(samples'[k]) = was.samples[k]
               /\ watched'[k] = "once" =>
                    \A i \in was.samples[k] + 1 .. Len(samples'[k]) : samples'[k][i] = height[k]
               /\ watched'[k] = "grown" =>
                    /\ samples'[k][was.samples[k] + 1] < height[k]
                    /\ \A i \in was.samples[k] + 1 .. Len(samples'[k]) :
                         samples'[k][i] = samples'[k][was.samples[k] + 1]
               /\ watched'[k] = "seen" => samples'[k][was.samples[k] + 1] < Last(samples'[k])
    <3>1. /\ watched[k] = "no" <=> Len(samples[k]) = was.samples[k]
          /\ watched[k] = "once" =>
               \A i \in was.samples[k] + 1 .. Len(samples[k]) : samples[k][i] = height[k]
          /\ watched[k] = "grown" =>
               /\ samples[k][was.samples[k] + 1] < height[k]
               /\ \A i \in was.samples[k] + 1 .. Len(samples[k]) :
                    samples[k][i] = samples[k][was.samples[k] + 1]
          /\ watched[k] = "seen" => samples[k][was.samples[k] + 1] < Last(samples[k])
      BY DEF Types, Observed
    <3>2. CASE k # n
      <4>1. watched'[k] = watched[k] /\ samples'[k] = samples[k]
        BY <1>1, <1>3, <3>2 DEF Types, NetworkTypes
      <4> QED BY <3>1, <4>1
    <3>3. CASE k = n
      <4> DEFINE L == Len(samples[n])
                 f == was.samples[n]
      <4>1. /\ L \in Nat /\ f \in Nat /\ f <= L /\ Len(samples'[n]) = L + 1
            /\ samples'[n][L + 1] = height[n] /\ Last(samples'[n]) = height[n]
            /\ \A i \in 1 .. L : samples'[n][i] = samples[n][i] /\ samples[n][i] \in Nat
            /\ f + 1 .. L \subseteq 1 .. L
            /\ \A i \in f + 1 .. L + 1 : i \in f + 1 .. L \/ i = L + 1
        BY <1>2, <1>3, SMTT(30) DEF Last
      <4>2. watched[n] # "no" => f + 1 \in f + 1 .. L /\ f < L
        BY <3>1, <3>3, <4>1
      <4>3. CASE watched[n] = "no"
        <5>1. watched'[n] = "once" /\ f = L
          BY <1>1, <3>1, <3>3, <4>3 DEF Types, NetworkTypes
        <5> QED BY <3>3, <4>1, <5>1
      <4>4. CASE watched[n] = "once"
        <5>1. watched'[n] = "once"
          BY <1>1, <4>4 DEF Types, NetworkTypes
        <5> QED BY <3>1, <3>3, <4>1, <4>2, <4>4, <5>1, SMTT(30)
      <4>5. CASE watched[n] = "grown"
        <5>1. watched'[n] = "seen"
          BY <1>1, <4>5 DEF Types, NetworkTypes
        <5> QED BY <3>1, <3>3, <4>1, <4>2, <4>5, <5>1
      <4>6. CASE watched[n] = "seen"
        <5>1. watched'[n] = "seen"
          BY <1>1, <4>6 DEF Types, NetworkTypes
        <5>2. Last(samples[n]) = samples[n][L] /\ L \in f + 1 .. L /\ L \in 1 .. L
          BY <4>1, <4>2, <4>6 DEF Last
        <5>3. samples[n][L] <= height[n]
          BY <5>2 DEF Types, SamplesRise
        <5>4. f + 1 \in 1 .. L
          BY <4>1, <4>2, <4>6
        <5>5. samples'[n][f + 1] = samples[n][f + 1] /\ samples[n][f + 1] \in Nat /\ samples[n][L] \in Nat
          BY <4>1, <5>2, <5>4
        <5>6. samples[n][f + 1] < samples[n][L]
          BY <3>1, <3>3, <4>6, <5>2
        <5>7. samples'[n][f + 1] < Last(samples'[n]) /\ Len(samples'[n]) # f
          BY <1>2, <4>1, <5>3, <5>5, <5>6
        <5> QED BY <3>3, <5>1, <5>7
      <4> QED BY <4>3, <4>4, <4>5, <4>6 DEF Types, NetworkTypes
    <3> QED BY <3>2, <3>3
  <2>2. pc' = "observe" /\ was' = was /\ height' = height /\ reported' = reported /\ seen' = seen
    BY <1>1 DEF check
  <2>3. reported = was.seen + 1 .. seen
    BY DEF Types, Observed
  <2> QED BY <2>1, <2>2, <2>3 DEF Observed
<1> QED
  BY <1>4, <1>5, <1>6, <1>7 DEF Types

(* The other steps of the network. *)
LEMMA OthersGrow ==
  ASSUME Types, NEW n \in Nodes,
         \/ ToggleReachable(n) \/ ApplyRules(n) \/ CatchUp(n) \/ EmitEvent(n)
         \/ SealEpoch \/ DropEvents \/ ReportBlock \/ ContextEnds \/ DeadlinePasses
  PROVE  Grows /\ Types'
<1> USE DEF Types
<1>1. /\ UNCHANGED <<spec, pc, verdict, todo, got, failed, limit, block, attempt, snap, was>>
      /\ UNCHANGED <<height, fork, members, samples, spikes, watched>>
      /\ ctx' = ctx \/ ctx' = "ended"
  BY DEF ToggleReachable, ApplyRules, CatchUp, EmitEvent, SealEpoch, DropEvents, ReportBlock,
         ContextEnds, DeadlinePasses, moving, check, network
<1>2. CheckTypes'
  BY <1>1 DEF CheckTypes, Failing
<1>3. SamplesRise'
  BY <1>1 DEF SamplesRise
<1>4. ASSUME UNCHANGED <<applied, down, everDown, epoch, view, events, seen, reported>>,
             missing' = missing \/ missing' = TRUE
      PROVE  Grows /\ NetworkTypes' /\ SinceWas'
  BY <1>1, <1>4, Ordered DEF Grows, NetworkTypes, SinceWas
<1>a. (seen' = seen /\ reported' = reported) => Observed'
  BY <1>1 DEF Observed
<1>5. CASE ContextEnds \/ DeadlinePasses
  <2>1. UNCHANGED <<applied, down, everDown, epoch, view, events, missing, seen, reported>>
    BY <1>5 DEF ContextEnds, DeadlinePasses, network
  <2> QED BY <1>2, <1>3, <1>4, <1>a, <2>1
<1>12. CASE DropEvents
  <2>1. missing' = TRUE /\ UNCHANGED <<applied, down, everDown, epoch, view, events, seen, reported>>
    BY <1>12 DEF DropEvents
  <2> QED BY <1>2, <1>3, <1>4, <1>a, <2>1
<1>6. CASE ToggleReachable(n)
  <2>1. /\ down' \subseteq everDown' /\ everDown' = everDown \cup {n}
        /\ UNCHANGED <<applied, epoch, view, events, missing, seen, reported>>
    BY <1>6 DEF ToggleReachable, NetworkTypes
  <2> QED BY <1>1, <1>2, <1>3, <1>a, <2>1, Ordered DEF Grows, NetworkTypes, SinceWas
<1>7. CASE ApplyRules(n)
  <2>1. applied' = applied \cup {n} /\ UNCHANGED <<down, everDown, epoch, view, events, missing, seen, reported>>
    BY <1>7 DEF ApplyRules
  <2> QED BY <1>1, <1>2, <1>3, <1>a, <2>1, Ordered DEF Grows, NetworkTypes, SinceWas
<1>8. CASE CatchUp(n)
  <2>1. /\ view' = [view EXCEPT ![n] = view[n] + 1] /\ view[n] < epoch
        /\ UNCHANGED <<down, everDown, epoch, applied, events, missing, seen, reported>>
    BY <1>8 DEF CatchUp
  <2>2. view \in [Nodes -> Nat] /\ epoch \in Nat
    BY DEF NetworkTypes
  <2>3. view' \in [Nodes -> Nat] /\ \A k \in Nodes : view[k] <= view'[k] /\ (k # n => view'[k] = view[k])
    BY <2>1, <2>2
  <2>4. \A k \in Nodes : 1 <= view'[k] /\ view'[k] <= epoch /\ was.view[k] <= view'[k]
    <3> TAKE k \in Nodes
    <3>1. 1 <= view[k] /\ view[k] <= epoch /\ was.view[k] <= view[k] /\ was.view[k] \in Nat
      BY DEF NetworkTypes, SinceWas
    <3> QED BY <2>1, <2>2, <2>3, <3>1
  <2>5. NetworkTypes'
    BY <1>1, <2>1, <2>3, <2>4 DEF NetworkTypes
  <2>6. SinceWas'
    BY <1>1, <2>1, <2>4 DEF SinceWas
  <2> QED BY <1>1, <1>2, <1>3, <1>a, <2>1, <2>3, <2>5, <2>6, Ordered DEF Grows
<1>9. CASE EmitEvent(n)
  <2>1. /\ events' = [events EXCEPT ![epoch][n] = events[epoch][n] + 1]
        /\ UNCHANGED <<down, everDown, epoch, applied, view, missing, seen, reported>>
    BY <1>9 DEF EmitEvent
  <2>2. events \in [1 .. MaxEpochs + 1 -> [Nodes -> Nat]] /\ epoch \in 1 .. MaxEpochs + 1
    BY DEF NetworkTypes
  <2>3. events' = [events EXCEPT ![epoch] = [events[epoch] EXCEPT ![n] = events[epoch][n] + 1]]
    BY <2>1
  <2>4. /\ [events[epoch] EXCEPT ![n] = events[epoch][n] + 1] \in [Nodes -> Nat]
        /\ \A k \in Nodes : events[epoch][k] <= [events[epoch] EXCEPT ![n] = events[epoch][n] + 1][k]
    BY <2>2
  <2>5. events' \in [1 .. MaxEpochs + 1 -> [Nodes -> Nat]]
    BY <2>2, <2>3, <2>4
  <2>6. \A e \in 1 .. MaxEpochs + 1 : \A k \in Nodes : events[e][k] <= events'[e][k]
    <3> TAKE e \in 1 .. MaxEpochs + 1
    <3>1. CASE e = epoch
      BY <2>2, <2>3, <2>4, <3>1
    <3>2. CASE e # epoch
      <4>1. events'[e] = events[e]
        BY <2>2, <2>3, <3>2
      <4> QED BY <4>1, Ordered
    <3> QED BY <3>1, <3>2
  <2> QED BY <1>1, <1>2, <1>3, <1>a, <2>1, <2>5, <2>6, Ordered DEF Grows, NetworkTypes, SinceWas
<1>10. CASE SealEpoch
  <2>1. /\ epoch' = epoch + 1 /\ epoch <= MaxEpochs
        /\ UNCHANGED <<down, everDown, applied, view, events, missing, seen, reported>>
    BY <1>10 DEF SealEpoch
  <2>2. epoch \in 1 .. MaxEpochs + 1 /\ MaxEpochs \in Nat
    BY ChecksAssumption DEF NetworkTypes
  <2>3. epoch' \in 1 .. MaxEpochs + 1 /\ epoch <= epoch' /\ \A k \in Nodes : 1 <= view[k] /\ view[k] <= epoch'
    BY <2>1, <2>2 DEF NetworkTypes
  <2>4. NetworkTypes'
    BY <1>1, <2>1, <2>3 DEF NetworkTypes
  <2> QED BY <1>1, <1>2, <1>3, <1>a, <2>1, <2>3, <2>4, Ordered DEF Grows, SinceWas
<1>11. CASE ReportBlock
  <2>1. /\ seen' = seen + 1 /\ reported' = reported \cup {seen + 1} /\ pc = "observe"
        /\ UNCHANGED <<down, everDown, applied, epoch, view, events, missing>>
    BY <1>11 DEF ReportBlock
  <2>2. seen \in Nat /\ was.seen \in Nat /\ was.seen <= seen
    BY DEF NetworkTypes, SinceWas
  <2>3. seen' \in Nat /\ was.seen <= seen'
    BY <2>1, <2>2
  <2>4. reported' = was.seen + 1 .. seen' /\ reported' \subseteq Nat
    <3>1. reported = was.seen + 1 .. seen
      BY DEF Observed
    <3> QED BY <2>1, <2>2, <3>1
  <2>5. Observed'
    BY <1>1, <2>1, <2>4 DEF Observed
  <2>6. NetworkTypes' /\ SinceWas'
    BY <1>1, <2>1, <2>3, <2>4 DEF NetworkTypes, SinceWas
  <2> QED BY <1>1, <1>2, <1>3, <2>1, <2>5, <2>6, Ordered DEF Grows
<1> QED
  BY <1>12, <1>5, <1>6, <1>7, <1>8, <1>9, <1>10, <1>11

(* Nothing but the check itself ends the check, and what moves only grows. *)
LEMMA EnvironmentGrows ==
  ASSUME Types, Environment \/ DeadlinePasses
  PROVE  Grows /\ Types' /\ pc # "done"
<1>1. PICK k \in Nodes : TRUE
  BY NodesAssumption
<1>2. pc # "done"
  BY DEF Environment, DeadlinePasses, Advance, ToggleReachable, ApplyRules, CatchUp, EmitEvent,
         Sample, SealEpoch, DropEvents, ReportBlock, ContextEnds, moving
<1>3. CASE \E n \in Nodes : Advance(n) \/ Sample(n)
  BY <1>2, <1>3, AdvanceGrows, SampleGrows
<1>4. CASE \E n \in Nodes : ToggleReachable(n) \/ ApplyRules(n) \/ CatchUp(n) \/ EmitEvent(n)
  BY <1>2, <1>4, OthersGrow
<1>5. CASE SealEpoch \/ DropEvents \/ ReportBlock \/ ContextEnds \/ DeadlinePasses
  BY <1>1, <1>2, <1>5, OthersGrow
<1> QED
  BY <1>3, <1>4, <1>5 DEF Environment

(* What was read stays between the network then and the network now. *)
LEMMA GrowthKeepsReads ==
  ASSUME ChecksInv, Grows, Types', pc # "done"
  PROVE  ChecksInv'
<1> USE DEF ChecksInv
<1>1. /\ UNCHANGED <<spec, pc, verdict, todo, got, failed, limit, block, attempt, snap, was>>
      /\ UNCHANGED <<fork, members, Failing, Healthy>> /\ verdict = "none"
      /\ \A k : Is(k)' = Is(k) /\ (Unanswered(k) => Unanswered(k)')
  BY DEF Grows, Is, Unanswered, Types, CheckTypes, Failing, Healthy
<1>2. /\ Failing \subseteq Nodes /\ Healthy \subseteq Nodes /\ failed \subseteq Nodes
      /\ \A n \in Nodes : /\ height[n] \in Nat /\ height'[n] \in Nat /\ height[n] <= height'[n]
                          /\ got[n] \in Int /\ was.height[n] \in Nat
      /\ limit \in Nat /\ block \in Nat
  BY SpecIs, ChecksAssumption, SMTT(90) DEF Types, CheckTypes, NetworkTypes, SinceWas, Heights, Grows
<1>3. HeightsRead'
  <2> SUFFICES ASSUME Is({"blockHeight"}), pc = "read", NEW n \in Nodes \ todo
      PROVE  \/ was.height[n] <= got[n] /\ got[n] <= height'[n]
             \/ Unanswered(n)' /\ got[n] = -1
    BY <1>1 DEF HeightsRead
  <2>1. \/ was.height[n] <= got[n] /\ got[n] <= height[n]
        \/ Unanswered(n) /\ got[n] = -1
    BY DEF HeightsRead
  <2> QED BY <1>1, <1>2, <2>1
<1>4. HashesRead'
  <2> SUFFICES ASSUME Is({"blocksHashes"}) PROVE HashesRead'
    BY <1>1 DEF HashesRead
  <2>1. CASE pc \notin {"heights", "blocks"}
    BY <1>1, <2>1 DEF HashesRead
  <2>2. CASE pc = "heights"
    <3>1. \A n \in Healthy \ todo : limit <= height'[n]
      BY <1>2, <2>2 DEF HashesRead
    <3> QED BY <1>1, <2>2, <3>1 DEF HashesRead
  <2>3. CASE pc = "blocks"
    <3>1. \A n \in Healthy : limit <= height[n] /\ limit <= height'[n]
      BY <1>2, <2>3 DEF HashesRead
    <3>2. \A n \in Nodes : \A k \in Nat : k <= height[n] => getBlockHashes(n, k)' = getBlockHashes(n, k)
      BY <1>1, <1>2 DEF getBlockHashes
    <3>3. block <= limit + 1 /\ \A k \in 0 .. block - 1 : k \in Nat /\ k <= limit
      BY <1>2, <2>3 DEF HashesRead
    <3>4. \A n \in Healthy : \A k \in 0 .. block - 1 : getBlockHashes(n, k)' = getBlockHashes(n, k)
      BY <1>2, <3>1, <3>2, <3>3
    <3>5. \A k \in 0 .. block - 1 : \A n, m \in Healthy : getBlockHashes(n, k)' = getBlockHashes(m, k)'
      BY <2>3, <3>4 DEF HashesRead
    <3>6. ASSUME NEW n \in failed
          PROVE  \/ Unanswered(n)' \/ was.height[n] < limit
                 \/ \E k \in 0 .. block - 1 : \E m \in Healthy :
                      k <= height'[n] /\ getBlockHashes(n, k)' # getBlockHashes(m, k)'
      <4>1. CASE Unanswered(n) \/ was.height[n] < limit
        BY <1>1, <4>1
      <4>2. CASE \E k \in 0 .. block - 1 : \E m \in Healthy :
                   k <= height[n] /\ getBlockHashes(n, k) # getBlockHashes(m, k)
        <5>1. PICK k \in 0 .. block - 1, m \in Healthy :
                k <= height[n] /\ getBlockHashes(n, k) # getBlockHashes(m, k)
          BY <4>2
        <5>2. k <= height'[n] /\ getBlockHashes(n, k)' = getBlockHashes(n, k)
              /\ getBlockHashes(m, k)' = getBlockHashes(m, k)
          BY <1>2, <3>2, <3>3, <3>4, <5>1
        <5> QED BY <5>1, <5>2
      <4> QED BY <2>3, <4>1, <4>2 DEF HashesRead
    <3> QED BY <1>1, <2>3, <3>1, <3>5, <3>6 DEF HashesRead
  <2> QED BY <2>1, <2>2, <2>3
<1>5. RulesRead'
  BY <1>1 DEF RulesRead, Grows
<1>6. SnapshotsTaken'
  <2> SUFFICES ASSUME Is({"eventThrottled"}) PROVE SnapshotsTaken'
    BY <1>1 DEF SnapshotsTaken
  <2>1. \A i \in 1 .. Len(snap) :
          /\ 1 <= snap[i].epoch /\ snap[i].epoch <= epoch'
          /\ \A n \in Nodes : snap[i].counts[n] <= events'[snap[i].epoch][n]
    <3> TAKE i \in 1 .. Len(snap)
    <3>1. /\ 1 <= snap[i].epoch /\ snap[i].epoch <= epoch /\ snap[i].epoch \in Nat
          /\ snap[i].counts \in [Nodes -> Nat]
          /\ \A n \in Nodes : snap[i].counts[n] <= events[snap[i].epoch][n]
      <4>1. snap \in Seq([epoch : Nat, counts : [Nodes -> Nat]])
        BY DEF SnapshotsTaken
      <4>2. snap[i] \in [epoch : Nat, counts : [Nodes -> Nat]]
        BY <4>1, ElementOfSeq
      <4> QED BY <4>2 DEF SnapshotsTaken
    <3>2. epoch \in 1 .. MaxEpochs + 1 /\ epoch' \in 1 .. MaxEpochs + 1 /\ epoch <= epoch' /\ MaxEpochs \in Nat
      BY ChecksAssumption DEF Types, NetworkTypes, Grows
    <3>3. snap[i].epoch \in 1 .. MaxEpochs + 1
      BY <3>1, <3>2
    <3>4. \A n \in Nodes : /\ events[snap[i].epoch][n] \in Nat /\ events'[snap[i].epoch][n] \in Nat
                           /\ events[snap[i].epoch][n] <= events'[snap[i].epoch][n]
      BY <3>3 DEF Types, NetworkTypes, Grows
    <3>5. ASSUME NEW n \in Nodes PROVE snap[i].counts[n] <= events'[snap[i].epoch][n]
      <4>1. snap[i].counts[n] \in Nat /\ snap[i].counts[n] <= events[snap[i].epoch][n]
        BY <3>1
      <4> QED BY <3>4, <4>1
    <3> QED BY <3>1, <3>2, <3>5
  <2>2. missing => missing'
    BY DEF Grows
  <2> QED BY <1>1, <2>1, <2>2 DEF SnapshotsTaken, sameEpoch
<1>7. Verdict'
  BY <1>1 DEF Verdict
<1> QED
  BY <1>3, <1>4, <1>5, <1>6, <1>7

-----------------------------------------------------------------------------
(* The steps of a check *)

Common ==
  /\ UNCHANGED <<spec, ctx, network>> /\ pc # "done"
  /\ was' = was \/ (was' = Moment /\ pc = "start")
  /\ pc = "observe" => pc' = "done"

(* A check reads the network and leaves it alone. *)
LEMMA CheckIsCommon ==
  ASSUME Types, Check
  PROVE  Common
<1> USE DEF Common, At, Finish, GoTo, Retry, Discard
<1>1. CASE BeginAttempt \/ Sleep
  BY <1>1 DEF BeginAttempt, Sleep
<1>2. CASE \E n \in Nodes : getBlockHeight(n) \/ HashesDial(n) \/ commonHeight(n) \/ CheckRules(n)
  BY <1>2 DEF getBlockHeight, HashesDial, commonHeight, CheckRules
<1>3. CASE checkHeights \/ RulesVerdict \/ ReadActiveValidators
  BY <1>3 DEF checkHeights, RulesVerdict, ReadActiveValidators
<1>4. CASE HashesStart \/ HashesDialed \/ HashesLimit \/ CompareBlock \/ HashesVerdict
  BY <1>4 DEF HashesStart, HashesDialed, HashesLimit, CompareBlock, HashesVerdict
<1>5. CASE BeginObservation \/ ObservationEnds
  BY <1>5 DEF BeginObservation, ObservationEnds
<1>6. CASE ThrottleStart \/ ReadEpoch \/ ReadHeads \/ ThrottleVerdict
  BY <1>6 DEF ThrottleStart, ReadEpoch, ReadHeads, ThrottleVerdict
<1> QED
  BY <1>1, <1>2, <1>3, <1>4, <1>5, <1>6 DEF Check

(* The start of an attempt is the present or a past the network grew from. *)
LEMMA CommonTypes ==
  ASSUME Types, Common
  PROVE  /\ NetworkTypes' /\ SinceWas' /\ SamplesRise' /\ Observed'
         /\ Failing' = Failing /\ Healthy' = Healthy
         /\ \A k : Is(k)' = Is(k) /\ Unanswered(k)' = Unanswered(k)
<1>1. UNCHANGED <<height, fork, down, applied, epoch, view, members, events, missing, samples,
                  spikes, seen, watched, reported, everDown>>
  BY DEF Common, network
<1>2. NetworkTypes'
  BY <1>1 DEF Types, NetworkTypes
<1>3. CASE was' = was
  BY <1>1, <1>2, <1>3 DEF Types, SinceWas, Observed, SamplesRise, Common, Failing, Healthy, Is, Unanswered
<1>4. CASE was' = Moment /\ pc = "start"
  <2>1. /\ was'.height = height /\ was'.seen = seen /\ was'.view = view /\ was'.applied = applied
        /\ was'.samples = [n \in Nodes |-> Len(samples[n])]
    BY <1>4 DEF Moment
  <2>2. \A n \in Nodes : Len(samples[n]) \in Nat /\ height[n] \in Nat /\ view[n] \in Nat /\ 1 <= view[n]
    BY DEF Types, NetworkTypes, Heights
  <2>3. SinceWas'
    BY <1>1, <2>1, <2>2 DEF Types, NetworkTypes, SinceWas
  <2>4. \A n \in Nodes : \A i \in was'.samples[n] + 1 .. Len(samples[n]) : FALSE
    BY <2>1, <2>2
  <2>5. SamplesRise'
    BY <1>1, <2>4 DEF SamplesRise
  <2>6. reported = {} /\ (\A n \in Nodes : watched[n] = "no") /\ seen + 1 .. seen = {}
    BY <1>4 DEF Types, Observed, NetworkTypes
  <2>7. Observed'
    BY <1>1, <2>1, <2>2, <2>6 DEF Observed
  <2> QED BY <1>1, <1>2, <2>3, <2>5, <2>7 DEF Common, Failing, Healthy, Is, Unanswered
<1> QED
  BY <1>3, <1>4 DEF Common

(* The steps of a check of each kind. *)
LEMMA StepsOfKind ==
  ASSUME Types, Check
  PROVE  \/ /\ Is(Polling) /\ (BeginAttempt \/ Sleep)
         \/ /\ Is({"blockHeight"})
            /\ checkHeights \/ \E n \in Nodes : getBlockHeight(n)
         \/ /\ Is({"blocksHashes"})
            /\ \/ HashesStart \/ HashesDialed \/ HashesLimit \/ CompareBlock \/ HashesVerdict
               \/ \E n \in Nodes : HashesDial(n) \/ commonHeight(n)
         \/ Is({"networkRules"}) /\ (RulesVerdict \/ \E n \in Nodes : CheckRules(n))
         \/ Is({"validatorsActive"}) /\ ReadActiveValidators
         \/ Is(Observing) /\ (BeginObservation \/ ObservationEnds)
         \/ /\ Is({"eventThrottled"})
            /\ ThrottleStart \/ ReadEpoch \/ ReadHeads \/ ThrottleVerdict
<1> USE DEF At
<1>1. CASE BeginAttempt \/ Sleep
  BY <1>1 DEF BeginAttempt, Sleep
<1>2. CASE \E n \in Nodes : getBlockHeight(n) \/ HashesDial(n) \/ commonHeight(n) \/ CheckRules(n)
  BY <1>2 DEF getBlockHeight, HashesDial, commonHeight, CheckRules
<1>3. CASE checkHeights \/ RulesVerdict \/ ReadActiveValidators
  BY <1>3 DEF checkHeights, RulesVerdict, ReadActiveValidators
<1>4. CASE HashesStart \/ HashesDialed \/ HashesLimit \/ CompareBlock \/ HashesVerdict
  BY <1>4 DEF HashesStart, HashesDialed, HashesLimit, CompareBlock, HashesVerdict
<1>5. CASE BeginObservation \/ ObservationEnds
  BY <1>5 DEF BeginObservation, ObservationEnds
<1>6. CASE ThrottleStart \/ ReadEpoch \/ ReadHeads \/ ThrottleVerdict
  BY <1>6 DEF ThrottleStart, ReadEpoch, ReadHeads, ThrottleVerdict
<1> QED
  BY <1>1, <1>2, <1>3, <1>4, <1>5, <1>6 DEF Check

(* Of the invariant a step of one kind of check has to show its own part.  *)
LEMMA OwnPart ==
  ASSUME ChecksInv, Common, CheckTypes',
         Is({"blockHeight"}) => HeightsRead', Is({"blocksHashes"}) => HashesRead',
         Is({"networkRules"}) => RulesRead', Is({"eventThrottled"}) => SnapshotsTaken',
         verdict' = "ok" => Promise', verdict' = "error" => Reason'
  PROVE  ChecksInv'
<1>1. Types'
  BY CommonTypes DEF ChecksInv, Types
<1>2. \A k : Is(k)' = Is(k)
  BY CommonTypes DEF ChecksInv
<1>3. HeightsRead' /\ HashesRead' /\ RulesRead' /\ SnapshotsTaken'
  BY <1>2 DEF HeightsRead, HashesRead, RulesRead, SnapshotsTaken
<1> QED
  BY <1>1, <1>3 DEF ChecksInv, Verdict

(* A check that is not over has no verdict yet, and its attempt may be     *)
(* given up for the next one.                                              *)
LEMMA PollStep ==
  ASSUME ChecksInv, Common, Is(Polling), BeginAttempt \/ Sleep
  PROVE  ChecksInv'
<1>1. CheckTypes /\ Types
  BY DEF ChecksInv, Types
<1>2. CheckTypes'
  <2>1. CASE BeginAttempt
    BY <1>1, <2>1 DEF BeginAttempt, At, Finish, scratch, CheckTypes, Failing, Common
  <2>2. CASE Sleep
    BY <1>1, <2>2 DEF Sleep, At, Finish, GoTo, scratch, CheckTypes, Failing, Common
  <2> QED BY <2>1, <2>2
<1>3. ~Is({"blocksHashes"}) /\ ~Is({"eventThrottled"})
  BY DEF Is, Polling
<1>4. CASE pc' = "done"
  <2>1. (verdict' = "ok" => Promise') /\ (verdict' = "error" => Reason')
    <3>1. CASE Sleep
      <4>1. ctx' = "ended" /\ verdict' = "error"
        BY <1>4, <3>1 DEF Sleep, At, GoTo, Finish, Common
      <4> QED BY <4>1 DEF Reason
    <3>2. CASE BeginAttempt /\ Is({"validatorsActive"}) /\ spec.expected = {}
      <4>1. verdict' = "error" /\ spec' = spec
        BY <1>4, <3>2 DEF BeginAttempt, Finish, Common, Is
      <4> QED BY <3>2, <4>1 DEF Reason, Is
    <3>3. CASE BeginAttempt /\ ~(Is({"validatorsActive"}) /\ spec.expected = {})
      <4>1. spec.patch # "invalid" \/ ~Is({"networkRules"})
        BY <1>1 DEF CheckTypes, SpecCheck, Is
      <4>2. verdict' = "ok" /\ spec' = spec /\ Is({"networkRules"}) /\ spec.patch = "none"
        BY <1>4, <3>3, <4>1 DEF BeginAttempt, Finish, Common, Is
      <4> QED BY <4>2 DEF Promise, Is
    <3> QED BY <3>1, <3>2, <3>3
  <2>2. HeightsRead' /\ RulesRead'
    BY <1>4 DEF HeightsRead, RulesRead
  <2> QED BY <1>2, <1>3, <2>1, <2>2, OwnPart
<1>5. CASE pc' # "done"
  <2>1. verdict' = "none"
    BY <1>2, <1>5 DEF CheckTypes
  <2>2. pc' = "read" => todo' = Nodes /\ failed' = {}
    BY DEF BeginAttempt, Sleep, Finish, GoTo, At
  <2>3. HeightsRead' /\ RulesRead'
    BY <2>2 DEF HeightsRead, RulesRead
  <2> QED BY <1>2, <1>3, <2>1, <2>3, OwnPart
<1> QED
  BY <1>4, <1>5

(* What a verdict says does not change with the verdict. *)
LEMMA SameNetwork ==
  ASSUME Common, UNCHANGED <<scratch, was>>
  PROVE  Promise' = Promise /\ Reason' = Reason
<1>1. UNCHANGED <<spec, ctx, height, fork, applied, epoch, view, members, events, missing,
                  samples, spikes, seen, watched, reported, everDown, limit, snap, attempt, was>>
  BY DEF Common, network, scratch
<1>2. /\ Failing' = Failing /\ Healthy' = Healthy /\ slack' = slack
      /\ \A k : Is(k)' = Is(k) /\ points(k)' = points(k) /\ emitted(k)' = emitted(k)
      /\ \A n, k : getBlockHashes(n, k)' = getBlockHashes(n, k)
      /\ verifyThrottled' = verifyThrottled
  BY <1>1 DEF Failing, Healthy, slack, Is, points, emitted, getBlockHashes, verifyThrottled
<1>3. Promise' = Promise
  BY <1>1, <1>2 DEF Promise
<1>4. Reason' = Reason
  BY <1>1, <1>2 DEF Reason
<1> QED
  BY <1>3, <1>4

(* A check that ends needs what its verdict says. *)
LEMMA EndStep ==
  ASSUME ChecksInv, Common, NEW v \in {"ok", "error"}, Finish(v),
         v = "ok" => Promise, v = "error" => Reason
  PROVE  ChecksInv'
<1>1. pc' = "done" /\ verdict' = v /\ UNCHANGED <<scratch, was>>
  BY DEF Finish
<1>2. CheckTypes'
  BY <1>1 DEF ChecksInv, Types, CheckTypes, Common, scratch, Failing
<1>3. HeightsRead' /\ HashesRead' /\ RulesRead'
  BY <1>1 DEF HeightsRead, HashesRead, RulesRead
<1>4. SnapshotsTaken'
  BY <1>1 DEF ChecksInv, SnapshotsTaken, Common, network, scratch, sameEpoch, Is
<1> QED
  BY <1>1, <1>2, <1>3, <1>4, SameNetwork, OwnPart

(* So does one that gives an attempt up. *)
LEMMA RetryStep ==
  ASSUME ChecksInv, Common, Is(Polling), Retry, Reason
  PROVE  ChecksInv'
<1>1. CASE mayRetry
  <2>1. /\ pc' = "sleep" /\ todo' = {}
        /\ UNCHANGED <<verdict, got, failed, limit, block, attempt, snap, was>>
    BY <1>1 DEF Retry, GoTo
  <2>2. CheckTypes'
    BY <2>1 DEF ChecksInv, Types, CheckTypes, Common, Failing
  <2>3. verdict' = "none" /\ HeightsRead' /\ RulesRead'
    BY <2>1 DEF HeightsRead, RulesRead, ChecksInv, Types, CheckTypes, Common
  <2>4. ~Is({"blocksHashes"}) /\ ~Is({"eventThrottled"})
    BY DEF Is, Polling
  <2> QED BY <2>2, <2>3, <2>4, OwnPart
<1>2. CASE ~mayRetry
  BY <1>2, EndStep DEF Retry
<1> QED
  BY <1>1, <1>2

-----------------------------------------------------------------------------
(* blockHeight *)

(* The heights read lie between those at the start of the attempt and the  *)
(* current ones, and so do the highest of them.                            *)
LEMMA HeightsStep ==
  ASSUME ChecksInv, Common, Is({"blockHeight"}), checkHeights \/ \E n \in Nodes : getBlockHeight(n)
  PROVE  ChecksInv'
<1>0. /\ Types /\ CheckTypes /\ Failing \subseteq Nodes /\ Healthy \subseteq Nodes /\ slack \in Int
      /\ Is(Polling) /\ ~Is({"blocksHashes"}) /\ ~Is({"eventThrottled"}) /\ ~Is({"networkRules"})
  BY SpecIs DEF ChecksInv, Types, Is, Polling
<1>1. /\ got \in [Nodes -> Int] /\ height \in [Nodes -> Int] /\ was.height \in [Nodes -> Int]
      /\ \A n \in Nodes : was.height[n] <= height[n] /\ height[n] \in Nat
  BY ChecksAssumption DEF ChecksInv, Types, CheckTypes, NetworkTypes, SinceWas, Heights
<1>2. ASSUME NEW n \in Nodes, getBlockHeight(n) PROVE ChecksInv'
  <2>1. /\ got' = [got EXCEPT ![n] = IF Dials(n) THEN height[n] ELSE -1] /\ pc = "read"
        /\ todo' = todo \ {n}
        /\ UNCHANGED <<pc, verdict, failed, limit, block, attempt, snap, was, spec, ctx, network>>
    BY <1>2 DEF getBlockHeight, At
  <2>2. CheckTypes' /\ verdict' = "none"
    BY <1>0, <1>1, <2>1 DEF CheckTypes, Failing
  <2>3. ASSUME NEW k \in Nodes \ todo'
        PROVE  \/ was.height[k] <= got'[k] /\ got'[k] <= height[k]
               \/ Unanswered(k) /\ got'[k] = -1
    <3>1. CASE k # n
      BY <1>1, <2>1, <3>1 DEF ChecksInv, HeightsRead
    <3>2. CASE k = n /\ Dials(n)
      BY <1>1, <2>1, <3>2
    <3>3. CASE k = n /\ ~Dials(n)
      BY <1>1, <2>1, <3>3 DEF Dials, Reachable, Unanswered, ChecksInv, Types, NetworkTypes, CheckTypes
    <3> QED BY <3>1, <3>2, <3>3
  <2>4. HeightsRead'
    BY <2>1, <2>3 DEF HeightsRead, network, Unanswered
  <2> QED BY <1>0, <2>2, <2>4, OwnPart
<1>3. CASE checkHeights
  <2>1. pc = "read" /\ todo = {} /\ IF heightsAgree THEN Finish("ok") ELSE Retry
    BY <1>3 DEF checkHeights, At
  <2>2. \A n \in Nodes : \/ was.height[n] <= got[n] /\ got[n] <= height[n]
                         \/ Unanswered(n) /\ got[n] = -1
    BY <2>1 DEF ChecksInv, HeightsRead
  <2> DEFINE top == Max(Range(got))
             topWas == Max(Range(was.height))
             topNow == Max(Range(height))
  <2>3. top \in Int /\ topWas \in Int /\ topNow \in Int
    BY <1>1, MaxOfRange
  <2>4. (\A n \in Nodes : was.height[n] <= got[n] /\ got[n] <= height[n]) => topWas <= top /\ top <= topNow
    BY <1>1, MaxIsMonotone
  <2>5. \A n : tooOld(n) <=> got[n] < top - slack
    BY DEF tooOld
  <2> HIDE DEF top, topWas, topNow
  <2>6. CASE heightsAgree
    <3>1. /\ \A n \in Nodes : got[n] >= 1
          /\ \A n \in Nodes : n \in Failing <=> got[n] < top - slack
      BY <1>0, <2>5, <2>6 DEF heightsAgree
    <3>2. \A n \in Nodes : was.height[n] <= got[n] /\ got[n] <= height[n]
      BY <2>2, <3>1
    <3>3. \A n \in Healthy : height[n] >= topWas - slack
      <4> TAKE n \in Healthy
      <4>1. /\ n \in Nodes /\ ~(got[n] < top - slack) /\ got[n] \in Int /\ height[n] \in Int
            /\ got[n] <= height[n] /\ topWas <= top
        BY <1>0, <1>1, <2>4, <3>1, <3>2 DEF Healthy
      <4> QED BY <1>0, <2>3, <4>1
    <3>4. \A n \in Failing : was.height[n] < topNow - slack
      <4> TAKE n \in Failing
      <4>1. /\ got[n] < top - slack /\ got[n] \in Int /\ was.height[n] \in Int
            /\ was.height[n] <= got[n] /\ top <= topNow
        BY <1>0, <1>1, <2>4, <3>1, <3>2
      <4> QED BY <1>0, <2>3, <4>1
    <3>5. Promise
      BY <3>3, <3>4 DEF Promise, Is, topWas, topNow
    <3> QED BY <2>1, <2>6, <3>5, EndStep
  <2>7. CASE ~heightsAgree
    <3>1. Reason
      <4>1. CASE ctx = "ended" \/ everDown # {}
        BY <4>1 DEF Reason
      <4>2. CASE ~(ctx = "ended" \/ everDown # {})
        <5>1. \A n \in Nodes : was.height[n] <= got[n] /\ got[n] <= height[n]
          BY <2>2, <4>2 DEF Unanswered
        <5>2. CASE \E n \in Nodes : ~(got[n] >= 1)
          <6>1. \E n \in Nodes : was.height[n] < 1
            BY <1>1, <5>1, <5>2
          <6> QED BY <6>1 DEF Reason
        <5>3. CASE \E n \in Nodes : n \notin Failing /\ got[n] < top - slack
          <6>1. PICK n \in Nodes : n \notin Failing /\ got[n] < top - slack
            BY <5>3
          <6>2. n \in Healthy /\ was.height[n] < topNow - slack
            BY <1>0, <1>1, <2>3, <2>4, <5>1, <6>1 DEF Healthy
          <6> QED BY <6>2 DEF Reason, topNow
        <5>4. CASE \E n \in Failing : ~(got[n] < top - slack)
          <6>1. PICK n \in Failing : ~(got[n] < top - slack)
            BY <5>4
          <6>2. /\ got[n] \in Int /\ height[n] \in Int /\ got[n] <= height[n] /\ topWas <= top
            BY <1>0, <1>1, <2>4, <5>1
          <6>3. height[n] >= topWas - slack
            BY <1>0, <2>3, <6>1, <6>2
          <6> QED BY <6>3 DEF Reason, topWas
        <5> QED BY <1>0, <2>5, <2>7, <5>2, <5>3, <5>4 DEF heightsAgree
      <4> QED BY <4>1, <4>2
    <3> QED BY <1>0, <2>1, <2>7, <3>1, RetryStep
  <2> QED BY <2>6, <2>7
<1> QED
  BY <1>2, <1>3

-----------------------------------------------------------------------------
(* blocksHashes *)

(* A limit and a height are a finite set. *)
LEMMA PairIsFinite ==
  ASSUME NEW x, NEW y
  PROVE  IsFiniteSet({x, y})
<1>1. IsFiniteSet({x}) /\ {x, y} = {x} \cup {y}
  BY FS_Singleton
<1>2. IsFiniteSet({x} \cup {y})
  BY <1>1, FS_AddElement
<1> QED
  BY <1>1, <1>2

(* A node that cannot be asked was unreachable, or the context ended. *)
LEMMA NoAnswer ==
  ASSUME Types, NEW n, ~Dials(n)
  PROVE  Unanswered(n) /\ Reason
  BY DEF Types, CheckTypes, NetworkTypes, Dials, Reachable, Unanswered, Reason

(* Dialling the nodes, and the lowest head of the healthy ones. *)
LEMMA RangeStep ==
  ASSUME ChecksInv, Common, Is({"blocksHashes"}),
         HashesStart \/ HashesDialed \/ HashesLimit \/ \E n \in Nodes : HashesDial(n) \/ commonHeight(n)
  PROVE  ChecksInv'
<1>0. /\ Types /\ CheckTypes /\ Failing \subseteq Nodes /\ Healthy \subseteq Nodes /\ MaxHeight \in Nat
      /\ ~Is({"blockHeight"}) /\ ~Is({"eventThrottled"}) /\ ~Is({"networkRules"}) /\ HashesRead
  BY SpecIs, ChecksAssumption DEF ChecksInv, Types, Is
<1>1. /\ spec' = spec /\ height' = height /\ everDown' = everDown /\ ctx' = ctx /\ fork' = fork
      /\ Failing' = Failing /\ Healthy' = Healthy /\ \A n : Unanswered(n)' = Unanswered(n)
      /\ \A k : Is(k)' = Is(k)
  BY <1>0, CommonTypes DEF Common, network
<1>2. /\ limit \in Nat /\ limit <= MaxHeight + 1
      /\ \A n \in Nodes : /\ height[n] \in Nat /\ was.height[n] \in Nat
                          /\ was.height[n] <= height[n] /\ height[n] <= MaxHeight
  <2>1. limit \in 0 .. MaxHeight + 1
    BY <1>0 DEF CheckTypes
  <2>2. \A n \in Nodes : /\ height[n] \in 0 .. MaxHeight /\ was.height[n] \in 0 .. MaxHeight
                         /\ was.height[n] <= height[n]
    BY <1>0 DEF Types, NetworkTypes, SinceWas, Heights
  <2> QED BY <1>0, <2>1, <2>2
<1>3. CASE HashesStart
  <2>1. /\ pc = "start" /\ pc' = "dial" /\ todo' = Nodes
        /\ UNCHANGED <<verdict, got, failed, limit, block, attempt, snap, was>>
    BY <1>3 DEF HashesStart, At, GoTo
  <2>2. CheckTypes' /\ verdict' = "none"
    BY <1>0, <1>1, <2>1 DEF CheckTypes
  <2>3. HashesRead'
    BY <1>0, <1>1, <2>1 DEF HashesRead
  <2> QED BY <1>0, <2>2, <2>3, OwnPart
<1>4. ASSUME NEW n \in Nodes, HashesDial(n) PROVE ChecksInv'
  <2>0. pc = "dial" /\ n \in todo
    BY <1>4 DEF HashesDial, At
  <2>1. CASE Dials(n)
    <3>1. /\ todo' = todo \ {n} /\ got' = [got EXCEPT ![n] = 1]
          /\ UNCHANGED <<pc, verdict, failed, limit, block, attempt, snap, was>>
      BY <1>4, <2>1 DEF HashesDial
    <3>2. CheckTypes' /\ verdict' = "none"
      BY <1>0, <1>1, <2>0, <3>1 DEF CheckTypes
    <3>3. HashesRead'
      BY <1>0, <1>1, <2>0, <3>1 DEF HashesRead
    <3> QED BY <1>0, <3>2, <3>3, OwnPart
  <2>2. CASE ~Dials(n) /\ n \in Failing
    <3>1. /\ todo' = todo \ {n} /\ failed' = failed \cup {n}
          /\ UNCHANGED <<pc, verdict, got, limit, block, attempt, snap, was>>
      BY <1>4, <2>2 DEF HashesDial
    <3>2. CheckTypes' /\ verdict' = "none"
      BY <1>0, <1>1, <2>0, <2>2, <3>1 DEF CheckTypes
    <3>3. HashesRead'
      BY <1>0, <1>1, <2>0, <2>2, <3>1, NoAnswer DEF HashesRead
    <3> QED BY <1>0, <3>2, <3>3, OwnPart
  <2>3. CASE ~Dials(n) /\ n \notin Failing
    <3>1. Finish("error")
      BY <1>4, <2>3 DEF HashesDial
    <3> QED BY <1>0, <2>3, <3>1, NoAnswer, EndStep
  <2> QED BY <2>1, <2>2, <2>3
<1>5. CASE HashesDialed
  <2>1. CASE Failing = Nodes
    <3>1. Finish("ok") /\ Healthy = {}
      BY <1>5, <2>1 DEF HashesDialed, Healthy
    <3>2. Promise
      BY <3>1 DEF Promise, Is
    <3> QED BY <3>1, <3>2, EndStep
  <2>2. CASE Failing # Nodes
    <3>1. /\ pc = "dial" /\ pc' = "heights" /\ todo' = Healthy
          /\ UNCHANGED <<verdict, got, failed, limit, block, attempt, snap, was>>
      BY <1>5, <2>2 DEF HashesDialed, At, GoTo
    <3>2. CheckTypes' /\ verdict' = "none" /\ Healthy # {}
      BY <1>0, <1>1, <2>2, <3>1 DEF CheckTypes, Healthy
    <3>3. HashesRead'
      BY <1>0, <1>1, <3>1, <3>2 DEF HashesRead
    <3> QED BY <1>0, <3>2, <3>3, OwnPart
  <2> QED BY <2>1, <2>2
<1>6. ASSUME NEW n \in Nodes, commonHeight(n) PROVE ChecksInv'
  <2>0. pc = "heights" /\ n \in todo
    BY <1>6 DEF commonHeight, At
  <2>1. CASE ~Dials(n)
    <3>1. Finish("error")
      BY <1>6, <2>1 DEF commonHeight
    <3> QED BY <1>0, <2>1, <3>1, NoAnswer, EndStep
  <2>2. CASE Dials(n)
    <3>1. /\ limit' = Min({limit, height[n]}) /\ todo' = todo \ {n}
          /\ UNCHANGED <<pc, verdict, got, failed, block, attempt, snap, was>>
      BY <1>6, <2>2 DEF commonHeight, lowest
    <3>2. limit' = (IF limit <= height[n] THEN limit ELSE height[n])
      <4>1. IsFiniteSet({limit, height[n]})
        BY PairIsFinite
      <4>2. Min({limit, height[n]}) \in {limit, height[n]}
            /\ \A y \in {limit, height[n]} : Min({limit, height[n]}) <= y
        BY <1>2, <4>1, MinOfFinite
      <4> QED BY <1>2, <3>1, <4>2
    <3>3. limit' \in Nat /\ limit' <= limit /\ limit' <= height[n] /\ (limit' = limit \/ limit' = height[n])
      BY <1>2, <3>2
    <3>4. CheckTypes' /\ verdict' = "none" /\ pc' = "heights"
      BY <1>0, <1>1, <1>2, <2>0, <3>1, <3>3 DEF CheckTypes
    <3>5. \A k \in Healthy \ todo' : limit' <= height[k]
      <4> TAKE k \in Healthy \ todo'
      <4>1. CASE k = n
        BY <3>3, <4>1
      <4>2. CASE k # n
        BY <1>0, <1>2, <2>0, <3>1, <3>3, <4>2 DEF HashesRead
      <4> QED BY <4>1, <4>2
    <3>6. limit' = MaxHeight + 1 \/ \E k \in Healthy : was.height[k] <= limit'
      <4>1. CASE limit' = limit
        BY <1>0, <2>0, <4>1 DEF HashesRead
      <4>2. CASE limit' = height[n]
        <5>1. n \in Healthy
          BY <1>0, <2>0 DEF HashesRead
        <5> QED BY <1>2, <4>2, <5>1
      <4> QED BY <3>3, <4>1, <4>2
    <3>7. HashesRead'
      BY <1>0, <1>1, <2>0, <3>1, <3>4, <3>5, <3>6 DEF HashesRead
    <3> QED BY <1>0, <3>4, <3>7, OwnPart
  <2> QED BY <2>1, <2>2
<1>7. CASE HashesLimit
  <2>1. /\ pc = "heights" /\ todo = {}
        /\ IF limit < minComparableBlock THEN Finish("error") ELSE GoTo("blocks", {})
    BY <1>7 DEF HashesLimit, At
  <2>2. Healthy # {} /\ \A n \in Healthy : limit <= height[n]
    BY <1>0, <2>1 DEF HashesRead
  <2>3. limit # MaxHeight + 1
    BY <1>0, <1>2, <2>2
  <2>4. PICK n \in Healthy : was.height[n] <= limit
    BY <1>0, <2>1, <2>3 DEF HashesRead
  <2>5. CASE limit < minComparableBlock
    <3>1. was.height[n] < minComparableBlock
      BY <1>0, <1>2, <2>4, <2>5 DEF minComparableBlock
    <3>2. Reason
      BY <3>1 DEF Reason
    <3> QED BY <2>1, <2>5, <3>2, EndStep
  <2>6. CASE ~(limit < minComparableBlock)
    <3>1. /\ pc' = "blocks" /\ todo' = {}
          /\ UNCHANGED <<verdict, got, failed, limit, block, attempt, snap, was>>
      BY <2>1, <2>6 DEF GoTo
    <3>2. CheckTypes' /\ verdict' = "none"
      BY <1>0, <1>1, <2>1, <3>1 DEF CheckTypes
    <3>3. limit >= minComparableBlock /\ block = 0 /\ block <= limit + 1
          /\ \A k \in 0 .. block - 1 : FALSE
      BY <1>0, <1>2, <2>1, <2>6 DEF HashesRead, minComparableBlock
    <3>4. HashesRead'
      BY <1>0, <1>1, <2>1, <2>2, <2>4, <3>1, <3>3 DEF HashesRead
    <3> QED BY <1>0, <3>2, <3>4, OwnPart
  <2> QED BY <2>5, <2>6
<1> QED
  BY <1>3, <1>4, <1>5, <1>6, <1>7

(* A block compared: the healthy nodes have it, so a node that agrees with *)
(* one of them and is not that node is not on a fork of its own there.     *)
LEMMA CompareStep ==
  ASSUME ChecksInv, Common, Is({"blocksHashes"}), CompareBlock \/ HashesVerdict
  PROVE  ChecksInv'
<1>0. /\ Types /\ CheckTypes /\ Failing \subseteq Nodes /\ Healthy \subseteq Nodes /\ MaxHeight \in Nat
      /\ ~Is({"blockHeight"}) /\ ~Is({"eventThrottled"}) /\ ~Is({"networkRules"}) /\ HashesRead
      /\ \A n \in Healthy : n \notin Failing
  BY SpecIs, ChecksAssumption DEF ChecksInv, Types, Is, Healthy
<1>1. /\ spec' = spec /\ height' = height /\ everDown' = everDown /\ ctx' = ctx /\ fork' = fork
      /\ Failing' = Failing /\ Healthy' = Healthy /\ \A n : Unanswered(n)' = Unanswered(n)
      /\ \A k : Is(k)' = Is(k)
      /\ \A n, k : getBlockHashes(n, k)' = getBlockHashes(n, k)
  BY <1>0, CommonTypes DEF Common, network, getBlockHashes
<1>2. /\ limit \in Nat /\ limit <= MaxHeight + 1 /\ block \in Nat
      /\ \A n \in Nodes : /\ height[n] \in Nat /\ was.height[n] \in Nat /\ fork[n] \in Nat
                          /\ was.height[n] <= height[n] /\ height[n] <= MaxHeight
  <2>1. limit \in 0 .. MaxHeight + 1 /\ block \in Nat
    BY <1>0 DEF CheckTypes
  <2>2. \A n \in Nodes : /\ height[n] \in 0 .. MaxHeight /\ was.height[n] \in 0 .. MaxHeight
                         /\ was.height[n] <= height[n] /\ fork[n] \in Nat
    BY <1>0 DEF Types, NetworkTypes, SinceWas, Heights
  <2> QED BY <1>0, <2>1, <2>2
<1>3. pc = "blocks"
  BY DEF CompareBlock, HashesVerdict, At
<1>4. /\ Healthy # {} /\ limit >= minComparableBlock /\ block <= limit + 1
      /\ \A n \in Healthy : limit <= height[n]
      /\ \E n \in Healthy : was.height[n] <= limit
      /\ \A k \in 0 .. block - 1 : \A n, m \in Healthy : getBlockHashes(n, k) = getBlockHashes(m, k)
      /\ \A n \in Failing \ failed : \A k \in 0 .. block - 1 : k < fork[n]
  BY <1>0, <1>3 DEF HashesRead
<1>5. ASSUME NEW n \in failed
      PROVE  \/ Unanswered(n) \/ was.height[n] < limit
             \/ \E k \in 0 .. block - 1 : \E m \in Healthy :
                  k <= height[n] /\ getBlockHashes(n, k) # getBlockHashes(m, k)
  BY <1>0, <1>3 DEF HashesRead
<1>6. CASE CompareBlock /\ compareHealthyNodes(block)
  <2>1. /\ block <= limit /\ block' = block + 1 /\ failed' = failed \cup recordFailingNodes(block)
        /\ UNCHANGED <<pc, verdict, todo, got, limit, attempt, snap, was>>
    BY <1>6 DEF CompareBlock
  <2>2. recordFailingNodes(block) \subseteq Failing
    BY DEF recordFailingNodes
  <2>3. CheckTypes' /\ verdict' = "none"
    BY <1>0, <1>1, <1>2, <1>3, <2>1, <2>2 DEF CheckTypes
  <2>4. \A k \in 0 .. block' - 1 : k \in 0 .. block - 1 \/ k = block
    BY <1>2, <2>1
  <2>5. \A n, m \in Healthy : getBlockHashes(n, block) = getBlockHashes(m, block)
    BY <1>6 DEF compareHealthyNodes
  <2>6. \A k \in 0 .. block' - 1 : \A n, m \in Healthy : getBlockHashes(n, k) = getBlockHashes(m, k)
    BY <1>4, <2>4, <2>5
  <2>7. block \in 0 .. block' - 1 /\ 0 .. block - 1 \subseteq 0 .. block' - 1 /\ block' <= limit + 1
    BY <1>2, <2>1
  <2>8. ASSUME NEW n \in failed'
        PROVE  \/ Unanswered(n) \/ was.height[n] < limit
               \/ \E k \in 0 .. block' - 1 : \E m \in Healthy :
                    k <= height[n] /\ getBlockHashes(n, k) # getBlockHashes(m, k)
    <3>1. CASE n \in failed
      BY <1>5, <2>7, <3>1
    <3>2. CASE n \in recordFailingNodes(block)
      <4>1. n \in Nodes /\ (~Reachable(n) \/ \E m \in Healthy : getBlockHashes(n, block) # getBlockHashes(m, block))
        BY <1>0, <3>2 DEF recordFailingNodes
      <4>2. CASE ~Reachable(n)
        BY <1>0, <4>2, NoAnswer DEF Dials
      <4>3. CASE height[n] < block
        BY <1>2, <2>1, <4>1, <4>3
      <4>4. CASE ~(height[n] < block) /\ \E m \in Healthy : getBlockHashes(n, block) # getBlockHashes(m, block)
        BY <1>2, <2>7, <4>1, <4>4
      <4> QED BY <4>1, <4>2, <4>3, <4>4
    <3> QED BY <2>1, <3>1, <3>2
  <2>9. ASSUME NEW n \in Failing \ failed', NEW k \in 0 .. block' - 1
        PROVE  k < fork[n]
    <3>1. CASE k \in 0 .. block - 1
      BY <1>4, <2>1, <3>1
    <3>2. CASE k = block
      <4>1. PICK m \in Healthy : TRUE
        BY <1>4
      <4>2. m # n /\ m \in Nodes /\ n \in Nodes
        BY <1>0
      <4>3. getBlockHashes(n, block) = getBlockHashes(m, block)
        BY <2>1 DEF recordFailingNodes
      <4>4. ~(height[m] < block)
        BY <1>2, <1>4, <2>1, <4>2
      <4>5. getBlockHashes(m, block) = <<m, block>> \/ getBlockHashes(m, block) = <<block>>
        BY <4>4 DEF getBlockHashes
      <4>6. /\ <<m, block>> # <<>> /\ <<block>> # <<>> /\ <<n, block>> # <<m, block>>
            /\ <<n, block>> # <<block>>
        BY <4>2
      <4>7. ~(block >= fork[n])
        BY <4>3, <4>5, <4>6 DEF getBlockHashes
      <4> QED BY <1>2, <3>2, <4>2, <4>7
    <3> QED BY <2>4, <3>1, <3>2
  <2>10. HashesRead'
    BY <1>1, <1>3, <1>4, <2>1, <2>6, <2>7, <2>8, <2>9 DEF HashesRead
  <2> QED BY <1>0, <2>3, <2>10, OwnPart
<1>7. CASE CompareBlock /\ ~compareHealthyNodes(block)
  <2>1. block <= limit /\ Finish("error")
    BY <1>7 DEF CompareBlock
  <2>2. Reason
    <3>1. CASE \E n \in Healthy : ~Reachable(n)
      BY <1>0, <3>1, NoAnswer DEF Dials
    <3>2. CASE \E n, m \in Healthy : getBlockHashes(n, block) # getBlockHashes(m, block)
      <4>1. PICK n \in Healthy, m \in Healthy : getBlockHashes(n, block) # getBlockHashes(m, block)
        BY <3>2
      <4>2. ~(height[n] < block) /\ ~(height[m] < block) /\ n \in Nodes /\ m \in Nodes
        BY <1>0, <1>2, <1>4, <2>1
      <4>3. block >= fork[n] \/ block >= fork[m]
        BY <4>1, <4>2 DEF getBlockHashes
      <4>4. fork[n] <= limit \/ fork[m] <= limit
        BY <1>2, <2>1, <4>2, <4>3
      <4> QED BY <4>4 DEF Reason
    <3>3. CASE \E n \in Healthy : ~(height[n] >= block)
      BY <1>0, <1>2, <1>4, <2>1, <3>3
    <3> QED BY <1>7, <3>1, <3>2, <3>3 DEF compareHealthyNodes
  <2> QED BY <2>1, <2>2, EndStep
<1>8. CASE HashesVerdict
  <2>1. block > limit /\ Finish(IF failed = Failing THEN "ok" ELSE "error")
    BY <1>8 DEF HashesVerdict
  <2>2. block = limit + 1 /\ 0 .. block - 1 = 0 .. limit /\ limit \in 0 .. limit
    BY <1>2, <1>4, <2>1
  <2>3. CASE failed = Failing
    <3>1. \A n \in Failing :
            \/ ctx = "ended" \/ n \in everDown \/ was.height[n] < limit
            \/ \E k \in 0 .. limit, m \in Healthy : getBlockHashes(n, k) # getBlockHashes(m, k)
      BY <1>5, <2>2, <2>3 DEF Unanswered
    <3>2. \A k \in 0 .. limit, n, m \in Healthy : getBlockHashes(n, k) = getBlockHashes(m, k)
      BY <1>4, <2>2
    <3>3. \E n \in Healthy : limit >= was.height[n]
      BY <1>0, <1>2, <1>4
    <3>4. Promise
      BY <1>4, <3>1, <3>2, <3>3 DEF Promise, Is
    <3> QED BY <2>1, <2>3, <3>4, EndStep
  <2>4. CASE failed # Failing
    <3>1. PICK n \in Failing \ failed : TRUE
      BY <1>0, <2>4 DEF CheckTypes
    <3>2. limit < fork[n] /\ fork[n] \in Nat
      BY <1>0, <1>2, <1>4, <2>2, <3>1
    <3>3. Reason
      BY <1>2, <3>2 DEF Reason
    <3> QED BY <2>1, <2>4, <3>3, EndStep
  <2> QED BY <2>3, <2>4
<1> QED
  BY <1>6, <1>7, <1>8

-----------------------------------------------------------------------------
(* networkRules and validatorsActive *)

(* Rules are never taken back: who had them when he was asked has them     *)
(* still, and who had them at the start had them when he was asked.        *)
LEMMA RulesStep ==
  ASSUME ChecksInv, Common, Is({"networkRules"}), RulesVerdict \/ \E n \in Nodes : CheckRules(n)
  PROVE  ChecksInv'
<1>0. /\ Types /\ CheckTypes /\ Failing \subseteq Nodes /\ Healthy \subseteq Nodes
      /\ ~Is({"blockHeight"}) /\ ~Is({"eventThrottled"}) /\ ~Is({"blocksHashes"}) /\ RulesRead
      /\ Is(Polling) /\ was.applied \subseteq applied
  BY SpecIs DEF ChecksInv, Types, SinceWas, Is, Polling
<1>1. /\ spec' = spec /\ applied' = applied /\ Failing' = Failing /\ Healthy' = Healthy
      /\ \A n : Unanswered(n)' = Unanswered(n) /\ ctx' = ctx
  BY <1>0, CommonTypes DEF Common, network
<1>2. pc = "read"
  BY DEF RulesVerdict, CheckRules, At
<1>3. /\ Nodes \ (todo \cup failed) \subseteq applied
      /\ \A n \in failed : Unanswered(n) \/ n \notin was.applied
  BY <1>0, <1>2 DEF RulesRead
<1>4. ASSUME NEW n \in Nodes, CheckRules(n) PROVE ChecksInv'
  <2>0. CASE Dials(n) /\ spec.patch = "unfit"
    <3>1. Retry
      BY <1>4, <2>0 DEF CheckRules
    <3>2. Reason
      BY <2>0 DEF Reason
    <3> QED BY <1>0, <3>1, <3>2, RetryStep
  <2>1. CASE Dials(n) /\ spec.patch # "unfit" /\ n \in applied
    <3>1. /\ todo' = todo \ {n}
          /\ UNCHANGED <<pc, verdict, got, failed, limit, block, attempt, snap, was>>
      BY <1>4, <2>1 DEF CheckRules
    <3>2. CheckTypes' /\ verdict' = "none"
      BY <1>0, <1>1, <1>2, <3>1 DEF CheckTypes
    <3>3. RulesRead'
      BY <1>1, <1>3, <2>1, <3>1 DEF RulesRead
    <3> QED BY <1>0, <3>2, <3>3, OwnPart
  <2>2. CASE ~(Dials(n) /\ (spec.patch = "unfit" \/ n \in applied)) /\ n \in Failing
    <3>1. /\ todo' = todo \ {n} /\ failed' = failed \cup {n}
          /\ UNCHANGED <<pc, verdict, got, limit, block, attempt, snap, was>>
      BY <1>4, <2>2 DEF CheckRules
    <3>2. CheckTypes' /\ verdict' = "none"
      BY <1>0, <1>1, <1>2, <2>2, <3>1 DEF CheckTypes
    <3>3. Unanswered(n) \/ n \notin was.applied
      BY <1>0, <2>2, NoAnswer
    <3>4. RulesRead'
      BY <1>1, <1>3, <3>1, <3>3 DEF RulesRead
    <3> QED BY <1>0, <3>2, <3>4, OwnPart
  <2>3. CASE ~(Dials(n) /\ (spec.patch = "unfit" \/ n \in applied)) /\ n \notin Failing
    <3>1. Retry
      BY <1>4, <2>3 DEF CheckRules
    <3>2. Reason
      <4>1. CASE ~Dials(n)
        BY <1>0, <4>1, NoAnswer
      <4>2. CASE n \notin applied
        <5>1. n \in Healthy /\ n \notin was.applied
          BY <1>0, <2>3, <4>2 DEF Healthy
        <5> QED BY <5>1 DEF Reason
      <4> QED BY <2>3, <4>1, <4>2
    <3> QED BY <1>0, <3>1, <3>2, RetryStep
  <2> QED BY <2>0, <2>1, <2>2, <2>3
<1>5. CASE RulesVerdict
  <2>1. todo = {} /\ IF failed = Failing THEN Finish("ok") ELSE Retry
    BY <1>5 DEF RulesVerdict
  <2>2. CASE failed = Failing
    <3>1. Healthy \subseteq applied
      BY <1>0, <1>3, <2>1, <2>2 DEF Healthy
    <3>2. ctx = "live" => Failing \cap was.applied \subseteq everDown
      BY <1>3, <2>2 DEF Unanswered
    <3>3. Promise
      BY <3>1, <3>2 DEF Promise, Is
    <3> QED BY <2>1, <2>2, <3>3, EndStep
  <2>3. CASE failed # Failing
    <3>1. PICK n \in Failing : n \notin failed
      BY <1>0, <2>3 DEF CheckTypes
    <3>2. n \in Failing \cap applied
      BY <1>0, <1>3, <2>1, <3>1
    <3>3. Reason
      BY <3>2 DEF Reason
    <3> QED BY <1>0, <2>1, <2>3, <3>3, RetryStep
  <2> QED BY <2>2, <2>3
<1> QED
  BY <1>4, <1>5

(* The epoch of the node asked is none before the start of the attempt. *)
LEMMA ValidatorsStep ==
  ASSUME ChecksInv, Common, Is({"validatorsActive"}), ReadActiveValidators
  PROVE  ChecksInv'
<1>0. Types /\ CheckTypes /\ Healthy \subseteq Nodes /\ Is(Polling)
  BY SpecIs DEF ChecksInv, Types, Is, Polling
<1>1. \A n \in Nodes : /\ view[n] \in Nat /\ was.view[n] \in Nat /\ epoch \in Nat
                       /\ 1 <= view[n] /\ was.view[n] <= view[n] /\ view[n] <= epoch
  BY <1>0 DEF Types, NetworkTypes, SinceWas
<1>2. ASSUME NEW n \in dialFirstReachable, IF verifyAllActive(n) THEN Finish("ok") ELSE Retry
      PROVE  ChecksInv'
  <2>1. n \in Healthy /\ n \in Nodes
    BY <1>0 DEF dialFirstReachable
  <2>2. view[n] \in was.view[n] .. epoch /\ view[n] \in 1 .. epoch
    BY <1>1, <2>1
  <2>3. CASE verifyAllActive(n)
    <3>1. Promise
      BY <2>1, <2>2, <2>3 DEF Promise, Is, verifyAllActive
    <3> QED BY <1>2, <2>3, <3>1, EndStep
  <2>4. CASE ~verifyAllActive(n)
    <3>1. Reason
      BY <2>2, <2>4 DEF Reason, verifyAllActive
    <3> QED BY <1>0, <1>2, <2>4, <3>1, RetryStep
  <2> QED BY <2>3, <2>4
<1>3. CASE dialFirstReachable = {} /\ Retry
  <2>1. Reason
    <3>1. CASE Healthy = {}
      BY <3>1 DEF Reason
    <3>2. CASE Healthy # {}
      <4>1. PICK n \in Healthy : ~Dials(n)
        BY <1>3, <3>2 DEF dialFirstReachable
      <4> QED BY <1>0, <4>1, NoAnswer
    <3> QED BY <3>1, <3>2
  <2> QED BY <1>0, <1>3, <2>1, RetryStep
<1> QED
  BY <1>2, <1>3 DEF ReadActiveValidators

-----------------------------------------------------------------------------
(* blocksRolling, blocksHalted and blockGasRate *)

(* The samples of a node since the start of the check. *)
LEMMA PointsAre ==
  ASSUME Types, NEW n \in Nodes
  PROVE  /\ points(n) \in Seq(Nat)
         /\ \A i \in 1 .. Len(points(n)) :
              /\ was.height[n] <= points(n)[i] /\ points(n)[i] <= height[n]
              /\ points(n)[i] \in Nat
         /\ \A i, j \in 1 .. Len(points(n)) : i <= j => points(n)[i] <= points(n)[j]
         /\ Len(points(n)) = Len(samples[n]) - was.samples[n]
         /\ \A i \in 1 .. Len(points(n)) :
              /\ points(n)[i] = samples[n][was.samples[n] + i]
              /\ was.samples[n] + i \in was.samples[n] + 1 .. Len(samples[n])
<1> DEFINE from == was.samples[n]
           s == samples[n]
<1>1. s \in Seq(Nat) /\ from \in Nat /\ from <= Len(s) /\ Len(s) \in Nat
  BY DEF Types, NetworkTypes, SinceWas
<1>2. /\ \A i \in from + 1 .. Len(s) : was.height[n] <= s[i] /\ s[i] <= height[n]
      /\ \A i, j \in from + 1 .. Len(s) : i <= j => s[i] <= s[j]
  BY DEF Types, SamplesRise
<1> HIDE DEF from, s
<1>3. /\ SubSeq(s, from + 1, Len(s)) \in Seq(Nat)
      /\ Len(SubSeq(s, from + 1, Len(s))) = Len(s) - from
      /\ \A i \in 1 .. Len(s) - from : SubSeq(s, from + 1, Len(s))[i] = s[from + i]
  <2>1. from + 1 \in Int /\ Len(s) \in Int /\ \A i \in from + 1 .. Len(s) : s[i] \in Nat
    BY <1>1
  <2> DEFINE a == from + 1
             b == Len(s)
  <2>2. /\ SubSeq(s, a, b) \in Seq(Nat)
        /\ Len(SubSeq(s, a, b)) = IF a <= b THEN b - a + 1 ELSE 0
        /\ \A i \in 1 .. b - a + 1 : SubSeq(s, a, b)[i] = s[a + i - 1]
    <3>1. a \in Int /\ b \in Int /\ \A i \in a .. b : s[i] \in Nat
      BY <2>1
    <3> HIDE DEF a, b
    <3> QED BY <3>1, SubSeqProperties
  <2>3. Len(SubSeq(s, from + 1, Len(s))) = Len(s) - from
    BY <1>1, <2>2
  <2>4. Len(s) - (from + 1) + 1 = Len(s) - from /\ \A i \in Nat : (from + 1) + i - 1 = from + i
    BY <1>1
  <2>5. \A i \in 1 .. Len(s) - from : SubSeq(s, from + 1, Len(s))[i] = s[from + i]
    <3> SUFFICES ASSUME NEW i \in 1 .. Len(s) - from
                 PROVE  SubSeq(s, from + 1, Len(s))[i] = s[from + i]
      OBVIOUS
    <3>1. i \in Nat
      BY <1>1
    <3> QED BY <2>2, <2>4, <3>1, Zenon
  <2> QED BY <2>2, <2>3, <2>5, Zenon
<1>4. points(n) = SubSeq(s, from + 1, Len(s))
  BY DEF points, from, s
<1>5. \A i \in 1 .. Len(s) - from : from + i \in from + 1 .. Len(s) /\ from + i \in 1 .. Len(s)
  BY <1>1
<1>6. \A i \in 1 .. Len(s) - from : s[from + i] \in Nat
  BY <1>1, <1>5
<1>7. /\ Len(points(n)) = Len(s) - from
      /\ \A i \in 1 .. Len(points(n)) : points(n)[i] = s[from + i] /\ from + i \in from + 1 .. Len(s)
  BY <1>3, <1>4, <1>5, Zenon
<1>8. /\ points(n) \in Seq(Nat)
      /\ \A i \in 1 .. Len(points(n)) :
           was.height[n] <= points(n)[i] /\ points(n)[i] <= height[n] /\ points(n)[i] \in Nat
      /\ \A i, j \in 1 .. Len(points(n)) : i <= j => points(n)[i] <= points(n)[j]
  <2>1. points(n) \in Seq(Nat)
    BY <1>3, <1>4
  <2>2. \A i \in 1 .. Len(points(n)) : i \in 1 .. Len(s) - from /\ i \in Int
    BY <1>1, <1>7
  <2>3. ASSUME NEW i \in 1 .. Len(points(n))
        PROVE  was.height[n] <= points(n)[i] /\ points(n)[i] <= height[n] /\ points(n)[i] \in Nat
    BY <1>2, <1>6, <1>7, <2>2
  <2>4. ASSUME NEW i \in 1 .. Len(points(n)), NEW j \in 1 .. Len(points(n)), i <= j
        PROVE  points(n)[i] <= points(n)[j]
    <3>1. from + i <= from + j
      BY <1>1, <2>2, <2>4
    <3> QED BY <1>2, <1>7, <3>1
  <2> QED BY <2>1, <2>3, <2>4
<1> QED
  BY <1>7, <1>8, Zenon DEF from, s

(* A node was seen to grow exactly when the samples of it differ. *)
LEMMA PointsWatched ==
  ASSUME Types, NEW n \in Nodes
  PROVE  /\ watched[n] = "seen" =>
              /\ Len(points(n)) >= 2 /\ points(n)[1] < points(n)[Len(points(n))]
         /\ watched[n] # "seen" =>
              \A i, j \in 1 .. Len(points(n)) : points(n)[i] = points(n)[j]
<1> DEFINE f == was.samples[n]
           s == samples[n]
           p == points(n)
<1>1. /\ s \in Seq(Nat) /\ f \in Nat /\ f <= Len(s) /\ Len(s) \in Nat
      /\ watched[n] \in {"no", "once", "grown", "seen"}
  BY DEF Types, NetworkTypes, SinceWas
<1>2. /\ watched[n] = "no" <=> Len(s) = f
      /\ watched[n] = "once" => \A i \in f + 1 .. Len(s) : s[i] = height[n]
      /\ watched[n] = "grown" => \A i \in f + 1 .. Len(s) : s[i] = s[f + 1]
      /\ watched[n] = "seen" => s[f + 1] < Last(s)
  BY DEF Types, Observed
<1>3. /\ Len(p) = Len(s) - f
      /\ \A i \in 1 .. Len(p) : p[i] = s[f + i] /\ f + i \in f + 1 .. Len(s)
  BY PointsAre
<1> HIDE DEF f, s, p
<1>4. watched[n] # "seen" => \A i, j \in 1 .. Len(p) : p[i] = p[j]
  <2>1. CASE watched[n] = "no"
    BY <1>1, <1>2, <1>3, <2>1
  <2>2. CASE watched[n] = "once"
    BY <1>2, <1>3, <2>2
  <2>3. CASE watched[n] = "grown"
    BY <1>2, <1>3, <2>3
  <2> QED BY <1>1, <2>1, <2>2, <2>3
<1>5. watched[n] = "seen" => Len(p) >= 2 /\ p[1] < p[Len(p)]
  <2> SUFFICES ASSUME watched[n] = "seen" PROVE Len(p) >= 2 /\ p[1] < p[Len(p)]
    OBVIOUS
  <2>1. Len(s) # f /\ s[f + 1] < s[Len(s)]
    BY <1>1, <1>2 DEF Last
  <2>2. 1 \in 1 .. Len(p) /\ Len(p) \in 1 .. Len(p) /\ f + Len(p) = Len(s)
    BY <1>1, <1>3, <2>1
  <2>3. p[1] = s[f + 1] /\ p[Len(p)] = s[Len(s)]
    BY <1>3, <2>2
  <2>4. Len(p) # 1
    <3>1. s[f + 1] \in Nat
      BY <1>1, <2>1
    <3> QED BY <1>1, <1>3, <2>1, <3>1
  <2> QED BY <1>1, <1>3, <2>1, <2>2, <2>3, <2>4
<1> QED
  BY <1>4, <1>5, Zenon DEF p

(* Rising samples whose neighbours do not rise are all the first one. *)
LEMMA HaltedIsFlat ==
  ASSUME NEW p \in Seq(Nat), \A i, j \in 1 .. Len(p) : i <= j => p[i] <= p[j],
         \A i \in 2 .. Len(p) : p[i] <= p[i - 1]
  PROVE  \A i \in 1 .. Len(p) : p[i] = p[1]
<1> DEFINE Bad == {i \in 1 .. Len(p) : p[i] # p[1]}
<1> SUFFICES ASSUME Bad # {} PROVE FALSE
  OBVIOUS
<1>1. PICK i \in Bad : \A j \in Bad : i <= j
  <2>1. Bad \subseteq Nat
    OBVIOUS
  <2> HIDE DEF Bad
  <2> QED BY <2>1, LeastNumber
<1>2. i \in 2 .. Len(p) /\ i - 1 \in 1 .. Len(p) /\ i - 1 \notin Bad
  BY <1>1
<1>3. p[i] <= p[i - 1] /\ p[i - 1] <= p[i] /\ p[i] \in Nat /\ p[i - 1] \in Nat
  BY <1>2, SMTT(30)
<1> QED
  BY <1>1, <1>2, <1>3

(* The window is never too short for the static check, and the samples     *)
(* taken in it are what rolled, halted or spiked while the check waited.   *)
LEMMA ObservationStep ==
  ASSUME ChecksInv, Common, Is(Observing), BeginObservation \/ ObservationEnds
  PROVE  ChecksInv'
<1>0. /\ Types /\ CheckTypes
      /\ ~Is({"blockHeight"}) /\ ~Is({"eventThrottled"}) /\ ~Is({"blocksHashes"}) /\ ~Is({"networkRules"})
  BY DEF ChecksInv, Types, Is, Observing
<1>1. CASE BeginObservation
  <2>1. observationWindow >= minObservationSamples
    BY <1>0, SpecIs DEF observationWindow, toleranceSamples, defaultToleranceSamples,
       Unset, minObservationSamples, CheckTypes, SpecCheck, Is
  <2>2. ~(observationWindow < minObservationSamples)
    BY <1>0, <2>1, SpecIs DEF observationWindow, toleranceSamples, defaultToleranceSamples,
       Unset, minObservationSamples
  <2>3. pc' = "observe" /\ UNCHANGED <<verdict, scratch>> /\ pc = "start"
    BY <1>1, <2>2 DEF BeginObservation, At
  <2>4. CheckTypes' /\ verdict' = "none"
    BY <1>0, <2>3 DEF CheckTypes, scratch, Common, Failing
  <2> QED BY <1>0, <2>4, OwnPart
<1>2. CASE ObservationEnds
  <2>0. /\ Finish(IF ctx = "live" /\ observationHolds THEN "ok" ELSE "error")
        /\ ctx \in {"live", "ended"}
    BY <1>0, <1>2 DEF ObservationEnds, CheckTypes
  <2>1. CASE ctx = "ended"
    <3>1. Reason
      BY <2>1 DEF Reason
    <3>2. Finish("error")
      BY <2>0, <2>1
    <3> QED BY <3>1, <3>2, EndStep
  <2>2. CASE ctx # "ended" /\ Is({"blocksRolling"})
    <3>1. CASE blocksRolling
      <4>1. PICK n \in Nodes : points(n) # <<>> /\ Head(points(n)) < Last(points(n))
        BY <3>1 DEF blocksRolling
      <4>2. points(n) \in Seq(Nat) /\ 1 \in 1 .. Len(points(n)) /\ Len(points(n)) \in 1 .. Len(points(n))
        BY <1>0, <4>1, PointsAre
      <4>3. Head(points(n)) = points(n)[1] /\ Last(points(n)) = points(n)[Len(points(n))]
        BY <4>1, <4>2 DEF Last
      <4>4. /\ was.height[n] <= points(n)[1] /\ points(n)[Len(points(n))] <= height[n]
            /\ points(n)[1] \in Nat /\ points(n)[Len(points(n))] \in Nat
        BY <1>0, <4>2, PointsAre
      <4>5. was.height[n] \in Nat /\ height[n] \in Nat
        BY <1>0 DEF Types, NetworkTypes, SinceWas, Heights
      <4>6. height[n] > was.height[n]
        BY <4>1, <4>3, <4>4, <4>5
      <4>7. Promise
        <5>1. watched[n] = "seen"
          BY <1>0, <4>1, <4>2, <4>3, <4>4, PointsWatched
        <5> QED BY <2>2, <4>6, <5>1 DEF Promise, Is
      <4>8. Finish("ok")
        BY <2>0, <2>2, <3>1 DEF observationHolds, Is
      <4> QED BY <4>7, <4>8, EndStep
    <3>2. CASE ~blocksRolling
      <4>1. ASSUME NEW n \in Nodes PROVE watched[n] # "seen"
        <5> SUFFICES ASSUME watched[n] = "seen" PROVE FALSE
          OBVIOUS
        <5>1. /\ points(n) \in Seq(Nat) /\ Len(points(n)) >= 2
              /\ points(n)[1] < points(n)[Len(points(n))]
          BY <1>0, PointsAre, PointsWatched
        <5>2. /\ points(n) # <<>> /\ Head(points(n)) = points(n)[1]
              /\ Last(points(n)) = points(n)[Len(points(n))]
          BY <5>1 DEF Last
        <5> QED BY <3>2, <5>1, <5>2 DEF blocksRolling
      <4>2. Reason
        BY <2>2, <4>1 DEF Reason
      <4>3. Finish("error")
        BY <2>0, <2>2, <3>2 DEF observationHolds, Is
      <4> QED BY <4>2, <4>3, EndStep
    <3> QED BY <3>1, <3>2
  <2>3. CASE ctx # "ended" /\ Is({"blocksHalted"})
    <3>1. CASE blocksHalted
      <4>1. ASSUME NEW n \in Nodes PROVE watched[n] # "seen"
        <5>1. /\ points(n) \in Seq(Nat) /\ Len(points(n)) \in Nat
              /\ \A i, j \in 1 .. Len(points(n)) : i <= j => points(n)[i] <= points(n)[j]
          BY <1>0, PointsAre
        <5>2. \A i \in 2 .. Len(points(n)) : points(n)[i] <= points(n)[i - 1]
          <6>1. CASE Len(points(n)) >= minObservationSamples
            BY <3>1, <6>1 DEF blocksHalted
          <6>2. CASE ~(Len(points(n)) >= minObservationSamples)
            BY <5>1, <6>2 DEF minObservationSamples
          <6> QED BY <6>1, <6>2
        <5>3. \A i \in 1 .. Len(points(n)) : points(n)[i] = points(n)[1]
          BY <5>1, <5>2, HaltedIsFlat
        <5>4. Len(points(n)) >= 2 => points(n)[Len(points(n))] = points(n)[1] /\ points(n)[1] \in Nat
          BY <5>1, <5>3
        <5> QED BY <1>0, <5>1, <5>4, PointsWatched
      <4>2. Promise
        BY <2>3, <4>1 DEF Promise, Is
      <4>3. Finish("ok")
        BY <2>0, <2>3, <3>1 DEF observationHolds, Is
      <4> QED BY <4>2, <4>3, EndStep
    <3>2. CASE ~blocksHalted
      <4>0. PICK n \in Nodes : \E i \in 2 .. Len(points(n)) : ~(points(n)[i] <= points(n)[i - 1])
        BY <3>2 DEF blocksHalted
      <4>1. PICK i \in 2 .. Len(points(n)) : ~(points(n)[i] <= points(n)[i - 1])
        BY <4>0
      <4>2. points(n) \in Seq(Nat) /\ i \in 1 .. Len(points(n)) /\ i - 1 \in 1 .. Len(points(n))
        BY <1>0, <4>1, PointsAre
      <4>3. /\ was.height[n] <= points(n)[i - 1] /\ points(n)[i] <= height[n]
            /\ points(n)[i] \in Nat /\ points(n)[i - 1] \in Nat
        BY <1>0, <4>2, PointsAre
      <4>4. was.height[n] \in Nat /\ height[n] \in Nat
        BY <1>0 DEF Types, NetworkTypes, SinceWas, Heights
      <4>5. height[n] > was.height[n]
        BY <4>1, <4>3, <4>4
      <4>6. Reason
        <5>1. watched[n] = "seen"
          BY <1>0, <4>1, <4>2, <4>3, PointsWatched
        <5> QED BY <2>3, <4>5, <5>1 DEF Reason
      <4>7. Finish("error")
        BY <2>0, <2>3, <3>2 DEF observationHolds, Is
      <4> QED BY <4>6, <4>7, EndStep
    <3> QED BY <3>1, <3>2
  <2>4. CASE ctx # "ended" /\ Is({"blockGasRate"})
    <3>0. reported = was.seen + 1 .. seen
      BY <1>0 DEF Types, Observed
    <3>1. CASE blockGasRate
      <4>1. spikes \cap reported = {}
        BY <3>0, <3>1 DEF blockGasRate
      <4>2. Promise
        BY <2>4, <4>1 DEF Promise, Is
      <4>3. Finish("ok")
        BY <2>0, <2>4, <3>1 DEF observationHolds, Is
      <4> QED BY <4>2, <4>3, EndStep
    <3>2. CASE ~blockGasRate
      <4>1. spikes \cap reported # {}
        BY <3>0, <3>2 DEF blockGasRate
      <4>2. Reason
        BY <2>4, <4>1 DEF Reason
      <4>3. Finish("error")
        BY <2>0, <2>4, <3>2 DEF observationHolds, Is
      <4> QED BY <4>2, <4>3, EndStep
    <3> QED BY <3>1, <3>2
  <2> QED BY <2>1, <2>2, <2>3, <2>4 DEF Is, Observing
<1> QED
  BY <1>1, <1>2

-----------------------------------------------------------------------------
(* eventThrottled *)

Snapshots == Seq([epoch : Nat, counts : [Nodes -> Nat]])

(* A snapshot is an epoch and a count for every node. *)
LEMMA SnapIs ==
  ASSUME NEW s \in Snapshots, NEW i \in 1 .. Len(s)
  PROVE  s[i].epoch \in Nat /\ s[i].counts \in [Nodes -> Nat]
<1>1. s[i] \in [epoch : Nat, counts : [Nodes -> Nat]]
  BY ElementOfSeq DEF Snapshots
<1> QED
  BY <1>1

(* An attempt is discarded. *)
LEMMA DiscardStep ==
  ASSUME ChecksInv, Common, Is({"eventThrottled"}), Discard, pc \in {"epoch", "heads", "rates"}
  PROVE  ChecksInv'
<1>0. /\ Types /\ CheckTypes /\ SnapshotsTaken
      /\ ~Is({"blockHeight"}) /\ ~Is({"blocksHashes"}) /\ ~Is({"networkRules"})
  BY DEF ChecksInv, Types, Is
<1>1. attempt \in 0 .. maxSampleAttempts - 1 /\ maxSampleAttempts \in Nat
  BY <1>0, ChecksAssumption DEF CheckTypes
<1>2. CASE attempt + 1 < maxSampleAttempts /\ ctx = "live"
  <2>1. /\ pc' = "epoch" /\ attempt' = attempt + 1 /\ snap' = <<>>
        /\ UNCHANGED <<verdict, todo, got, failed, limit, block, was>>
    BY <1>2 DEF Discard
  <2>2. CheckTypes' /\ verdict' = "none"
    BY <1>0, <1>1, <1>2, <2>1 DEF CheckTypes, Common, Failing
  <2>3. snap' \in Snapshots /\ Len(snap') = 0 /\ \A i \in 1 .. Len(snap') : FALSE
    BY <2>1 DEF Snapshots
  <2>4. SnapshotsTaken'
    BY <1>0, <2>1, <2>3 DEF SnapshotsTaken, Snapshots, Common
  <2> QED BY <1>0, <2>2, <2>4, OwnPart
<1>3. CASE ~(attempt + 1 < maxSampleAttempts /\ ctx = "live")
  <2>1. Reason
    <3>1. CASE ctx = "ended"
      BY <3>1 DEF Reason
    <3>2. CASE attempt + 1 = maxSampleAttempts
      BY <3>2 DEF Reason
    <3> QED BY <1>0, <1>1, <1>3, <3>1, <3>2 DEF CheckTypes
  <2> QED BY <1>3, <2>1, EndStep DEF Discard
<1> QED
  BY <1>2, <1>3

(* Counts of one epoch only rise, so the second snapshot is not below the  *)
(* first when the epoch is the same.                                       *)
LEMMA ThrottleStep ==
  ASSUME ChecksInv, Common, Is({"eventThrottled"}),
         ThrottleStart \/ ReadEpoch \/ ReadHeads \/ ThrottleVerdict
  PROVE  ChecksInv'
<1>0. /\ Types /\ CheckTypes /\ SnapshotsTaken /\ Healthy \subseteq Nodes /\ snap \in Snapshots
      /\ ~Is({"blockHeight"}) /\ ~Is({"blocksHashes"}) /\ ~Is({"networkRules"})
      /\ Len(snap) \in Nat
  BY SpecIs DEF ChecksInv, Types, Is, SnapshotsTaken, Snapshots
<1>1. /\ spec' = spec /\ ctx' = ctx /\ events' = events /\ epoch' = epoch /\ missing' = missing /\ Failing' = Failing
      /\ \A k : Is(k)' = Is(k)
  BY <1>0, CommonTypes DEF Common, network
<1>2. /\ epoch \in 1 .. MaxEpochs + 1 /\ MaxEpochs \in Nat
      /\ events \in [1 .. MaxEpochs + 1 -> [Nodes -> Nat]]
      /\ view \in [Nodes -> Nat] /\ \A n \in Nodes : 1 <= view[n] /\ view[n] <= epoch
  BY <1>0, ChecksAssumption DEF Types, NetworkTypes
<1>3. \A i \in 1 .. Len(snap) :
        /\ snap[i].epoch \in 1 .. MaxEpochs + 1 /\ snap[i].epoch <= epoch
        /\ snap[i].counts \in [Nodes -> Nat]
        /\ \A n \in Nodes : /\ snap[i].counts[n] <= events[snap[i].epoch][n]
                            /\ events[snap[i].epoch][n] \in Nat
  <2> TAKE i \in 1 .. Len(snap)
  <2>1. snap[i].epoch \in Nat /\ snap[i].counts \in [Nodes -> Nat]
    BY <1>0, SnapIs
  <2>2. /\ 1 <= snap[i].epoch /\ snap[i].epoch <= epoch
        /\ \A n \in Nodes : snap[i].counts[n] <= events[snap[i].epoch][n]
    BY <1>0 DEF SnapshotsTaken
  <2>3. snap[i].epoch \in 1 .. MaxEpochs + 1
    BY <1>2, <2>1, <2>2
  <2> QED BY <1>2, <2>1, <2>2, <2>3
<1>4. pc \in {"epoch", "heads", "rates"} => client \in Nodes
  BY <1>0 DEF SnapshotsTaken, client, CheckTypes
<1>5. CASE ThrottleStart
  <2>0. pc = "start"
    BY <1>5 DEF ThrottleStart, At
  <2>1. CASE Finish("error") /\ (spec.expected = {} \/ ~(spec.expected \subseteq Validators) \/ dialFirstReachable = {})
    <3>1. Reason
      <4>1. CASE spec.expected = {} \/ ~(spec.expected \subseteq Validators) \/ Healthy = {}
        BY <4>1 DEF Reason
      <4>2. CASE dialFirstReachable = {} /\ Healthy # {}
        <5>1. PICK n \in Healthy : ~Dials(n)
          BY <4>2 DEF dialFirstReachable
        <5> QED BY <1>0, <5>1, NoAnswer
      <4> QED BY <2>1, <4>1, <4>2
    <3> QED BY <2>1, <3>1, EndStep
  <2>2. CASE \E n \in dialFirstReachable : GoTo("epoch", {n})
    <3>1. PICK n \in dialFirstReachable : GoTo("epoch", {n})
      BY <2>2
    <3>2. /\ pc' = "epoch" /\ todo' = {n} /\ n \in Nodes
          /\ UNCHANGED <<verdict, got, failed, limit, block, attempt, snap, was>>
      BY <1>0, <3>1 DEF GoTo, dialFirstReachable
    <3>3. CheckTypes' /\ verdict' = "none"
      BY <1>0, <1>1, <2>0, <3>2 DEF CheckTypes
    <3>4. Len(snap) = 0
      BY <1>0, <2>0 DEF SnapshotsTaken
    <3>5. SnapshotsTaken'
      BY <1>0, <1>1, <3>2, <3>4 DEF SnapshotsTaken
    <3> QED BY <1>0, <3>3, <3>5, OwnPart
  <2> QED BY <1>5, <2>1, <2>2 DEF ThrottleStart
<1>6. CASE ReadEpoch
  <2>0. pc = "epoch" /\ Len(snap) \in {0, 1}
    BY <1>0, <1>6 DEF ReadEpoch, At, SnapshotsTaken
  <2>1. CASE ~Reachable(client)
    BY <1>6, <2>0, <2>1, DiscardStep DEF ReadEpoch
  <2>2. CASE Reachable(client)
    <3> DEFINE r == [epoch |-> view[client], counts |-> [n \in Nodes |-> 0]]
    <3>1. /\ snap' = Append(snap, r) /\ pc' = "heads"
          /\ UNCHANGED <<verdict, todo, got, failed, limit, block, attempt, was>>
      BY <1>6, <2>2 DEF ReadEpoch
    <3>2. CheckTypes' /\ verdict' = "none"
      BY <1>0, <1>1, <2>0, <3>1 DEF CheckTypes
    <3>3. /\ r \in [epoch : Nat, counts : [Nodes -> Nat]] /\ r.epoch = view[client]
          /\ 1 <= r.epoch /\ r.epoch <= epoch /\ \A n \in Nodes : r.counts[n] = 0
      BY <1>2, <1>4, <2>0
    <3> HIDE DEF r
    <3>4. /\ snap' \in Snapshots /\ Len(snap') = Len(snap) + 1 /\ snap'[Len(snap) + 1] = r
          /\ \A i \in 1 .. Len(snap) : snap'[i] = snap[i]
      BY <1>0, <3>1, <3>3 DEF Snapshots
    <3>5. ASSUME NEW i \in 1 .. Len(snap')
          PROVE  /\ 1 <= snap'[i].epoch /\ snap'[i].epoch <= epoch
                 /\ \A n \in Nodes : snap'[i].counts[n] <= events[snap'[i].epoch][n]
      <4>1. CASE i \in 1 .. Len(snap)
        <5>1. snap'[i] = snap[i]
          BY <3>4, <4>1
        <5>2. 1 <= snap[i].epoch /\ snap[i].epoch <= epoch
              /\ \A n \in Nodes : snap[i].counts[n] <= events[snap[i].epoch][n]
          <6>1. /\ snap[i].epoch \in 1 .. MaxEpochs + 1 /\ snap[i].epoch <= epoch
                /\ \A n \in Nodes : snap[i].counts[n] <= events[snap[i].epoch][n]
            BY <1>3, <4>1
          <6>2. 1 <= snap[i].epoch
            BY <1>2, <6>1
          <6> QED BY <6>1, <6>2
        <5> QED BY <5>1, <5>2
      <4>2. CASE i = Len(snap) + 1
        <5>1. r.epoch \in 1 .. MaxEpochs + 1
          BY <1>2, <3>3
        <5>2. \A n \in Nodes : events[r.epoch][n] \in Nat
          BY <1>2, <5>1
        <5> QED BY <3>3, <3>4, <4>2, <5>2
      <4> QED BY <1>0, <3>4, <4>1, <4>2
    <3>6. SnapshotsTaken'
      BY <1>0, <1>1, <2>0, <3>1, <3>4, <3>5 DEF SnapshotsTaken, Snapshots
    <3> QED BY <1>0, <3>2, <3>6, OwnPart
  <2> QED BY <2>1, <2>2
<1>7. CASE ReadHeads
  <2> DEFINE L == Len(snap)
             e == Last(snap).epoch
  <2>0. pc = "heads" /\ L \in {1, 2}
    BY <1>0, <1>7 DEF ReadHeads, At, SnapshotsTaken
  <2>a. PICK counts \in countEventsFromHeads(e) :
          IF ~Dials(client) \/ \A n \in Nodes : counts[n] = 0 THEN Discard
          ELSE /\ snap' = [snap EXCEPT ![L] = [snap[L] EXCEPT !.counts = counts]]
               /\ pc' = IF Len(snap) = 1 THEN "epoch" ELSE "rates"
               /\ UNCHANGED <<verdict, todo, got, failed, limit, block, attempt, was>>
    BY <1>7 DEF ReadHeads
  <2>1. CASE ~Dials(client) \/ \A n \in Nodes : counts[n] = 0
    BY <2>0, <2>1, <2>a, DiscardStep
  <2>2. CASE ~(~Dials(client) \/ \A n \in Nodes : counts[n] = 0)
    <3>1. /\ snap' = [snap EXCEPT ![L] = [snap[L] EXCEPT !.counts = counts]]
          /\ pc' = IF Len(snap) = 1 THEN "epoch" ELSE "rates"
          /\ UNCHANGED <<verdict, todo, got, failed, limit, block, attempt, was>>
      BY <2>2, <2>a
    <3>2. CheckTypes' /\ verdict' = "none"
      BY <1>0, <1>1, <2>0, <3>1 DEF CheckTypes
    <3>3. /\ L \in 1 .. Len(snap) /\ e = snap[L].epoch /\ e \in 1 .. MaxEpochs + 1 /\ e <= epoch
          /\ events[e] \in [Nodes -> Nat] /\ counts \in [Nodes -> Nat]
          /\ (\A n \in Nodes : counts[n] <= events[e][n]) /\ (~missing => counts = events[e])
          /\ snap[L] \in [epoch : Nat, counts : [Nodes -> Nat]]
      <4>1. L \in 1 .. Len(snap) /\ e = snap[L].epoch
        BY <2>0, SMTT(30) DEF Last
      <4>2. snap[L] \in [epoch : Nat, counts : [Nodes -> Nat]]
        BY <1>0, <4>1, ElementOfSeq DEF Snapshots
      <4>3. e \in 1 .. MaxEpochs + 1 /\ e <= epoch /\ events[e] \in [Nodes -> Nat]
        BY <1>2, <1>3, <4>1
      <4>4. /\ counts \in [Nodes -> Nat] /\ (\A n \in Nodes : counts[n] <= events[e][n])
            /\ (~missing => counts = events[e])
        <5>1. CASE missing
          BY <2>a, <5>1, ChecksAssumption DEF countEventsFromHeads
        <5>2. CASE ~missing
          BY <2>a, <4>3, <5>2 DEF countEventsFromHeads
        <5> QED BY <5>1, <5>2
      <4> QED BY <4>1, <4>2, <4>3, <4>4
    <3> DEFINE r == [snap[L] EXCEPT !.counts = counts]
    <3>4. r \in [epoch : Nat, counts : [Nodes -> Nat]] /\ r.epoch = e /\ r.counts = counts
      BY <3>3
    <3> HIDE DEF r, L, e
    <3>5. /\ snap' \in Snapshots /\ Len(snap') = Len(snap) /\ snap'[L] = r
          /\ \A i \in 1 .. Len(snap) : i # L => snap'[i] = snap[i]
      <4>1. snap' = [snap EXCEPT ![L] = r]
        BY <3>1 DEF r
      <4> QED BY <1>0, <3>3, <3>4, <4>1 DEF Snapshots
    <3>6. ASSUME NEW i \in 1 .. Len(snap')
          PROVE  /\ 1 <= snap'[i].epoch /\ snap'[i].epoch <= epoch
                 /\ \A n \in Nodes : snap'[i].counts[n] <= events[snap'[i].epoch][n]
      <4>1. CASE i # L
        BY <1>2, <1>3, <3>5, <4>1
      <4>2. CASE i = L
        <5>1. \A n \in Nodes : events[e][n] \in Nat
          BY <3>3
        <5>2. snap'[i].epoch = e /\ snap'[i].counts = counts /\ 1 <= e
          BY <1>2, <3>3, <3>4, <3>5, <4>2
        <5> QED BY <3>3, <5>1, <5>2
      <4> QED BY <4>1, <4>2
    <3>7. pc' = "rates" /\ sameEpoch' /\ ~missing' =>
            \A n \in Nodes : snap'[1].counts[n] <= snap'[2].counts[n]
      <4> SUFFICES ASSUME pc' = "rates", snap'[1].epoch = snap'[2].epoch, ~missing
          PROVE \A n \in Nodes : snap'[1].counts[n] <= snap'[2].counts[n]
        BY <1>1 DEF sameEpoch
      <4>1. L = 2 /\ 1 \in 1 .. Len(snap) /\ 2 \in 1 .. Len(snap)
        BY <2>0, <3>1 DEF L
      <4>2. snap'[1] = snap[1] /\ snap'[2] = r
        BY <3>5, <4>1
      <4>3. snap[1].epoch = e
        BY <3>4, <4>2
      <4> QED BY <1>3, <3>3, <3>4, <4>1, <4>2, <4>3
    <3>8. pc' \in {"epoch", "rates"} /\ (pc' = "epoch" => Len(snap) = 1) /\ (pc' = "rates" => Len(snap) = 2)
      BY <2>0, <3>1 DEF L
    <3>9. SnapshotsTaken'
      BY <1>0, <1>1, <2>0, <3>1, <3>5, <3>6, <3>7, <3>8 DEF SnapshotsTaken, Snapshots
    <3> QED BY <1>0, <3>2, <3>9, OwnPart
  <2> QED BY <2>1, <2>2
<1>8. CASE ThrottleVerdict
  <2>0. pc = "rates" /\ Len(snap) = 2
    BY <1>0, <1>8 DEF ThrottleVerdict, At, SnapshotsTaken
  <2>1. CASE ~sameEpoch
    BY <1>8, <2>0, <2>1, DiscardStep DEF ThrottleVerdict
  <2>2. CASE sameEpoch /\ verifyThrottled
    <3>1. missing \/ \A n \in Nodes : snap[1].counts[n] <= snap[2].counts[n]
      BY <1>0, <2>0, <2>2 DEF SnapshotsTaken
    <3>2. \A n \in Nodes : missing \/ 0 <= emitted(n)
      <4> TAKE n \in Nodes
      <4>1. snap[1].counts[n] \in Nat /\ snap[2].counts[n] \in Nat
        BY <1>3, <2>0
      <4> QED BY <3>1, <4>1 DEF emitted
    <3>3. /\ snap[2].epoch \in 1 .. epoch
          /\ \A n \in Nodes : snap[2].counts[n] <= events[snap[2].epoch][n]
      BY <1>2, <1>3, <2>0
    <3>4. Promise
      BY <3>2, <3>3 DEF Promise, Is
    <3> QED BY <1>8, <2>2, <3>4, EndStep DEF ThrottleVerdict
  <2>3. CASE sameEpoch /\ ~verifyThrottled
    <3>1. Reason
      BY <2>3 DEF Reason
    <3> QED BY <1>8, <2>3, <3>1, EndStep DEF ThrottleVerdict
  <2> QED BY <2>1, <2>2, <2>3
<1> QED
  BY <1>5, <1>6, <1>7, <1>8

-----------------------------------------------------------------------------
(* The theorems *)

(* Every network and sub-check a scenario may start with. *)
LEMMA ChecksInit ==
  ASSUME Init
  PROVE  ChecksInv
<1>1. /\ spec \in Specs /\ SpecCheck(spec) /\ pc = "start" /\ verdict = "none" /\ todo = {}
      /\ got = [n \in Nodes |-> 0] /\ failed = {} /\ limit = MaxHeight + 1 /\ block = 0
      /\ attempt = 0 /\ ctx = "live" /\ snap = <<>> /\ down = {} /\ epoch = 1
      /\ view = [n \in Nodes |-> 1] /\ everDown = {} /\ was = Moment
      /\ missing = FALSE /\ watched = [n \in Nodes |-> "no"] /\ reported = {}
      /\ events = [e \in 1 .. MaxEpochs + 1 |-> [n \in Nodes |-> 0]]
  BY DEF Init
<1>2. MaxHeight \in Nat \ {0} /\ MaxEpochs \in Nat /\ maxSampleAttempts \in Nat \ {0}
  BY ChecksAssumption
<1>3. CheckTypes
  BY <1>1, <1>2 DEF CheckTypes
<1>4. height \in Heights
  <2>1. height \in StartHeights \/ height = [n \in Nodes |-> 1]
    BY DEF Init
  <2> QED BY <1>2, <2>1, ChecksAssumption DEF Heights
<1>5. fork \in [Nodes -> Nat]
  <2>1. fork \in Forks \/ fork = [n \in Nodes |-> MaxHeight + 1]
    BY DEF Init
  <2> QED BY <1>2, <2>1, ChecksAssumption
<1>6. applied \subseteq Nodes
  BY DEF Init
<1>7. Max(Range(height)) \in Nat
  <2>1. height \in [Nodes -> Int]
    BY <1>2, <1>4 DEF Heights
  <2>2. \E n \in Nodes : height[n] = Max(Range(height))
    BY <2>1, MaxOfRange
  <2> QED BY <1>2, <1>4, <2>2 DEF Heights
<1>8. spikes \subseteq Nat
  <2>1. spikes \subseteq {Max(Range(height))}
    BY DEF Init
  <2> QED BY <1>7, <2>1
<1>9. seen \in Nat
  <2> DEFINE top == Max(Range(height))
  <2>1. seen = top \/ seen = Max({0, top - 1}) \/ seen = 0
    BY DEF Init
  <2>2. top \in Nat
    BY <1>7
  <2> HIDE DEF top
  <2>3. IsFiniteSet({0, top - 1}) /\ {0, top - 1} \subseteq Int
    <3>1. top - 1 \in Int
      BY <2>2
    <3>2. \A x, y : IsFiniteSet({x, y})
      BY PairIsFinite
    <3>3. IsFiniteSet({0, top - 1})
      BY <3>2, Zenon
    <3> QED BY <3>1, <3>3
  <2>4. Max({0, top - 1}) \in {0, top - 1} /\ 0 <= Max({0, top - 1})
    BY <2>3, MaxOfFinite
  <2> QED BY <2>1, <2>2, <2>4
<1>10. samples \in [Nodes -> Seq(Nat)]
  <2>1. samples = [n \in Nodes |-> IF height[n] = 0 THEN <<>> ELSE <<height[n] - 1, height[n]>>]
    BY DEF Init
  <2>2. ASSUME NEW n \in Nodes
        PROVE  (IF height[n] = 0 THEN <<>> ELSE <<height[n] - 1, height[n]>>) \in Seq(Nat)
    <3>1. height[n] \in Nat
      BY <1>4 DEF Heights
    <3>2. CASE height[n] = 0
      BY <3>2
    <3>3. CASE height[n] # 0
      <4>1. height[n] - 1 \in Nat
        BY <3>1, <3>3
      <4> QED BY <3>1, <3>3, <4>1
    <3> QED BY <3>2, <3>3
  <2> QED BY <2>1, <2>2
<1>11. NetworkTypes
  <2>1. /\ watched \in [Nodes -> {"no", "once", "grown", "seen"}] /\ reported \subseteq Nat
        /\ missing \in BOOLEAN
    BY <1>1
  <2>2. events \in [1 .. MaxEpochs + 1 -> [Nodes -> Nat]] /\ epoch \in 1 .. MaxEpochs + 1
    BY <1>1, <1>2
  <2>3. view \in [Nodes -> Nat] /\ \A n \in Nodes : 1 <= view[n] /\ view[n] <= epoch
    BY <1>1
  <2> QED BY <1>1, <1>4, <1>5, <1>6, <1>8, <1>9, <1>10, <2>1, <2>2, <2>3 DEF NetworkTypes
<1>12. /\ was.height = height /\ was.seen = seen /\ was.view = view /\ was.applied = applied
       /\ was.samples = [n \in Nodes |-> Len(samples[n])]
  BY <1>1 DEF Moment
<1>13. \A n \in Nodes : Len(samples[n]) \in Nat /\ height[n] \in Nat
  BY <1>4, <1>10 DEF Heights
<1>14. SinceWas
  BY <1>1, <1>4, <1>9, <1>12, <1>13 DEF SinceWas
<1>15. SamplesRise
  <2>1. \A n \in Nodes : \A i \in was.samples[n] + 1 .. Len(samples[n]) : FALSE
    BY <1>12, <1>13
  <2> QED BY <2>1 DEF SamplesRise
<1>18. Observed
  <2>1. seen + 1 .. seen = {}
    BY <1>9
  <2> QED BY <1>1, <1>12, <1>13, <2>1 DEF Observed
<1>16. HeightsRead /\ HashesRead /\ RulesRead /\ Verdict
  BY <1>1 DEF HeightsRead, HashesRead, RulesRead, Verdict
<1>17. SnapshotsTaken
  <2>1. snap \in Snapshots /\ \A i \in 1 .. Len(snap) : FALSE
    BY <1>1 DEF Snapshots
  <2> QED BY <1>1, <2>1 DEF SnapshotsTaken, Snapshots
<1> QED
  BY <1>3, <1>11, <1>14, <1>15, <1>16, <1>17, <1>18 DEF ChecksInv, Types

(* Every step, of the network or of the check. *)
LEMMA ChecksStep ==
  ASSUME ChecksInv, [Next]_vars
  PROVE  ChecksInv'
<1>1. CASE Environment \/ DeadlinePasses
  BY <1>1, EnvironmentGrows, GrowthKeepsReads DEF ChecksInv
<1>2. CASE Check
  <2>1. Types /\ Common
    BY <1>2, CheckIsCommon DEF ChecksInv
  <2> QED
    BY <1>2, <2>1, StepsOfKind, PollStep, HeightsStep, RangeStep, CompareStep, RulesStep,
       ValidatorsStep, ObservationStep, ThrottleStep
<1>3. CASE UNCHANGED vars
  <2>1. UNCHANGED <<spec, pc, verdict, todo, got, failed, limit, block, attempt, ctx, snap, was>>
        /\ UNCHANGED <<height, fork, down, applied, epoch, view, members, events, missing,
                       samples, spikes, seen, watched, reported, everDown>>
    BY <1>3 DEF vars, check, network
  <2>2. Types'
    BY <2>1 DEF ChecksInv, Types, CheckTypes, NetworkTypes, SinceWas, SamplesRise, Observed, Failing
  <2>3. CASE pc # "done"
    BY <2>1, <2>2, <2>3, Ordered, GrowthKeepsReads DEF Grows, ChecksInv
  <2>4. CASE pc = "done"
    <3>1. HeightsRead' /\ HashesRead' /\ RulesRead'
      BY <2>1, <2>4 DEF HeightsRead, HashesRead, RulesRead
    <3>2. SnapshotsTaken'
      BY <2>1 DEF ChecksInv, SnapshotsTaken, sameEpoch, Is
    <3>3. /\ Failing' = Failing /\ Healthy' = Healthy /\ slack' = slack
          /\ \A k : Is(k)' = Is(k) /\ points(k)' = points(k) /\ emitted(k)' = emitted(k)
          /\ \A n, k : getBlockHashes(n, k)' = getBlockHashes(n, k)
          /\ verifyThrottled' = verifyThrottled
      BY <2>1 DEF Failing, Healthy, slack, Is, points, emitted, getBlockHashes, verifyThrottled
    <3>4. Promise' = Promise
      BY <2>1, <3>3 DEF Promise
    <3>5. Reason' = Reason
      BY <2>1, <3>3 DEF Reason
    <3>6. Verdict'
      BY <2>1, <3>4, <3>5 DEF ChecksInv, Verdict
    <3> QED BY <2>2, <3>1, <3>2, <3>6 DEF ChecksInv
  <2> QED BY <2>3, <2>4
<1> QED
  BY <1>1, <1>2, <1>3 DEF Next

(* What a check that ended says is so, whichever way it ended. *)
LEMMA VerdictIsSound ==
  ASSUME ChecksInv
  PROVE  PassIsEarned /\ FailureIsReal
<1>1. spec.failing \in BOOLEAN /\ verdict \in {"none", "ok", "error"}
  BY SpecIs DEF ChecksInv, Types, CheckTypes
<1> QED
  BY <1>1 DEF PassIsEarned, FailureIsReal, result, ChecksInv, Verdict

(* The invariant of every reachable state. *)
LEMMA ChecksInvariant == Spec => []ChecksInv
  BY ChecksInit, ChecksStep, PTL DEF Spec

(* A check passes only when the network was as it says, however its nodes  *)
(* moved, vanished and came back between the reads: heights read one after *)
(* the other, a range of blocks fixed before they are compared, rules and  *)
(* validators asked for one by one, counts of one epoch.  The checks that  *)
(* observe vouch for what the monitor was there to see: blocksRolling for  *)
(* a block taken between two samples of a node, blocksHalted for none,     *)
(* blockGasRate for the blocks reported while it waited.  An empty patch   *)
(* vouches for nothing, and a check expected to fail passes only for a     *)
(* reason (driver/checking).                                               *)
THEOREM PassesAreEarned == Spec => []PassIsEarned
<1>1. ChecksInv => PassIsEarned
  BY VerdictIsSound
<1> QED
  BY <1>1, ChecksInvariant, PTL

(* A check fails only for a reason, and neither a chain that grows under   *)
(* it nor a window the static check accepts is one.  A monitor that lags   *)
(* is one for blocksRolling, when no node was sampled before and after a   *)
(* block it took, and for blockGasRate, when it reports a block of a time  *)
(* before the check (checkHeights, compareHealthyNodes, observationWindow, *)
(* Discard).                                                               *)
THEOREM FailuresAreReal == Spec => []FailureIsReal
<1>1. ChecksInv => FailureIsReal
  BY VerdictIsSound
<1> QED
  BY <1>1, ChecksInvariant, PTL

(* The nodes visited, the range of blocks, the attempts and the views of   *)
(* the epoch keep their bounds, whatever the order of the steps.           *)
THEOREM ChecksTypeCorrect == Spec => []TypeOK
<1>1. ChecksInv => TypeOK
  BY DEF ChecksInv, Types, TypeOK
<1> QED
  BY <1>1, ChecksInvariant, PTL
=============================================================================
