-------------------------- MODULE TransactionsProofs -------------------------
(***************************************************************************)
(* The transaction monitor, for every set of accounts, applications, nodes *)
(* and heights, every DAG, every chain and all limits: the tracker counts  *)
(* what it follows (TypeOK, CountsMatch, CompositionAddsUp,                *)
(* IncludedIsReleased, StalledBehindGap), the emission observer reads every*)
(* event once and leaves none behind (ReadOnce, WalkIsComplete), and the   *)
(* inclusion observer settles every announced block once                   *)
(* (ImplementsBlockFeed's safety part, BlockIsInOnePlace).                 *)
(***************************************************************************)
EXTENDS Tracker, EmissionObserver, InclusionObserver, SetLemmas,
        FiniteSetTheorems, SequenceTheorems, WellFoundedInduction, TLAPS

-----------------------------------------------------------------------------
(* The tracker *)

(* What the tracker relies on the network for: the transactions of a       *)
(* sender are included in the order of their nonces.                       *)
NetworkInv ==
  /\ chain \in Seq(SUBSET Txs)
  /\ \A h \in DOMAIN chain : \A t \in chain[h] : status[t] = "block"
  /\ \A t, u \in Txs :
       status[t] = "block" /\ u[1] = t[1] /\ u[2] < t[2] => status[u] = "block"

(* An included transaction of a sender that was not overtaken is followed, *)
(* or its nonce was released.                                              *)
IncludedInv ==
  \A t \in Txs :
    status[t] = "block" /\ t[1] \notin overtaken =>
      /\ t \in reported /\ t[1] \in Known
      /\ t \in txs \/ t[2] < next[t[1]]

FollowInv ==
  /\ IsFiniteSet(txs)
  /\ \A t \in txs : t[1] \in Known
  /\ IncludedInv

TrackerInv ==
  /\ TypeOK /\ NetworkInv /\ FollowInv
  /\ CountsMatch /\ IncludedIsReleased /\ StalledBehindGap

-----------------------------------------------------------------------------
(* Numbers *)

(* The maximum of a nonempty bounded set of natural numbers is one of its  *)
(* elements, and no other is larger.                                       *)
LEMMA MaxIs ==
  ASSUME NEW b \in Nat, NEW S, S \subseteq 0 .. b, S # {}
  PROVE  Max(S) \in S /\ \A y \in S : y <= Max(S)
<1> DEFINE D == {b - x : x \in S}
<1>0. \A x \in S : b - x \in Nat
  <2> TAKE x \in S
  <2>1. x \in 0 .. b
    OBVIOUS
  <2>2. QED
    BY <2>1
<1>1. D \subseteq Nat /\ D # {}
  BY <1>0
<1> HIDE DEF D
<1>2. PICK d \in D : \A y \in D : d <= y
  BY <1>1, LeastNumber
<1>3. PICK x \in S : d = b - x
  BY <1>2 DEF D
<1>4. \A y \in S : y <= x
  <2> TAKE y \in S
  <2>1. b - y \in D
    BY DEF D
  <2>2. b - x <= b - y
    BY <1>2, <1>3, <2>1
  <2>3. QED
    BY <2>2
<1>5. \E z \in S : \A y \in S : z >= y
  BY <1>4
<1>6. Max(S) \in S /\ \A y \in S : Max(S) >= y
  BY <1>5 DEF Max
<1>7. QED
  BY <1>6

(* A transaction is its sender and its nonce. *)
LEMMA TxIs ==
  /\ \A t \in Txs : /\ t[1] \in Senders /\ t[2] \in 0 .. MaxNonce[t[1]]
                     /\ t = <<t[1], t[2]>>
  /\ \A s \in Senders : \A n \in 0 .. MaxNonce[s] : <<s, n>> \in Txs
  BY DEF Txs

(* The bounds are numbers. *)
LEMMA Bounds == \A s \in Senders : MaxNonce[s] \in Nat
  BY BoundsAssumption

(* extendRun finds the first nonce that is missing. *)
LEMMA ExtendRunIs ==
  ASSUME NEW s \in Senders, NEW n \in 0 .. MaxNonce[s] + 1, NEW T \in SUBSET Txs
  PROVE  /\ extendRun(s, n, T) \in n .. MaxNonce[s] + 1
         /\ <<s, extendRun(s, n, T)>> \notin T
         /\ \A i \in n .. extendRun(s, n, T) - 1 : <<s, i>> \in T
<1> DEFINE top == MaxNonce[s] + 1
           S == {m \in n .. top : <<s, m>> \notin T}
<1>1. top \in Nat /\ n \in Nat /\ n <= top
  BY Bounds
<1>2. <<s, top>> \notin T
  BY TxIs, Bounds
<1>3. S \subseteq Nat /\ S # {}
  BY <1>1, <1>2
<1>4. PICK m \in S : \A y \in S : m <= y
  BY <1>3, LeastNumber
<1>5. m \in n .. top /\ <<s, m>> \notin T
  OBVIOUS
<1>6. \A i \in n .. m - 1 : <<s, i>> \in T
  <2> TAKE i \in n .. m - 1
  <2>1. i \in n .. top /\ ~(m <= i)
    BY <1>1, <1>5
  <2>2. QED
    BY <1>4, <2>1
<1>7. \E x \in n .. top : <<s, x>> \notin T /\ \A i \in n .. x - 1 : <<s, i>> \in T
  BY <1>5, <1>6
<1>8. QED
  BY <1>7 DEF extendRun

(* The nonce that is released by the inclusion of I is the next one, or    *)
(* the one after the last included.                                        *)
LEMMA ReleasedIs ==
  ASSUME TypeOK, NEW s \in Known, NEW I \in SUBSET Txs
  PROVE  /\ Released(s, I) \in next[s] .. MaxNonce[s] + 1
         /\ \A t \in Of(s, I) : t[2] < Released(s, I)
         /\ \/ Released(s, I) = next[s]
            \/ \E t \in Of(s, I) : Released(s, I) = t[2] + 1
<1> DEFINE top == MaxNonce[s] + 1
           S == {next[s]} \cup {t[2] + 1 : t \in Of(s, I)}
<1>1. s \in Senders /\ top \in Nat /\ next[s] \in 0 .. top
  BY Bounds DEF TypeOK
<1>2. \A t \in Of(s, I) : t[2] \in Nat /\ t[2] + 1 \in 0 .. top
  <2> TAKE t \in Of(s, I)
  <2>1. t \in Txs /\ t[1] = s
    BY DEF Of
  <2>2. t[2] \in 0 .. MaxNonce[s]
    BY <2>1, TxIs
  <2>3. MaxNonce[s] \in Nat
    BY <1>1, Bounds
  <2>4. QED
    BY <2>2, <2>3
<1>3. S \subseteq 0 .. top /\ S # {}
  BY <1>1, <1>2
<1>4. Max(S) \in S /\ \A y \in S : y <= Max(S)
  BY <1>1, <1>3, MaxIs
<1>5. Released(s, I) = Max(S)
  BY DEF Released
<1> HIDE DEF top
<1>6. Max(S) \in 0 .. top /\ next[s] <= Max(S)
  BY <1>3, <1>4
<1>7. \A t \in Of(s, I) : t[2] + 1 <= Max(S)
  BY <1>4
<1>8. \A t \in Of(s, I) : t[2] < Max(S)
  BY <1>1, <1>2, <1>6, <1>7
<1>9. Max(S) \in next[s] .. top
  BY <1>1, <1>6
<1>10. QED
  BY <1>4, <1>5, <1>8, <1>9 DEF top

(* The transactions of an application in two disjoint sets add up. *)
LEMMA AppPlus ==
  ASSUME NEW T, NEW U, IsFiniteSet(T), IsFiniteSet(U), T \cap U = {}, NEW a
  PROVE  /\ Cardinality(OfApp(a, T)) \in Nat /\ Cardinality(OfApp(a, U)) \in Nat
         /\ Cardinality(OfApp(a, T \cup U)) =
              Cardinality(OfApp(a, T)) + Cardinality(OfApp(a, U))
<1>1. OfApp(a, T) \subseteq T /\ OfApp(a, U) \subseteq U
  BY DEF OfApp
<1>2. IsFiniteSet(OfApp(a, T)) /\ IsFiniteSet(OfApp(a, U))
  BY <1>1, FS_Subset
<1>3. OfApp(a, T) \cap OfApp(a, U) = {}
  BY <1>1
<1>4. Cardinality(OfApp(a, T) \cap OfApp(a, U)) = 0
  BY <1>3, FS_EmptySet
<1>5. OfApp(a, T \cup U) = OfApp(a, T) \cup OfApp(a, U)
  BY DEF OfApp
<1>6. Cardinality(OfApp(a, T)) \in Nat /\ Cardinality(OfApp(a, U)) \in Nat
  BY <1>2, FS_CardinalityType
<1>7. Cardinality(OfApp(a, T) \cup OfApp(a, U)) =
        Cardinality(OfApp(a, T)) + Cardinality(OfApp(a, U))
          - Cardinality(OfApp(a, T) \cap OfApp(a, U))
  BY <1>2, FS_Union
<1>8. Cardinality(OfApp(a, T) \cup OfApp(a, U)) =
        Cardinality(OfApp(a, T)) + Cardinality(OfApp(a, U))
  BY <1>4, <1>6, <1>7
<1>9. QED
  BY <1>5, <1>6, <1>8

(* Transactions of one application are all of it, or none. *)
LEMMA AppAll ==
  ASSUME NEW U, IsFiniteSet(U), NEW b, \A t \in U : AppOf[t[1]] = b, NEW a
  PROVE  /\ Cardinality(U) \in Nat
         /\ a = b => Cardinality(OfApp(a, U)) = Cardinality(U)
         /\ a # b => Cardinality(OfApp(a, U)) = 0
<1>1. Cardinality(U) \in Nat
  BY FS_CardinalityType
<1>2. a = b => OfApp(a, U) = U
  BY DEF OfApp
<1>3. a # b => OfApp(a, U) = {}
  BY DEF OfApp
<1>4. Cardinality({}) = 0
  BY FS_EmptySet
<1>5. QED
  BY <1>1, <1>2, <1>3, <1>4

-----------------------------------------------------------------------------
(* The network *)

(* A step that only moves transactions outside of blocks, reports some, or *)
(* changes the other counters leaves the invariant alone.                  *)
LEMMA StatusStep ==
  ASSUME TrackerInv,
         status' \in [Txs -> {"unsent", "refused", "pool", "event", "block"}],
         \A u \in Txs : status'[u] = "block" <=> status[u] = "block",
         reported \subseteq reported', reported' \subseteq Txs,
         counts' \in [Apps -> [CountKinds -> Nat]],
         \A a \in Apps : \A k \in {"Emitted", "Stalled", "Pending"} :
           counts'[a][k] = counts[a][k],
         untracked' \in Nat,
         UNCHANGED <<chain, overtaken, marked, txs, emitted, blocked, next,
                     runEnd, blocks, includedNotSeen>>
  PROVE  TrackerInv'
<1>1. TypeOK'
  BY DEF TrackerInv, TypeOK, Known
<1>2. NetworkInv'
  BY DEF TrackerInv, TypeOK, NetworkInv
<1>3. IncludedInv'
  BY DEF TrackerInv, FollowInv, IncludedInv, Known
<1>4. FollowInv'
  BY <1>3 DEF TrackerInv, FollowInv, Known
<1>5. CountsMatch'
  BY DEF TrackerInv, CountsMatch, OfApp
<1>6. IncludedIsReleased'
  BY DEF TrackerInv, IncludedIsReleased
<1>7. StalledBehindGap'
  BY DEF TrackerInv, StalledBehindGap, RunIsExact, Known, Of
<1>8. QED
  BY <1>1, <1>2, <1>4, <1>5, <1>6, <1>7 DEF TrackerInv

(* Accept *)
LEMMA AcceptStep ==
  ASSUME TrackerInv, NEW t \in Txs, Accept(t)
  PROVE  TrackerInv'
<1>1. TypeOK
  BY DEF TrackerInv
<1>2. /\ status' = [status EXCEPT ![t] = "pool"] /\ status[t] = "unsent"
      /\ UNCHANGED <<chain, overtaken, reported, marked, txs, emitted, blocked,
                     next, runEnd, counts, blocks, untracked, includedNotSeen>>
  BY DEF Accept, tracker
<1>3. /\ status' \in [Txs -> {"unsent", "refused", "pool", "event", "block"}]
      /\ \A u \in Txs : status'[u] = "block" <=> status[u] = "block"
  BY <1>1, <1>2 DEF TypeOK
<1>4. /\ reported' \subseteq Txs /\ counts' \in [Apps -> [CountKinds -> Nat]]
      /\ untracked' \in Nat
  BY <1>1, <1>2 DEF TypeOK
<1>5. QED
  BY <1>2, <1>3, <1>4, StatusStep

(* Emit *)
LEMMA EmitStep ==
  ASSUME TrackerInv, NEW t \in Txs, Emit(t)
  PROVE  TrackerInv'
<1>1. TypeOK
  BY DEF TrackerInv
<1>2. /\ status' = [status EXCEPT ![t] = "event"] /\ status[t] = "pool"
      /\ UNCHANGED <<chain, overtaken, reported, marked, txs, emitted, blocked,
                     next, runEnd, counts, blocks, untracked, includedNotSeen>>
  BY DEF Emit, tracker
<1>3. /\ status' \in [Txs -> {"unsent", "refused", "pool", "event", "block"}]
      /\ \A u \in Txs : status'[u] = "block" <=> status[u] = "block"
  BY <1>1, <1>2 DEF TypeOK
<1>4. /\ reported' \subseteq Txs /\ counts' \in [Apps -> [CountKinds -> Nat]]
      /\ untracked' \in Nat
  BY <1>1, <1>2 DEF TypeOK
<1>5. QED
  BY <1>2, <1>3, <1>4, StatusStep

(* IncludeBlock: a sender is overtaken by a transaction that is not        *)
(* followed yet, so IncludedInv holds for the others.                      *)
LEMMA IncludeBlockStep ==
  ASSUME TrackerInv, NEW B \in SUBSET {t \in Txs : status[t] = "event"},
         IncludeBlock(B)
  PROVE  TrackerInv'
<1> USE DEF TrackerInv
<1>1. /\ status' = [t \in Txs |-> IF t \in B THEN "block" ELSE status[t]]
      /\ chain' = Append(chain, B)
      /\ overtaken' = overtaken \cup {t[1] : t \in B \ txs}
      /\ UNCHANGED <<reported, marked, txs, emitted, blocked, next, runEnd,
                     counts, blocks, untracked, includedNotSeen>>
  BY DEF IncludeBlock, tracker
<1>2. /\ B \subseteq Txs /\ Len(chain) < MaxBlocks
      /\ \A t \in B : \A u \in Txs :
           u[1] = t[1] /\ u[2] < t[2] => u \in B \/ status[u] = "block"
  BY DEF IncludeBlock, Of
<1>3. \A t \in B : t[1] \in Senders
  BY <1>2, TxIs
<1>4. /\ chain' \in Seq(SUBSET Txs) /\ Len(chain') = Len(chain) + 1
      /\ DOMAIN chain' = 1 .. Len(chain) + 1 /\ DOMAIN chain = 1 .. Len(chain)
      /\ \A h \in DOMAIN chain : chain'[h] = chain[h]
      /\ chain'[Len(chain) + 1] = B
  BY <1>1, <1>2 DEF NetworkInv
<1>5. Len(chain) \in Nat
  BY DEF NetworkInv
<1>6. \A h \in DOMAIN chain' : h \in DOMAIN chain \/ chain'[h] = B
  BY <1>4, <1>5
<1>7. TypeOK'
  <2>1. Len(chain') <= MaxBlocks
    BY <1>2, <1>4, <1>5, BoundsAssumption
  <2>2. \A h \in DOMAIN chain' : chain'[h] \subseteq Txs
    BY <1>2, <1>4, <1>6 DEF TypeOK
  <2>3. status' \in [Txs -> {"unsent", "refused", "pool", "event", "block"}]
    BY <1>1 DEF TypeOK
  <2>4. marked' \subseteq DOMAIN chain'
    BY <1>1, <1>4, <1>5 DEF TypeOK
  <2>5. overtaken' \subseteq Senders
    BY <1>1, <1>3 DEF TypeOK
  <2>6. QED
    BY <1>1, <2>1, <2>2, <2>3, <2>4, <2>5 DEF TypeOK, Known
<1>8. \A u \in Txs : status'[u] = "block" <=> u \in B \/ status[u] = "block"
  BY <1>1
<1>9. NetworkInv'
  <2>1. \A h \in DOMAIN chain' : \A t \in chain'[h] : status'[t] = "block"
    BY <1>2, <1>4, <1>6, <1>8 DEF NetworkInv, TypeOK
  <2>2. ASSUME NEW t \in Txs, NEW u \in Txs,
               status'[t] = "block", u[1] = t[1], u[2] < t[2]
        PROVE  status'[u] = "block"
    BY <1>2, <1>8, <2>2 DEF NetworkInv
  <2>3. QED
    BY <1>4, <2>1, <2>2 DEF NetworkInv
<1>10. IncludedInv'
  <2> SUFFICES ASSUME NEW t \in Txs, status'[t] = "block", t[1] \notin overtaken'
               PROVE  /\ t \in reported /\ t[1] \in Known
                      /\ t \in txs \/ t[2] < next[t[1]]
    BY <1>1 DEF IncludedInv, Known
  <2>1. CASE t \in B
    <3>1. t \in txs
      BY <1>1, <2>1
    <3>2. QED
      BY <3>1 DEF FollowInv, TypeOK
  <2>2. CASE status[t] = "block"
    BY <1>1, <2>2 DEF FollowInv, IncludedInv
  <2>3. QED
    BY <1>8, <2>1, <2>2
<1>11. FollowInv'
  BY <1>1, <1>10 DEF FollowInv, Known
<1>12. CountsMatch'
  BY <1>1 DEF CountsMatch, OfApp
<1>13. IncludedIsReleased'
  BY <1>1, <1>4 DEF IncludedIsReleased, TypeOK
<1>14. StalledBehindGap'
  BY <1>1 DEF StalledBehindGap, RunIsExact, Known, Of
<1>15. QED
  BY <1>7, <1>9, <1>11, <1>12, <1>13, <1>14

-----------------------------------------------------------------------------
(* Reports of submissions *)

(* OnTransactionRejected *)
LEMMA RejectedStep ==
  ASSUME TrackerInv, NEW t \in Txs, OnTransactionRejected(t)
  PROVE  TrackerInv'
<1> DEFINE b == AppOf[t[1]]
<1>1. TypeOK /\ b \in Apps
  BY TxIs, AppOfAssumption DEF TrackerInv
<1>2. /\ \/ status[t] = "unsent" /\ status' = [status EXCEPT ![t] = "refused"]
         \/ status' = status
      /\ reported' = reported \cup {t}
      /\ counts' = [counts EXCEPT ![b]["Rejected"] = @ + 1]
      /\ UNCHANGED <<chain, overtaken, marked, txs, emitted, blocked, next, runEnd,
                     blocks, untracked, includedNotSeen>>
  BY DEF OnTransactionRejected
<1> HIDE DEF b
<1>3. /\ status' \in [Txs -> {"unsent", "refused", "pool", "event", "block"}]
      /\ \A u \in Txs : status'[u] = "block" <=> status[u] = "block"
  BY <1>1, <1>2 DEF TypeOK
<1>4. reported \subseteq reported' /\ reported' \subseteq Txs /\ untracked' \in Nat
  BY <1>1, <1>2 DEF TypeOK
<1>5. /\ counts' \in [Apps -> [CountKinds -> Nat]]
      /\ \A a \in Apps : \A k \in {"Emitted", "Stalled", "Pending"} :
           counts'[a][k] = counts[a][k]
  BY <1>1, <1>2, SMTT(30) DEF TypeOK, CountKinds
<1>6. QED
  BY <1>2, <1>3, <1>4, <1>5, StatusStep

(* A submission that finds the tracker full. *)
LEMMA UntrackedStep ==
  ASSUME TrackerInv, NEW t \in Txs, OnTransactionSubmitted(t), ~hasRoom
  PROVE  TrackerInv'
<1>1. TypeOK
  BY DEF TrackerInv
<1>2. /\ reported' = reported \cup {t} /\ untracked' = untracked + 1
      /\ UNCHANGED <<status, chain, overtaken, marked, txs, emitted, blocked, next,
                     runEnd, counts, blocks, includedNotSeen>>
  BY DEF OnTransactionSubmitted, network
<1>3. reported \subseteq reported' /\ reported' \subseteq Txs
  BY <1>1, <1>2 DEF TypeOK
<1>4. untracked' \in Nat
  BY <1>1, <1>2 DEF TypeOK
<1>5. /\ status' \in [Txs -> {"unsent", "refused", "pool", "event", "block"}]
      /\ \A u \in Txs : status'[u] = "block" <=> status[u] = "block"
  BY <1>1, <1>2 DEF TypeOK
<1>6. /\ counts' \in [Apps -> [CountKinds -> Nat]]
      /\ \A a \in Apps : \A k \in {"Emitted", "Stalled", "Pending"} :
           counts'[a][k] = counts[a][k]
  BY <1>1, <1>2 DEF TypeOK
<1>7. QED
  BY <1>2, <1>3, <1>4, <1>5, <1>6, StatusStep

(* A followed submission, as a step between the run from .. run - 1 before *)
(* it and the run from .. end - 1 after it; U are the transactions that    *)
(* unblock releases, D is the submitted one if it is beyond the run.       *)
Submission(t, s, from, run, end, D, U) ==
  /\ s = t[1] /\ t \notin reported /\ hasRoom
  /\ s \in Known => from = next[s] /\ run = runEnd[s]
  /\ s \notin Known => from = t[2] /\ run = t[2]
  /\ end = extendRun(s, run, txs \cup {t})
  /\ D = IF t[2] > run THEN {t} ELSE {}
  /\ U = {u \in Of(s, blocked \cup D) : u[2] \in run .. end - 1 /\ u[2] > from}
  /\ reported' = reported \cup {t}
  /\ txs' = txs \cup {t}
  /\ blocked' = (blocked \cup D) \ U
  /\ next' = [x \in Known \cup {s} |-> IF x = s THEN from ELSE next[x]]
  /\ runEnd' = [x \in Known \cup {s} |-> IF x = s THEN end ELSE runEnd[x]]
  /\ UNCHANGED <<status, chain, overtaken, marked, emitted, blocks, untracked,
                 includedNotSeen>>

(* What a followed submission does to the counters of its application b. *)
SubmissionCounts(b, D, U) ==
  \E i, moved \in Int :
    /\ i = IF D = {} THEN 0 ELSE 1
    /\ moved = Cardinality(U \ emitted)
    /\ counts' = [counts EXCEPT ![b]["Stalled"] = @ + i - moved,
                                ![b]["Pending"] = @ + (1 - i) + moved]

(* The run of the sender of a submission is within its bounds. *)
LEMMA SubmittedRun ==
  ASSUME TrackerInv, NEW t \in Txs, NEW s, NEW from, NEW run, NEW end, NEW D, NEW U,
         Submission(t, s, from, run, end, D, U)
  PROVE  /\ s \in Senders /\ t = <<s, t[2]>> /\ t[2] \in Nat
         /\ MaxNonce[s] + 1 \in Nat
         /\ from \in 0 .. MaxNonce[s] + 1
         /\ run \in from .. MaxNonce[s] + 1
         /\ end \in run .. MaxNonce[s] + 1
         /\ <<s, end>> \notin txs'
         /\ \A i \in run .. end - 1 : <<s, i>> \in txs'
<1>1. s \in Senders /\ t = <<s, t[2]>> /\ t[2] \in 0 .. MaxNonce[s]
  BY TxIs DEF Submission
<1>2. MaxNonce[s] \in Nat
  BY <1>1, Bounds
<1>3. t[2] \in Nat /\ t[2] <= MaxNonce[s] + 1 /\ MaxNonce[s] + 1 \in Nat
  BY <1>1, <1>2
<1>4. from \in 0 .. MaxNonce[s] + 1 /\ run \in from .. MaxNonce[s] + 1
  <2>1. CASE s \in Known
    BY <2>1 DEF Submission, TrackerInv, TypeOK
  <2>2. CASE s \notin Known
    <3>1. from = t[2] /\ run = t[2]
      BY <2>2 DEF Submission
    <3>2. QED
      BY <3>1, <1>3
  <2>3. QED
    BY <2>1, <2>2
<1>5. run \in 0 .. MaxNonce[s] + 1
  BY <1>3, <1>4
<1>6. txs \cup {t} \in SUBSET Txs
  BY DEF TrackerInv, TypeOK
<1>7. /\ end = extendRun(s, run, txs \cup {t}) /\ txs' = txs \cup {t}
  BY DEF Submission
<1>8. /\ end \in run .. MaxNonce[s] + 1
      /\ <<s, end>> \notin txs \cup {t}
      /\ \A i \in run .. end - 1 : <<s, i>> \in txs \cup {t}
  BY <1>1, <1>5, <1>6, <1>7, ExtendRunIs
<1>9. QED
  BY <1>1, <1>3, <1>4, <1>7, <1>8

(* The run of the sender stays exact: the submitted transaction is stalled *)
(* if it is beyond the run, and what is stalled after it is beyond the end *)
(* of the extended run.                                                    *)
LEMMA SubmittedExact ==
  ASSUME TrackerInv, NEW t \in Txs, NEW s, NEW from, NEW run, NEW end, NEW D, NEW U,
         Submission(t, s, from, run, end, D, U)
  PROVE  StalledBehindGap'
<1> DEFINE top == MaxNonce[s] + 1
<1>1. /\ s \in Senders /\ t = <<s, t[2]>> /\ t[2] \in Nat /\ top \in Nat
      /\ from \in 0 .. top /\ run \in from .. top /\ end \in run .. top
      /\ <<s, end>> \notin txs' /\ \A i \in run .. end - 1 : <<s, i>> \in txs'
  BY SubmittedRun
<1> HIDE DEF top
<1>2. from \in Nat /\ run \in Nat /\ end \in Nat /\ from <= run /\ run <= end
  BY <1>1
<1>3. /\ Known' = Known \cup {s} /\ next'[s] = from /\ runEnd'[s] = end
      /\ \A x \in Known \ {s} : next'[x] = next[x] /\ runEnd'[x] = runEnd[x]
  BY DEF Submission, Known
<1>4. /\ txs' = txs \cup {t} /\ blocked' = (blocked \cup D) \ U
      /\ D \subseteq {t} /\ overtaken' = overtaken
      /\ U = {u \in Of(s, blocked \cup D) : u[2] \in run .. end - 1 /\ u[2] > from}
      /\ t \in D <=> t[2] > run
  BY DEF Submission
<1>5. ASSUME NEW x \in Known \ overtaken, x # s
      PROVE  RunIsExact(x)'
  <2>1. RunIsExact(x) /\ next'[x] = next[x] /\ runEnd'[x] = runEnd[x]
    BY <1>3, <1>5 DEF TrackerInv, StalledBehindGap
  <2>2. t[1] = s
    BY DEF Submission
  <2>3. Of(x, blocked') = Of(x, blocked) /\ Of(x, txs') = Of(x, txs)
    BY <1>4, <1>5, <2>2 DEF Of
  <2>4. <<x, runEnd[x]>> # t
    BY <1>5, <2>2
  <2>5. QED
    BY <1>4, <2>1, <2>3, <2>4 DEF RunIsExact
<1>6. ASSUME s \notin overtaken
      PROVE  RunIsExact(s)'
  <2>1. /\ \A n \in from .. run - 1 : <<s, n>> \in txs
        /\ Of(s, blocked) = {u \in Of(s, txs) : u[2] > run}
    <3>1. CASE s \in Known
      <4>1. RunIsExact(s) /\ from = next[s] /\ run = runEnd[s]
        BY <1>6, <3>1 DEF TrackerInv, StalledBehindGap, Submission
      <4>2. QED
        BY <4>1 DEF RunIsExact
    <3>2. CASE s \notin Known
      <4>1. Of(s, txs) = {} /\ Of(s, blocked) = {}
        BY <3>2 DEF TrackerInv, FollowInv, TypeOK, Of
      <4>2. from = run
        BY <3>2 DEF Submission
      <4>3. \A n \in from .. run - 1 : FALSE
        BY <1>2, <4>2
      <4>4. QED
        BY <4>1, <4>3
    <3>3. QED
      BY <3>1, <3>2
  <2>2. \A n \in from .. end - 1 : <<s, n>> \in txs'
    <3> TAKE n \in from .. end - 1
    <3>1. n \in from .. run - 1 \/ n \in run .. end - 1
      BY <1>2
    <3>2. QED
      BY <1>1, <1>4, <2>1, <3>1
  <2>3. Of(s, blocked \cup D) = {u \in Of(s, txs') : u[2] > run}
    <3>1. t[1] = s
      BY DEF Submission
    <3>2. QED
      BY <1>4, <2>1, <3>1 DEF Of
  <2>4. ASSUME NEW u \in Of(s, txs')
        PROVE  u \in Of(s, blocked') <=> u[2] > end
    <3>1. u \in txs' /\ u[1] = s
      BY DEF Of
    <3>2. u \in Txs
      BY <1>4, <3>1 DEF TrackerInv, TypeOK
    <3>3. u[2] \in Nat /\ u = <<s, u[2]>>
      <4>1. u[2] \in 0 .. MaxNonce[s] /\ u = <<s, u[2]>>
        BY <3>1, <3>2, TxIs
      <4>2. QED
        BY <4>1
    <3>4. u[2] # end
      BY <1>1, <3>1, <3>3
    <3>5. u \in Of(s, blocked \cup D) <=> u[2] > run
      BY <2>3
    <3>6. u \in Of(s, blocked') <=> u[2] > run /\ ~(u[2] \in run .. end - 1 /\ u[2] > from)
      <4>1. u \in Of(s, blocked') <=> u \in Of(s, blocked \cup D) /\ u \notin U
        BY <1>4, <3>1 DEF Of
      <4>2. QED
        BY <1>4, <3>5, <4>1
    <3>7. u[2] > run /\ ~(u[2] \in run .. end - 1 /\ u[2] > from) <=> u[2] > end
      BY <1>2, <3>3, <3>4
    <3>8. QED
      BY <3>6, <3>7
  <2>5. Of(s, blocked') \subseteq Of(s, txs')
    BY <1>4 DEF Of, TrackerInv, TypeOK
  <2>6. Of(s, blocked') = {u \in Of(s, txs') : u[2] > end}
    BY <2>4, <2>5
  <2>7. QED
    BY <1>1, <1>3, <2>2, <2>6 DEF RunIsExact
<1>7. QED
  BY <1>3, <1>4, <1>5, <1>6 DEF StalledBehindGap

(* The submission moves the numbers of its application with the            *)
(* transactions: t joins the stalled or the pending ones, U leaves the     *)
(* stalled for the pending ones.                                           *)
LEMMA SubmittedCounts ==
  ASSUME TrackerInv, NEW t \in Txs, NEW s, NEW from, NEW run, NEW end, NEW D, NEW U,
         Submission(t, s, from, run, end, D, U),
         SubmissionCounts(AppOf[s], D, U)
  PROVE  CountsMatch' /\ counts' \in [Apps -> [CountKinds -> Nat]]
<1> DEFINE b == AppOf[s]
           M == U \ emitted
           E == {t} \ D
           S0 == blocked \ emitted
           S1 == blocked' \ emitted
           P0 == txs \ (blocked \cup emitted)
           P1 == txs' \ (blocked' \cup emitted)
<1>1. /\ TypeOK /\ CountsMatch /\ IsFiniteSet(txs) /\ b \in Apps
  BY TxIs, AppOfAssumption DEF TrackerInv, FollowInv, Submission
<1>2. /\ txs' = txs \cup {t} /\ blocked' = (blocked \cup D) \ U /\ emitted' = emitted
      /\ (D = {} \/ D = {t}) /\ U \subseteq blocked \cup D
      /\ t \notin txs /\ emitted \subseteq txs /\ blocked \subseteq txs
      /\ \A u \in U \cup D \cup E : u[1] = s
  BY <1>1 DEF Submission, Of, TypeOK
<1>3. IsFiniteSet({t}) /\ Cardinality({t}) = 1
  BY FS_Singleton
<1>4. IsFiniteSet(txs')
  BY <1>1, <1>2, FS_AddElement
<1>5. /\ M \subseteq txs' /\ D \subseteq txs' /\ E \subseteq txs' /\ S0 \subseteq txs'
      /\ S1 \subseteq txs' /\ P0 \subseteq txs' /\ P1 \subseteq txs'
      /\ S0 \cup D \subseteq txs' /\ P0 \cup E \subseteq txs'
  BY <1>2
<1>6. /\ IsFiniteSet(M) /\ IsFiniteSet(D) /\ IsFiniteSet(E) /\ IsFiniteSet(S0)
      /\ IsFiniteSet(S1) /\ IsFiniteSet(P0) /\ IsFiniteSet(P1)
      /\ IsFiniteSet(P0 \cup E)
  BY <1>4, <1>5, FS_Subset
<1>7. /\ S0 \cap D = {} /\ S1 \cap M = {} /\ P0 \cap E = {}
      /\ (P0 \cup E) \cap M = {}
  BY <1>2
<1>8. S1 \cup M = S0 \cup D /\ P1 = (P0 \cup E) \cup M
  BY <1>2
<1>9. /\ \A u \in M : AppOf[u[1]] = b
      /\ \A u \in D : AppOf[u[1]] = b
      /\ \A u \in E : AppOf[u[1]] = b
  BY <1>2
<1>10. PICK i \in Int, moved \in Int :
         /\ i = IF D = {} THEN 0 ELSE 1
         /\ moved = Cardinality(M)
         /\ counts' = [counts EXCEPT ![b]["Stalled"] = @ + i - moved,
                                     ![b]["Pending"] = @ + (1 - i) + moved]
  BY DEF SubmissionCounts
<1>11. Cardinality(D) = i /\ Cardinality(E) = 1 - i
  <2>1. CASE D = {}
    <3>1. i = 0 /\ E = {t}
      BY <1>10, <2>1
    <3>2. QED
      BY <1>3, <2>1, <3>1, FS_EmptySet
  <2>2. CASE D = {t}
    <3>1. i = 1 /\ E = {}
      BY <1>10, <2>2
    <3>2. QED
      BY <1>3, <2>2, <3>1, FS_EmptySet
  <2>3. QED
    BY <1>2, <2>1, <2>2
<1>12. ASSUME NEW a \in Apps
       PROVE  /\ counts'[a] = [counts[a] EXCEPT
                   !["Stalled"] = IF a = b THEN @ + i - moved ELSE @,
                   !["Pending"] = IF a = b THEN @ + (1 - i) + moved ELSE @]
  BY <1>1, <1>10 DEF TypeOK, CountKinds
<1> HIDE DEF b, M, E, S0, S1, P0, P1
<1>13. ASSUME NEW a \in Apps
       PROVE  /\ counts'[a]["Stalled"] = Cardinality(OfApp(a, S1))
              /\ counts'[a]["Pending"] = Cardinality(OfApp(a, P1))
              /\ Cardinality(OfApp(a, S1)) \in Nat /\ Cardinality(OfApp(a, P1)) \in Nat
  <2> DEFINE cS0 == Cardinality(OfApp(a, S0))
             cS1 == Cardinality(OfApp(a, S1))
             cP0 == Cardinality(OfApp(a, P0))
             cP1 == Cardinality(OfApp(a, P1))
             cM == Cardinality(OfApp(a, M))
             cD == Cardinality(OfApp(a, D))
             cE == Cardinality(OfApp(a, E))
             cQ == Cardinality(OfApp(a, P0 \cup E))
  <2>1. cS0 \in Nat /\ cD \in Nat /\ Cardinality(OfApp(a, S0 \cup D)) = cS0 + cD
    BY <1>6, <1>7, AppPlus
  <2>2. cS1 \in Nat /\ cM \in Nat /\ Cardinality(OfApp(a, S1 \cup M)) = cS1 + cM
    BY <1>6, <1>7, AppPlus
  <2>3. cP0 \in Nat /\ cE \in Nat /\ cQ = cP0 + cE
    BY <1>6, <1>7, AppPlus
  <2>4. Cardinality(OfApp(a, (P0 \cup E) \cup M)) = cQ + cM
    BY <1>6, <1>7, AppPlus
  <2>5. cP1 = cQ + cM /\ cS1 + cM = cS0 + cD
    BY <1>8, <2>1, <2>2, <2>4
  <2>6. /\ a = b => cM = moved
        /\ a # b => cM = 0
    BY <1>6, <1>9, <1>10, AppAll DEF M
  <2>7. /\ a = b => cD = i
        /\ a # b => cD = 0
    BY <1>6, <1>9, <1>11, AppAll
  <2>8. /\ a = b => cE = 1 - i
        /\ a # b => cE = 0
    BY <1>6, <1>9, <1>11, AppAll
  <2>9. counts[a]["Stalled"] = cS0 /\ counts[a]["Pending"] = cP0
    BY <1>1 DEF CountsMatch, S0, P0
  <2>10. /\ counts'[a]["Stalled"] = IF a = b THEN counts[a]["Stalled"] + i - moved
                                    ELSE counts[a]["Stalled"]
         /\ counts'[a]["Pending"] = IF a = b THEN counts[a]["Pending"] + (1 - i) + moved
                                    ELSE counts[a]["Pending"]
    BY <1>1, <1>12, ZenonT(60) DEF TypeOK, CountKinds
  <2> HIDE DEF cS0, cS1, cP0, cP1, cM, cD, cE, cQ
  <2>11. counts'[a]["Stalled"] = cS1
    BY <2>1, <2>2, <2>5, <2>6, <2>7, <2>9, <2>10
  <2>12. counts'[a]["Pending"] = cP1
    BY <2>2, <2>3, <2>5, <2>6, <2>8, <2>9, <2>10
  <2>13. cP1 \in Nat /\ cS1 \in Nat
    BY <2>2, <2>3, <2>5
  <2>14. QED
    BY <2>11, <2>12, <2>13 DEF cS1, cP1
<1>14. \A a \in Apps : \A k \in CountKinds \ {"Stalled", "Pending"} :
         counts'[a][k] = counts[a][k]
  <2> TAKE a \in Apps
  <2> TAKE k \in CountKinds \ {"Stalled", "Pending"}
  <2>1. counts[a] \in [CountKinds -> Nat] /\ k \in CountKinds
    BY <1>1 DEF TypeOK
  <2>2. k # "Stalled" /\ k # "Pending"
    OBVIOUS
  <2>3. QED
    BY <1>12, <2>1, <2>2
<1>15. CountsMatch'
  <2>1. \A a \in Apps : counts'[a]["Emitted"] = counts[a]["Emitted"]
    BY <1>14 DEF CountKinds
  <2>2. QED
    BY <1>1, <1>2, <1>13, <2>1 DEF CountsMatch, S1, P1, OfApp
<1>16. counts' \in [Apps -> [CountKinds -> Nat]]
  <2>1. \A a \in Apps : DOMAIN counts'[a] = CountKinds
    BY <1>1, <1>12 DEF TypeOK
  <2>2. \A a \in Apps : \A k \in CountKinds : counts'[a][k] \in Nat
    BY <1>1, <1>13, <1>14 DEF TypeOK
  <2>3. \A a \in Apps : counts'[a] \in [CountKinds -> Nat]
    <3> TAKE a \in Apps
    <3>1. \A k \in CountKinds : counts'[a][k] \in Nat
      BY <2>2
    <3>2. counts'[a] = [k \in CountKinds |-> counts'[a][k]]
      BY <1>1, <1>12 DEF TypeOK
    <3>3. QED
      BY <3>1, <3>2
  <2>4. DOMAIN counts' = Apps /\ counts' = [a \in Apps |-> counts'[a]]
    BY <1>1, <1>10 DEF TypeOK
  <2>5. QED
    BY <2>3, <2>4
<1>17. QED
  BY <1>15, <1>16

(* OnTransactionSubmitted with room: a transaction that is included for a  *)
(* sender that was not overtaken was reported already, so the submitted    *)
(* one is not in a block that was marked.                                  *)
LEMMA SubmittedStep ==
  ASSUME TrackerInv, NEW t \in Txs, OnTransactionSubmitted(t), hasRoom
  PROVE  TrackerInv'
<1> USE DEF TrackerInv
<1>1. PICK s, from, run, end, D, U :
        Submission(t, s, from, run, end, D, U) /\ SubmissionCounts(AppOf[s], D, U)
  <2> DEFINE s == t[1]
             from == IF s \in Known THEN next[s] ELSE t[2]
             run == IF s \in Known THEN runEnd[s] ELSE t[2]
             end == extendRun(s, run, txs \cup {t})
             D == IF t[2] > run THEN {t} ELSE {}
             U == {u \in Of(s, blocked \cup D) : u[2] \in run .. end - 1 /\ u[2] > from}
             moved == Cardinality(U \ emitted)
             i == IF t[2] > run THEN 1 ELSE 0
  <2>1. t \notin reported /\ trackSubmission(t)
        /\ reported' = reported \cup {t}
        /\ UNCHANGED <<status, chain, overtaken, marked, emitted, blocks,
                       untracked, includedNotSeen>>
    BY DEF OnTransactionSubmitted, network
  <2>2. /\ txs' = txs \cup {t}
        /\ blocked' = (blocked \cup D) \ U
        /\ next' = [x \in Known \cup {s} |-> IF x = s THEN from ELSE next[x]]
        /\ runEnd' = [x \in Known \cup {s} |-> IF x = s THEN end ELSE runEnd[x]]
        /\ counts' = [counts EXCEPT ![AppOf[s]]["Stalled"] = @ + i - moved,
                                    ![AppOf[s]]["Pending"] = @ + (1 - i) + moved]
    BY <2>1 DEF trackSubmission, unblockCounted
  <2>3. Submission(t, s, from, run, end, D, U)
    BY <2>1, <2>2 DEF Submission
  <2>4. SubmissionCounts(AppOf[s], D, U)
    <3>1. IsFiniteSet(U \ emitted)
      <4>1. U \ emitted \subseteq txs \cup {t}
        BY DEF TypeOK, Of
      <4>2. IsFiniteSet(txs \cup {t})
        BY FS_AddElement DEF FollowInv
      <4>3. QED
        BY <4>1, <4>2, FS_Subset
    <3>2. moved \in Int
      BY <3>1, FS_CardinalityType
    <3>3. i \in Int /\ i = IF D = {} THEN 0 ELSE 1
      OBVIOUS
    <3> HIDE DEF s, D, U, i
    <3>4. QED
      BY <2>2, <3>2, <3>3 DEF SubmissionCounts
  <2>5. QED
    BY <2>3, <2>4
<1>2. StalledBehindGap'
  BY <1>1, SubmittedExact
<1>3. CountsMatch' /\ counts' \in [Apps -> [CountKinds -> Nat]]
  BY <1>1, SubmittedCounts
<1>4. /\ s \in Senders /\ s = t[1] /\ MaxNonce[s] + 1 \in Nat
      /\ from \in 0 .. MaxNonce[s] + 1 /\ run \in from .. MaxNonce[s] + 1
      /\ end \in run .. MaxNonce[s] + 1
  <2>1. s = t[1]
    BY <1>1 DEF Submission
  <2>2. QED
    BY <1>1, <2>1, SubmittedRun
<1>5. /\ reported' = reported \cup {t} /\ txs' = txs \cup {t} /\ t \notin reported
      /\ blocked' \subseteq blocked \cup {t}
      /\ Known' = Known \cup {s} /\ DOMAIN runEnd' = Known \cup {s}
      /\ \A x \in Known : x # s => next'[x] = next[x] /\ runEnd'[x] = runEnd[x]
      /\ s \in Known => next'[s] = next[s]
      /\ next'[s] = from /\ runEnd'[s] = end
      /\ UNCHANGED <<status, chain, overtaken, marked, emitted, blocks, untracked,
                     includedNotSeen>>
  BY <1>1 DEF Submission, Known
<1>6. IsFiniteSet(txs') /\ Cardinality(txs') <= MaxTracked
  <2>1. IsFiniteSet(txs) /\ t \notin txs
    BY <1>5 DEF FollowInv, TypeOK
  <2>2. IsFiniteSet(txs') /\ Cardinality(txs') = Cardinality(txs) + 1
    BY <1>5, <2>1, FS_AddElement
  <2>3. Cardinality(txs) \in Nat
    BY <2>1, FS_CardinalityType
  <2>4. QED
    BY <2>2, <2>3, BoundsAssumption DEF hasRoom
<1>7. \A x \in Known' : next'[x] \in 0 .. MaxNonce[x] + 1
                        /\ runEnd'[x] \in next'[x] .. MaxNonce[x] + 1
  <2> TAKE x \in Known'
  <2>1. CASE x = s
    <3>1. end \in from .. MaxNonce[s] + 1
      BY <1>4
    <3>2. QED
      BY <1>4, <1>5, <2>1, <3>1
  <2>2. CASE x # s
    BY <1>5, <2>2 DEF TypeOK
  <2>3. QED
    BY <2>1, <2>2
<1>8. TypeOK'
  BY <1>3, <1>4, <1>5, <1>6, <1>7 DEF TypeOK
<1>9. NetworkInv'
  BY <1>5 DEF NetworkInv
<1>10. \A u \in Txs : status[u] = "block" /\ u[1] \notin overtaken =>
         /\ u \in reported /\ u[1] \in Known
         /\ u \in txs \/ u[2] < next[u[1]]
  BY DEF FollowInv, IncludedInv
<1>11. IncludedInv'
  <2> SUFFICES ASSUME NEW u \in Txs, status[u] = "block", u[1] \notin overtaken
               PROVE  /\ u \in reported' /\ u[1] \in Known'
                      /\ u \in txs' \/ u[2] < next'[u[1]]
    BY <1>5 DEF IncludedInv
  <2>1. next'[u[1]] = next[u[1]]
    BY <1>5, <1>10
  <2>2. QED
    BY <1>5, <1>10, <2>1
<1>12. FollowInv'
  BY <1>4, <1>5, <1>6, <1>11 DEF FollowInv
<1>13. IncludedIsReleased'
  <2> SUFFICES ASSUME NEW h \in marked, NEW u \in chain[h], u[1] \notin overtaken
               PROVE  u \notin txs'
    BY <1>5 DEF IncludedIsReleased
  <2>1. u \in Txs /\ status[u] = "block"
    BY DEF TypeOK, NetworkInv
  <2>2. u \in reported /\ u \notin txs
    BY <1>10, <2>1 DEF IncludedIsReleased
  <2>3. QED
    BY <1>5, <2>2
<1>14. QED
  BY <1>2, <1>3, <1>8, <1>9, <1>12, <1>13

-----------------------------------------------------------------------------
(* Reports of events and blocks *)

(* A function that equals [k \in K |-> ...] pointwise has its type. *)
LEMMA CountsType ==
  ASSUME NEW f, f = [a \in Apps |-> f[a]],
         \A a \in Apps : f[a] = [k \in CountKinds |-> f[a][k]],
         \A a \in Apps : \A k \in CountKinds : f[a][k] \in Nat
  PROVE  f \in [Apps -> [CountKinds -> Nat]]
<1>1. \A a \in Apps : f[a] \in [CountKinds -> Nat]
  OBVIOUS
<1>2. QED
  BY <1>1

(* MarkEmitted: t leaves the stalled or the pending transactions for the   *)
(* emitted ones, as its flag says.                                         *)
LEMMA MarkEmittedStep ==
  ASSUME TrackerInv, NEW t \in Txs, MarkEmitted(t)
  PROVE  TrackerInv'
<1> DEFINE b == AppOf[t[1]]
           K == IF t \in blocked THEN "Stalled" ELSE "Pending"
           S1 == blocked \ (emitted \cup {t})
           P1 == txs \ (blocked \cup emitted \cup {t})
           Ds == {t} \cap blocked
           Dp == {t} \ blocked
<1> USE DEF TrackerInv
<1>1. /\ t \in txs /\ t \notin emitted /\ emitted' = emitted \cup {t}
      /\ counts' = [counts EXCEPT ![b][K] = @ - 1, ![b]["Emitted"] = @ + 1]
      /\ UNCHANGED <<status, chain, overtaken, reported, marked, txs, blocked,
                     next, runEnd, blocks, untracked, includedNotSeen>>
  BY DEF MarkEmitted, network
<1>2. /\ TypeOK /\ CountsMatch /\ IsFiniteSet(txs) /\ b \in Apps
  BY TxIs, AppOfAssumption DEF FollowInv
<1>3. emitted \subseteq txs /\ blocked \subseteq txs
  BY <1>2 DEF TypeOK
<1>4. IsFiniteSet({t}) /\ Cardinality({t}) = 1 /\ IsFiniteSet({}) /\ Cardinality({}) = 0
  BY FS_Singleton, FS_EmptySet
<1>5. /\ emitted \subseteq txs /\ S1 \subseteq txs /\ P1 \subseteq txs
      /\ Ds \subseteq txs /\ Dp \subseteq txs
  BY <1>1, <1>3
<1>6. /\ IsFiniteSet(emitted) /\ IsFiniteSet(S1) /\ IsFiniteSet(P1)
      /\ IsFiniteSet(Ds) /\ IsFiniteSet(Dp)
  BY <1>2, <1>5, FS_Subset
<1>7. /\ emitted \cap {t} = {} /\ S1 \cap Ds = {} /\ P1 \cap Dp = {}
      /\ blocked \ emitted = S1 \cup Ds
      /\ txs \ (blocked \cup emitted) = P1 \cup Dp
      /\ \A u \in {t} : AppOf[u[1]] = b
      /\ \A u \in Ds : AppOf[u[1]] = b
      /\ \A u \in Dp : AppOf[u[1]] = b
  BY <1>1
<1>8. \/ K = "Stalled" /\ Ds = {t} /\ Dp = {}
      \/ K = "Pending" /\ Ds = {} /\ Dp = {t}
  OBVIOUS
<1> HIDE DEF b, K, S1, P1, Ds, Dp
<1>9. ASSUME NEW a \in Apps
      PROVE  /\ counts'[a] = [k \in CountKinds |-> counts'[a][k]]
             /\ a # b => counts'[a] = counts[a]
             /\ \A k \in CountKinds : k # K /\ k # "Emitted" =>
                  counts'[a][k] = counts[a][k]
             /\ counts'[b][K] = counts[b][K] - 1
             /\ counts'[b]["Emitted"] = counts[b]["Emitted"] + 1
  BY <1>1, <1>2, <1>8 DEF TypeOK, CountKinds
<1>10. ASSUME NEW a \in Apps
       PROVE  /\ counts'[a]["Stalled"] = Cardinality(OfApp(a, S1))
              /\ counts'[a]["Pending"] = Cardinality(OfApp(a, P1))
              /\ counts'[a]["Emitted"] = Cardinality(OfApp(a, emitted \cup {t}))
              /\ counts'[a]["Stalled"] \in Nat /\ counts'[a]["Pending"] \in Nat
              /\ counts'[a]["Emitted"] \in Nat
  <2> DEFINE cE == Cardinality(OfApp(a, emitted))
             cS == Cardinality(OfApp(a, S1))
             cP == Cardinality(OfApp(a, P1))
             dE == Cardinality(OfApp(a, {t}))
             dS == Cardinality(OfApp(a, Ds))
             dP == Cardinality(OfApp(a, Dp))
  <2>1. cE \in Nat /\ dE \in Nat /\ Cardinality(OfApp(a, emitted \cup {t})) = cE + dE
    BY <1>4, <1>6, <1>7, AppPlus
  <2>2. cS \in Nat /\ dS \in Nat /\ Cardinality(OfApp(a, S1 \cup Ds)) = cS + dS
    BY <1>6, <1>7, AppPlus
  <2>3. cP \in Nat /\ dP \in Nat /\ Cardinality(OfApp(a, P1 \cup Dp)) = cP + dP
    BY <1>6, <1>7, AppPlus
  <2>4. /\ counts[a]["Emitted"] = cE
        /\ counts[a]["Stalled"] = cS + dS
        /\ counts[a]["Pending"] = cP + dP
    BY <1>2, <1>7, <2>2, <2>3 DEF CountsMatch
  <2>5. (a = b => dE = 1) /\ (a # b => dE = 0)
    BY <1>4, <1>7, AppAll
  <2>6. (a = b => dS = Cardinality(Ds)) /\ (a # b => dS = 0)
    BY <1>6, <1>7, AppAll
  <2>7. (a = b => dP = Cardinality(Dp)) /\ (a # b => dP = 0)
    BY <1>6, <1>7, AppAll
  <2>8. CASE a # b
    <3>1. counts'[a] = counts[a] /\ dE = 0 /\ dS = 0 /\ dP = 0
      BY <1>9, <2>5, <2>6, <2>7, <2>8
    <3> HIDE DEF cE, cS, cP, dE, dS, dP
    <3>2. /\ counts'[a]["Stalled"] = cS /\ counts'[a]["Pending"] = cP
          /\ counts'[a]["Emitted"] = cE + dE
      BY <2>1, <2>2, <2>3, <2>4, <3>1
    <3>3. cS \in Nat /\ cP \in Nat /\ cE + dE \in Nat
      BY <2>1, <2>2, <2>3
    <3>4. cE + dE = Cardinality(OfApp(a, emitted \cup {t}))
      BY <2>1 DEF cE, dE
    <3>5. QED
      BY <3>2, <3>3, <3>4 DEF cS, cP
  <2>9. CASE a = b
    <3> HIDE DEF cE, cS, cP, dE, dS, dP
    <3>1. dE = 1 /\ counts'[a]["Emitted"] = counts[a]["Emitted"] + 1
      BY <1>9, <2>5, <2>9
    <3>2. CASE K = "Stalled" /\ Ds = {t} /\ Dp = {}
      <4>1. dS = 1 /\ dP = 0
        BY <1>4, <2>6, <2>7, <2>9, <3>2
      <4>2. /\ counts'[a]["Stalled"] = counts[a]["Stalled"] - 1
            /\ counts'[a]["Pending"] = counts[a]["Pending"]
        BY <1>9, <2>9, <3>2 DEF CountKinds
      <4>3. counts'[a]["Stalled"] = cS /\ counts'[a]["Pending"] = cP
        BY <2>2, <2>3, <2>4, <4>1, <4>2
      <4>4. QED
        BY <2>1, <2>2, <2>3, <2>4, <3>1, <4>3 DEF cS, cP, cE, dE
    <3>3. CASE K = "Pending" /\ Ds = {} /\ Dp = {t}
      <4>1. dS = 0 /\ dP = 1
        BY <1>4, <2>6, <2>7, <2>9, <3>3
      <4>2. /\ counts'[a]["Pending"] = counts[a]["Pending"] - 1
            /\ counts'[a]["Stalled"] = counts[a]["Stalled"]
        BY <1>9, <2>9, <3>3 DEF CountKinds
      <4>3. counts'[a]["Stalled"] = cS /\ counts'[a]["Pending"] = cP
        BY <2>2, <2>3, <2>4, <4>1, <4>2
      <4>4. QED
        BY <2>1, <2>2, <2>3, <2>4, <3>1, <4>3 DEF cS, cP, cE, dE
    <3>4. QED
      BY <1>8, <3>2, <3>3
  <2>10. QED
    BY <2>8, <2>9
<1>11. counts' \in [Apps -> [CountKinds -> Nat]]
  <2>1. \A a \in Apps : \A k \in CountKinds : counts'[a][k] \in Nat
    <3> TAKE a \in Apps
    <3>1. counts[a] \in [CountKinds -> Nat]
      BY <1>2 DEF TypeOK
    <3>2. QED
      BY <1>8, <1>9, <1>10, <3>1
  <2>2. counts' = [a \in Apps |-> counts'[a]]
    BY <1>1, <1>2 DEF TypeOK
  <2>3. QED
    BY <1>9, <2>1, <2>2, CountsType
<1>12. TypeOK'
  BY <1>1, <1>2, <1>3, <1>11 DEF TypeOK, Known
<1>13. CountsMatch'
  <2>1. blocked \ (emitted \cup {t}) = S1
    BY DEF S1
  <2>2. txs \ (blocked \cup (emitted \cup {t})) = P1
    BY DEF P1
  <2>3. QED
    BY <1>1, <1>10, <2>1, <2>2 DEF CountsMatch, OfApp
<1>14. NetworkInv'
  BY <1>1 DEF NetworkInv
<1>15. FollowInv'
  BY <1>1 DEF FollowInv, IncludedInv, Known
<1>16. IncludedIsReleased' /\ StalledBehindGap'
  BY <1>1 DEF IncludedIsReleased, StalledBehindGap, RunIsExact, Known, Of
<1>17. QED
  BY <1>12, <1>13, <1>14, <1>15, <1>16

(* What is left of an application when I is taken out. *)
LEMMA AppMinus ==
  ASSUME NEW X, IsFiniteSet(X), NEW T, T \subseteq X, NEW I, NEW a
  PROVE  /\ Cardinality(OfApp(a, T \cap I)) \in Nat
         /\ Cardinality(OfApp(a, T \ I)) \in Nat
         /\ Cardinality(OfApp(a, T)) =
              Cardinality(OfApp(a, T \ I)) + Cardinality(OfApp(a, T \cap I))
<1> DEFINE R == T \ I
           J == T \cap I
<1>1. R \subseteq X /\ J \subseteq X /\ R \cap J = {} /\ T = R \cup J
  OBVIOUS
<1> HIDE DEF R, J
<1>2. IsFiniteSet(R) /\ IsFiniteSet(J)
  BY <1>1, FS_Subset
<1>3. /\ Cardinality(OfApp(a, R)) \in Nat /\ Cardinality(OfApp(a, J)) \in Nat
      /\ Cardinality(OfApp(a, R \cup J)) =
           Cardinality(OfApp(a, R)) + Cardinality(OfApp(a, J))
  BY <1>1, <1>2, AppPlus
<1>4. /\ Cardinality(OfApp(a, R)) \in Nat /\ Cardinality(OfApp(a, J)) \in Nat
      /\ Cardinality(OfApp(a, T)) = Cardinality(OfApp(a, R)) + Cardinality(OfApp(a, J))
  BY <1>1, <1>3
<1>5. QED
  BY <1>4 DEF R, J

(* MarkBlock takes its followed transactions I out of every population. *)
LEMMA MarkBlockCounts ==
  ASSUME TrackerInv, NEW h \in DOMAIN chain, MarkBlock(h)
  PROVE  CountsMatch' /\ counts' \in [Apps -> [CountKinds -> Nat]]
<1> DEFINE I == followed(h)
           N(a, T) == Cardinality(OfApp(a, T \cap I))
<1>1. /\ txs' = txs \ I /\ emitted' = emitted \ I /\ blocked' = blocked \ I
      /\ counts' = [a \in Apps |-> [counts[a] EXCEPT
           !["Emitted"] = @ - N(a, emitted),
           !["Stalled"] = @ - N(a, blocked \ emitted),
           !["Pending"] = @ - N(a, txs \ (blocked \cup emitted)),
           !["Included"] = @ + N(a, txs)]]
  BY DEF MarkBlock
<1>2. /\ TypeOK /\ CountsMatch /\ IsFiniteSet(txs)
  BY DEF TrackerInv, FollowInv
<1> HIDE DEF I
<1>3. ASSUME NEW T, T \subseteq txs, NEW a
      PROVE  /\ N(a, T) \in Nat /\ Cardinality(OfApp(a, T \ I)) \in Nat
             /\ Cardinality(OfApp(a, T)) - N(a, T) = Cardinality(OfApp(a, T \ I))
  <2>1. /\ N(a, T) \in Nat /\ Cardinality(OfApp(a, T \ I)) \in Nat
        /\ Cardinality(OfApp(a, T)) = Cardinality(OfApp(a, T \ I)) + N(a, T)
    BY <1>2, <1>3, AppMinus
  <2>2. QED
    BY <2>1
<1> HIDE DEF N
<1>4. ASSUME NEW a \in Apps
      PROVE  /\ counts'[a] = [k \in CountKinds |-> counts'[a][k]]
             /\ counts'[a]["Emitted"] = counts[a]["Emitted"] - N(a, emitted)
             /\ counts'[a]["Stalled"] = counts[a]["Stalled"] - N(a, blocked \ emitted)
             /\ counts'[a]["Pending"] =
                  counts[a]["Pending"] - N(a, txs \ (blocked \cup emitted))
             /\ counts'[a]["Included"] = counts[a]["Included"] + N(a, txs)
             /\ counts'[a]["Rejected"] = counts[a]["Rejected"]
             /\ counts[a]["Included"] \in Nat /\ counts[a]["Rejected"] \in Nat
  BY <1>1, <1>2 DEF TypeOK, CountKinds
<1>5. ASSUME NEW a \in Apps
      PROVE  /\ counts'[a]["Emitted"] = Cardinality(OfApp(a, emitted'))
             /\ counts'[a]["Stalled"] = Cardinality(OfApp(a, blocked' \ emitted'))
             /\ counts'[a]["Pending"] =
                  Cardinality(OfApp(a, txs' \ (blocked' \cup emitted')))
             /\ counts'[a]["Emitted"] \in Nat /\ counts'[a]["Stalled"] \in Nat
             /\ counts'[a]["Pending"] \in Nat
  <2>1. emitted \subseteq txs /\ blocked \ emitted \subseteq txs
        /\ txs \ (blocked \cup emitted) \subseteq txs
    BY <1>2 DEF TypeOK
  <2>2. /\ blocked' \ emitted' = (blocked \ emitted) \ I
        /\ txs' \ (blocked' \cup emitted') = (txs \ (blocked \cup emitted)) \ I
    BY <1>1
  <2>3. /\ counts[a]["Emitted"] = Cardinality(OfApp(a, emitted))
        /\ counts[a]["Stalled"] = Cardinality(OfApp(a, blocked \ emitted))
        /\ counts[a]["Pending"] = Cardinality(OfApp(a, txs \ (blocked \cup emitted)))
    BY <1>2 DEF CountsMatch
  <2>4. /\ counts'[a]["Emitted"] = Cardinality(OfApp(a, emitted \ I))
        /\ counts'[a]["Emitted"] \in Nat
    <3>1. /\ Cardinality(OfApp(a, emitted \ I)) \in Nat
          /\ Cardinality(OfApp(a, emitted)) - N(a, emitted) =
               Cardinality(OfApp(a, emitted \ I))
      BY <1>3, <2>1
    <3>2. counts'[a]["Emitted"] = counts[a]["Emitted"] - N(a, emitted)
      BY <1>4
    <3>3. QED
      BY <2>3, <3>1, <3>2
  <2>5. /\ counts'[a]["Stalled"] = Cardinality(OfApp(a, (blocked \ emitted) \ I))
        /\ counts'[a]["Stalled"] \in Nat
    <3>1. /\ Cardinality(OfApp(a, (blocked \ emitted) \ I)) \in Nat
          /\ Cardinality(OfApp(a, blocked \ emitted)) - N(a, blocked \ emitted) =
               Cardinality(OfApp(a, (blocked \ emitted) \ I))
      BY <1>3, <2>1
    <3>2. counts'[a]["Stalled"] = counts[a]["Stalled"] - N(a, blocked \ emitted)
      BY <1>4
    <3>3. QED
      BY <2>3, <3>1, <3>2
  <2>6. /\ counts'[a]["Pending"] = Cardinality(OfApp(a, (txs \ (blocked \cup emitted)) \ I))
        /\ counts'[a]["Pending"] \in Nat
    <3>1. /\ Cardinality(OfApp(a, (txs \ (blocked \cup emitted)) \ I)) \in Nat
          /\ Cardinality(OfApp(a, txs \ (blocked \cup emitted))) - N(a, txs \ (blocked \cup emitted)) =
               Cardinality(OfApp(a, (txs \ (blocked \cup emitted)) \ I))
      BY <1>3, <2>1
    <3>2. counts'[a]["Pending"] = counts[a]["Pending"] - N(a, txs \ (blocked \cup emitted))
      BY <1>4
    <3>3. QED
      BY <2>3, <3>1, <3>2
  <2>7. QED
    BY <1>1, <2>2, <2>4, <2>5, <2>6
<1>6. CountsMatch'
  BY <1>5 DEF CountsMatch, OfApp
<1>7. \A a \in Apps : N(a, txs) \in Nat
  BY <1>3
<1>8. \A a \in Apps : \A k \in CountKinds : counts'[a][k] \in Nat
  <2> TAKE a \in Apps
  <2>1. counts'[a]["Included"] \in Nat /\ counts'[a]["Rejected"] \in Nat
    <3>1. N(a, txs) \in Nat /\ counts[a]["Included"] \in Nat
      BY <1>4, <1>7
    <3>2. counts'[a]["Included"] = counts[a]["Included"] + N(a, txs)
      BY <1>4
    <3>3. counts'[a]["Included"] \in Nat
      BY <3>1, <3>2
    <3>4. QED
      BY <1>4, <3>3
  <2>2. QED
    BY <1>5, <2>1 DEF CountKinds
<1>9. counts' = [a \in Apps |-> counts'[a]]
  BY <1>1
<1>10. counts' \in [Apps -> [CountKinds -> Nat]]
  BY <1>4, <1>8, <1>9, CountsType
<1>11. QED
  BY <1>6, <1>10

(* MarkBlock: for a sender that was not overtaken, every included nonce is *)
(* below the end of its run, because the nonce at that end would have been *)
(* included before; so the run ends where it ended.                        *)
LEMMA MarkBlockStep ==
  ASSUME TrackerInv, NEW h \in DOMAIN chain, MarkBlock(h)
  PROVE  TrackerInv'
<1> DEFINE I == followed(h)
<1> USE DEF TrackerInv
<1>1. /\ txs' = txs \ I /\ emitted' = emitted \ I /\ blocked' = blocked \ I
      /\ marked' = marked \cup {h}
      /\ next' = [s \in Known |-> Released(s, I)]
      /\ runEnd' = [s \in Known |-> Max({runEnd[s], Released(s, I)})]
      /\ DOMAIN blocks' = DOMAIN blocks \cup {h}
      /\ includedNotSeen' = includedNotSeen + Cardinality(I \ emitted)
      /\ UNCHANGED <<status, chain, overtaken, reported, untracked>>
  BY DEF MarkBlock, network
<1>2. I = chain[h] \cap txs /\ I \subseteq Txs
  BY DEF followed, TypeOK
<1> HIDE DEF I
<1>3. CountsMatch' /\ counts' \in [Apps -> [CountKinds -> Nat]]
  BY MarkBlockCounts
<1>4. Known' = Known /\ DOMAIN runEnd' = Known
  BY <1>1 DEF Known
<1>5. ASSUME NEW s \in Known
      PROVE  /\ next[s] \in Nat /\ runEnd[s] \in Nat /\ next[s] <= runEnd[s]
             /\ next'[s] = Released(s, I)
             /\ Released(s, I) \in Nat /\ next[s] <= Released(s, I)
             /\ Released(s, I) <= MaxNonce[s] + 1
             /\ \A t \in Of(s, I) : t[2] < Released(s, I)
             /\ \/ Released(s, I) = next[s]
                \/ \E t \in Of(s, I) : Released(s, I) = t[2] + 1
             /\ runEnd'[s] \in {runEnd[s], Released(s, I)}
             /\ runEnd[s] <= runEnd'[s] /\ Released(s, I) <= runEnd'[s]
             /\ MaxNonce[s] \in Nat /\ runEnd[s] <= MaxNonce[s] + 1
  <2>1. s \in Senders /\ MaxNonce[s] \in Nat
    BY Bounds DEF TypeOK
  <2>2. next[s] \in 0 .. MaxNonce[s] + 1 /\ runEnd[s] \in next[s] .. MaxNonce[s] + 1
    BY DEF TypeOK
  <2>3. /\ next[s] \in Nat /\ runEnd[s] \in Nat /\ next[s] <= runEnd[s]
        /\ runEnd[s] <= MaxNonce[s] + 1 /\ MaxNonce[s] + 1 \in Nat
    BY <2>1, <2>2
  <2>4. /\ Released(s, I) \in next[s] .. MaxNonce[s] + 1
        /\ \A t \in Of(s, I) : t[2] < Released(s, I)
        /\ \/ Released(s, I) = next[s]
           \/ \E t \in Of(s, I) : Released(s, I) = t[2] + 1
    BY <1>2, ReleasedIs
  <2>5. /\ Released(s, I) \in Nat /\ next[s] <= Released(s, I)
        /\ Released(s, I) <= MaxNonce[s] + 1
    BY <2>3, <2>4
  <2>6. {runEnd[s], Released(s, I)} \subseteq 0 .. MaxNonce[s] + 1
    BY <2>3, <2>5
  <2>7. /\ Max({runEnd[s], Released(s, I)}) \in {runEnd[s], Released(s, I)}
        /\ \A y \in {runEnd[s], Released(s, I)} : y <= Max({runEnd[s], Released(s, I)})
    BY <2>3, <2>6, MaxIs
  <2>8. next'[s] = Released(s, I) /\ runEnd'[s] = Max({runEnd[s], Released(s, I)})
    BY <1>1
  <2>9. QED
    BY <2>1, <2>3, <2>4, <2>5, <2>7, <2>8
<1>6. TypeOK'
  <2>1. IsFiniteSet(txs) /\ txs' \subseteq txs
    BY <1>1 DEF FollowInv
  <2>2. Cardinality(txs') <= Cardinality(txs) /\ Cardinality(txs) <= MaxTracked
    BY <2>1, FS_Subset DEF TypeOK
  <2>3. Cardinality(txs') \in Nat /\ Cardinality(txs) \in Nat /\ MaxTracked \in Nat
    BY <2>1, FS_Subset, FS_CardinalityType, BoundsAssumption
  <2>4. Cardinality(txs') <= MaxTracked
    BY <2>2, <2>3
  <2>5. Cardinality(I \ emitted) \in Nat
    BY <1>2, <2>1, FS_Subset, FS_CardinalityType
  <2>6. includedNotSeen' \in Nat
    BY <1>1, <2>5 DEF TypeOK
  <2>7. \A s \in Known' : next'[s] \in 0 .. MaxNonce[s] + 1
                          /\ runEnd'[s] \in next'[s] .. MaxNonce[s] + 1
    <3> TAKE s \in Known'
    <3>1. s \in Known
      BY <1>4
    <3>2. /\ next'[s] \in Nat /\ next'[s] <= MaxNonce[s] + 1 /\ MaxNonce[s] \in Nat
          /\ runEnd'[s] \in Nat /\ next'[s] <= runEnd'[s]
          /\ runEnd'[s] <= MaxNonce[s] + 1
      BY <1>5, <3>1
    <3>3. QED
      BY <3>2
  <2>8. marked' \subseteq DOMAIN chain' /\ DOMAIN blocks' = marked'
    BY <1>1 DEF TypeOK
  <2>9. /\ txs' \subseteq reported' /\ emitted' \subseteq txs' /\ blocked' \subseteq txs'
    BY <1>1 DEF TypeOK
  <2>10. QED
    BY <1>1, <1>3, <1>4, <2>4, <2>6, <2>7, <2>8, <2>9 DEF TypeOK
<1>7. NetworkInv'
  BY <1>1 DEF NetworkInv
<1>8. IncludedInv'
  <2> SUFFICES ASSUME NEW u \in Txs, status[u] = "block", u[1] \notin overtaken
               PROVE  /\ u \in reported /\ u[1] \in Known
                      /\ u \in txs' \/ u[2] < next'[u[1]]
    BY <1>1, <1>4 DEF IncludedInv
  <2>1. u \in reported /\ u[1] \in Known /\ (u \in txs \/ u[2] < next[u[1]])
    BY DEF FollowInv, IncludedInv
  <2>2. u[2] \in Nat
    <3>1. u[2] \in 0 .. MaxNonce[u[1]]
      BY TxIs
    <3>2. QED
      BY <3>1
  <2>3. CASE u \in I
    <3>1. u \in Of(u[1], I)
      BY <2>3 DEF Of
    <3>2. QED
      BY <1>5, <2>1, <3>1
  <2>4. CASE u \in txs \ I
    BY <1>1, <2>1, <2>4
  <2>5. CASE u[2] < next[u[1]]
    <3>1. next[u[1]] <= next'[u[1]] /\ next[u[1]] \in Nat /\ next'[u[1]] \in Nat
      BY <1>5, <2>1
    <3>2. QED
      BY <2>1, <2>2, <2>5, <3>1
  <2>6. QED
    BY <2>1, <2>3, <2>4, <2>5
<1>9. FollowInv'
  <2>1. IsFiniteSet(txs')
    BY <1>1, FS_Subset DEF FollowInv
  <2>2. QED
    BY <1>1, <1>4, <1>8, <2>1 DEF FollowInv
<1>10. IncludedIsReleased'
  BY <1>1, <1>2 DEF IncludedIsReleased
<1>11. StalledBehindGap'
  <2> SUFFICES ASSUME NEW s \in Known, s \notin overtaken
               PROVE  RunIsExact(s)'
    BY <1>1, <1>4 DEF StalledBehindGap
  <2>1. /\ <<s, runEnd[s]>> \notin txs
        /\ \A n \in next[s] .. runEnd[s] - 1 : <<s, n>> \in txs
        /\ Of(s, blocked) = {t \in Of(s, txs) : t[2] > runEnd[s]}
    BY DEF StalledBehindGap, RunIsExact
  <2>2. ASSUME NEW t \in Of(s, I)
        PROVE  t[2] < runEnd[s]
    <3>1. t \in I /\ t \in Txs /\ t[1] = s /\ status[t] = "block" /\ t \in txs
      BY <1>2 DEF Of, NetworkInv
    <3>2. t = <<s, t[2]>> /\ t[2] \in 0 .. MaxNonce[s] /\ s \in Senders
      BY <3>1, TxIs
    <3>3. t[2] # runEnd[s]
      BY <2>1, <3>1, <3>2
    <3>4. ASSUME runEnd[s] < t[2]
          PROVE  FALSE
      <4> DEFINE u == <<s, runEnd[s]>>
      <4>1. runEnd[s] \in 0 .. MaxNonce[s]
        BY <1>5, <3>2, <3>4
      <4>2. u \in Txs /\ u[1] = s /\ u[2] = runEnd[s]
        BY <3>2, <4>1, TxIs
      <4> HIDE DEF u
      <4>3. status[u] = "block"
        BY <3>1, <3>4, <4>2 DEF NetworkInv
      <4>4. u \in txs \/ u[2] < next[s]
        BY <4>2, <4>3 DEF FollowInv, IncludedInv
      <4>5. u \notin txs
        BY <2>1 DEF u
      <4>6. QED
        BY <1>5, <4>2, <4>4, <4>5
    <3>5. QED
      BY <1>5, <3>2, <3>3, <3>4
  <2>3. Released(s, I) <= runEnd[s]
    <3>1. CASE Released(s, I) = next[s]
      BY <1>5, <3>1
    <3>2. CASE \E t \in Of(s, I) : Released(s, I) = t[2] + 1
      <4>1. PICK t \in Of(s, I) : Released(s, I) = t[2] + 1
        BY <3>2
      <4>2. t[2] \in Nat
        <5>1. t \in Txs
          BY <1>2 DEF Of
        <5>2. t[2] \in 0 .. MaxNonce[t[1]]
          BY <5>1, TxIs
        <5>3. QED
          BY <5>2
      <4>3. t[2] < runEnd[s] /\ runEnd[s] \in Nat
        BY <1>5, <2>2
      <4>4. QED
        BY <4>1, <4>2, <4>3
    <3>3. QED
      BY <1>5, <3>1, <3>2
  <2>4. runEnd'[s] = runEnd[s]
    BY <1>5, <2>3
  <2>5. <<s, runEnd'[s]>> \notin txs'
    BY <1>1, <2>1, <2>4
  <2>6. \A n \in next'[s] .. runEnd'[s] - 1 : <<s, n>> \in txs'
    <3> TAKE n \in next'[s] .. runEnd'[s] - 1
    <3>1. n \in next[s] .. runEnd[s] - 1 /\ Released(s, I) <= n /\ n \in Nat
      BY <1>5, <2>4
    <3>2. <<s, n>> \in txs
      BY <2>1, <3>1
    <3>3. <<s, n>> \in I => <<s, n>> \in Of(s, I)
      BY DEF Of
    <3>4. <<s, n>> \in I => n < Released(s, I)
      BY <1>5, <3>3
    <3>5. <<s, n>> \notin I
      BY <1>5, <3>1, <3>4
    <3>6. QED
      BY <1>1, <3>2, <3>5
  <2>7. Of(s, blocked') = {t \in Of(s, txs') : t[2] > runEnd'[s]}
    BY <1>1, <2>1, <2>4 DEF Of
  <2>8. QED
    BY <2>5, <2>6, <2>7 DEF RunIsExact
<1>12. QED
  BY <1>3, <1>6, <1>7, <1>9, <1>10, <1>11

-----------------------------------------------------------------------------
(* The steps keep the invariant. *)
LEMMA TrackerStep == TrackerInv /\ [Next]_vars => TrackerInv'
<1> SUFFICES ASSUME TrackerInv, [Next]_vars
             PROVE  TrackerInv'
  OBVIOUS
<1>1. CASE UNCHANGED vars
  <2>1. UNCHANGED <<status, chain, overtaken, reported, marked, txs, emitted,
                    blocked, next, runEnd, counts, blocks, untracked, includedNotSeen>>
    BY <1>1 DEF vars, network, tracker
  <2>2. /\ status' \in [Txs -> {"unsent", "refused", "pool", "event", "block"}]
        /\ reported' \subseteq Txs /\ counts' \in [Apps -> [CountKinds -> Nat]]
        /\ untracked' \in Nat
    BY <2>1 DEF TrackerInv, TypeOK
  <2>3. QED
    BY <2>1, <2>2, StatusStep
<1>2. CASE \E t \in Txs :
             \/ Accept(t) \/ Emit(t)
             \/ OnTransactionRejected(t) \/ OnTransactionSubmitted(t)
             \/ MarkEmitted(t)
  <2>1. PICK t \in Txs :
             \/ Accept(t) \/ Emit(t)
             \/ OnTransactionRejected(t) \/ OnTransactionSubmitted(t)
             \/ MarkEmitted(t)
    BY <1>2
  <2>2. CASE Accept(t)
    BY <2>2, AcceptStep
  <2>3. CASE Emit(t)
    BY <2>3, EmitStep
  <2>4. CASE OnTransactionRejected(t)
    BY <2>4, RejectedStep
  <2>5. CASE OnTransactionSubmitted(t)
    BY <2>5, UntrackedStep, SubmittedStep
  <2>6. CASE MarkEmitted(t)
    BY <2>6, MarkEmittedStep
  <2>7. QED
    BY <2>1, <2>2, <2>3, <2>4, <2>5, <2>6
<1>3. CASE \E B \in SUBSET {t \in Txs : status[t] = "event"} : IncludeBlock(B)
  BY <1>3, IncludeBlockStep
<1>4. CASE \E h \in DOMAIN chain : MarkBlock(h)
  BY <1>4, MarkBlockStep
<1>5. QED
  BY <1>1, <1>2, <1>3, <1>4 DEF Next

(* It holds of the empty tracker. *)
LEMMA TrackerInit == Init => TrackerInv
<1> SUFFICES ASSUME Init
             PROVE  TrackerInv
  OBVIOUS
<1> USE DEF Init
<1>1. IsFiniteSet({}) /\ Cardinality({}) = 0
  BY FS_EmptySet
<1>2. DOMAIN next = {} /\ DOMAIN runEnd = {} /\ DOMAIN blocks = {} /\ DOMAIN chain = {}
  OBVIOUS
<1>3. TypeOK
  <2>1. Len(chain) <= MaxBlocks /\ Cardinality(txs) <= MaxTracked
    BY <1>1, BoundsAssumption
  <2>2. QED
    BY <1>1, <1>2, <2>1 DEF TypeOK, Known
<1>4. NetworkInv
  BY <1>2 DEF NetworkInv
<1>5. FollowInv
  BY <1>1, <1>2 DEF FollowInv, IncludedInv
<1>6. CountsMatch
  <2>1. \A a : OfApp(a, {}) = {} /\ OfApp(a, {} \ {}) = {} /\ OfApp(a, {} \ ({} \cup {})) = {}
    BY DEF OfApp
  <2>2. QED
    BY <1>1, <2>1 DEF CountsMatch, CountKinds
<1>7. IncludedIsReleased /\ StalledBehindGap
  BY <1>2 DEF IncludedIsReleased, StalledBehindGap, Known
<1>8. QED
  BY <1>3, <1>4, <1>5, <1>6, <1>7 DEF TrackerInv

(* The invariant of every reachable state. *)
LEMMA TrackerInvariant == Spec => []TrackerInv
  BY TrackerInit, TrackerStep, PTL DEF Spec

(* The tracker never follows more than MaxTracked transactions, keeps the  *)
(* end of every run within the nonces of its sender, and no counter of an  *)
(* application goes below zero, in whatever order submissions, emissions   *)
(* and blocks are reported (hasRoom, extendRun, releaseNonce, unblock).    *)
THEOREM TypeCorrect == Spec => []TypeOK
<1>1. TrackerInv => TypeOK
  BY DEF TrackerInv
<1>2. QED
  BY <1>1, TrackerInvariant, PTL

(* Emitted, Stalled and Pending are the numbers of the transactions they   *)
(* name, for every application and every interleaving of the observers     *)
(* (trackSubmission, unblock, MarkEmitted, markIncluded).                  *)
THEOREM CountersAreExact == Spec => []CountsMatch
<1>1. TrackerInv => CountsMatch
  BY DEF TrackerInv
<1>2. QED
  BY <1>1, TrackerInvariant, PTL

(* Once its block was reported no record of a transaction is retained, if  *)
(* the sender was followed before blocks included it (markIncluded).       *)
THEOREM RecordsAreReleased == Spec => []IncludedIsReleased
<1>1. TrackerInv => IncludedIsReleased
  BY DEF TrackerInv
<1>2. QED
  BY <1>1, TrackerInvariant, PTL

(* A transaction counts as stalled exactly while a nonce before it is      *)
(* missing, though releaseNonce never extends a run (extendRun, unblock,   *)
(* releaseNonce): blocks include the nonces of a sender in order.          *)
THEOREM RunsAreExact == Spec => []StalledBehindGap
<1>1. TrackerInv => StalledBehindGap
  BY DEF TrackerInv
<1>2. QED
  BY <1>1, TrackerInvariant, PTL

-----------------------------------------------------------------------------
(* What the recorded blocks add up to *)

(* The recorded blocks hold a number for every application. *)
CompositionInv ==
  /\ CompositionAddsUp
  /\ \A h \in DOMAIN blocks : \A a \in Apps : blocks[h][a] \in Nat

Composition(a) == [h \in DOMAIN blocks |-> blocks[h][a]]

(* MarkBlock adds to the composition what it adds to Included: the height  *)
(* was not recorded before.                                                *)
LEMMA MarkBlockComposition ==
  ASSUME TrackerInv, CompositionInv, NEW h \in DOMAIN chain, MarkBlock(h)
  PROVE  CompositionInv'
<1> DEFINE N(a) == Cardinality(OfApp(a, txs \cap followed(h)))
<1>1. /\ h \notin marked
      /\ counts' = [a \in Apps |-> [counts[a] EXCEPT
           !["Emitted"] = @ - Cardinality(OfApp(a, emitted \cap followed(h))),
           !["Stalled"] = @ - Cardinality(OfApp(a, (blocked \ emitted) \cap followed(h))),
           !["Pending"] = @ - Cardinality(OfApp(a, (txs \ (blocked \cup emitted)) \cap followed(h))),
           !["Included"] = @ + N(a)]]
      /\ blocks' = [i \in DOMAIN blocks \cup {h} |->
           IF i # h THEN blocks[i]
           ELSE [a \in Apps \cup {Other} |->
                  IF a = Other THEN Cardinality(chain[h] \ txs) ELSE N(a)]]
  BY DEF MarkBlock, firstAnnouncement
<1>2. TypeOK /\ IsFiniteSet(txs) /\ chain \in Seq(SUBSET Txs)
  BY DEF TrackerInv, FollowInv, NetworkInv
<1>3. \A a \in Apps : N(a) \in Nat
  <2> TAKE a \in Apps
  <2>1. OfApp(a, txs \cap followed(h)) \subseteq txs
    BY DEF OfApp
  <2>2. IsFiniteSet(OfApp(a, txs \cap followed(h)))
    BY <1>2, <2>1, FS_Subset
  <2> QED BY <2>2, FS_CardinalityType
<1>4. DOMAIN blocks = marked /\ IsFiniteSet(marked) /\ h \notin DOMAIN blocks
  <2>1. marked \subseteq 1 .. Len(chain) /\ Len(chain) \in Nat
    BY <1>2 DEF TypeOK
  <2>2. IsFiniteSet(1 .. Len(chain))
    BY <2>1, FS_Interval
  <2> QED BY <1>1, <1>2, <2>1, <2>2, FS_Subset DEF TypeOK
<1> HIDE DEF N
<1>5. /\ DOMAIN blocks' = DOMAIN blocks \cup {h}
      /\ \A i \in DOMAIN blocks : blocks'[i] = blocks[i]
      /\ \A a \in Apps : blocks'[h][a] = N(a)
  BY <1>1, <1>4, NamesAssumption
<1>6. \A i \in DOMAIN blocks' : \A a \in Apps : blocks'[i][a] \in Nat
  BY <1>3, <1>5 DEF CompositionInv
<1>7. ASSUME NEW a \in Apps
      PROVE  counts'[a]["Included"] = SumOf(Composition(a)', DOMAIN blocks')
  <2>1. counts'[a]["Included"] = counts[a]["Included"] + N(a)
    BY <1>1, <1>2 DEF TypeOK, CountKinds
  <2>2. counts[a]["Included"] = SumOf(Composition(a), DOMAIN blocks)
    BY DEF CompositionInv, CompositionAddsUp, Composition
  <2>3. Composition(a)' = [i \in DOMAIN blocks \cup {h} |-> blocks'[i][a]]
    BY <1>5 DEF Composition
  <2>4. \A i \in DOMAIN blocks \cup {h} : Composition(a)'[i] \in Nat
    BY <1>5, <1>6, <2>3
  <2>5. Composition(a)'[h] = N(a)
    BY <1>5, <2>3
  <2>6. \A i \in DOMAIN blocks : Composition(a)'[i] = Composition(a)[i]
    BY <1>5, <2>3 DEF Composition
  <2>7. SumOf(Composition(a)', DOMAIN blocks) = SumOf(Composition(a), DOMAIN blocks)
    BY <1>4, <2>6, SumOfEqual
  <2>8. SumOf(Composition(a)', DOMAIN blocks \cup {h}) = N(a) + SumOf(Composition(a)', DOMAIN blocks)
    BY <1>4, <2>4, <2>5, SumAdd
  <2>9. SumOf(Composition(a)', DOMAIN blocks) \in Nat /\ N(a) \in Nat
    BY <1>3, <1>4, <2>4, SumType
  <2> QED BY <1>5, <2>1, <2>2, <2>7, <2>8, <2>9
<1>8. CompositionAddsUp'
  BY <1>7 DEF CompositionAddsUp, Composition
<1> QED
  BY <1>6, <1>8 DEF CompositionInv

(* No other step changes a recorded block or an Included counter. *)
LEMMA CompositionStep ==
  ASSUME TrackerInv, CompositionInv, [Next]_vars
  PROVE  CompositionInv'
<1> DEFINE Same == /\ blocks' = blocks
                   /\ \A a \in Apps : counts'[a]["Included"] = counts[a]["Included"]
<1>0. counts \in [Apps -> [CountKinds -> Nat]]
  BY DEF TrackerInv, TypeOK
<1>1. Same => CompositionInv'
  BY DEF CompositionInv, CompositionAddsUp
<1>2. ASSUME NEW t \in Txs, Accept(t) \/ Emit(t) PROVE Same
  BY <1>2 DEF Accept, Emit, tracker
<1>3. ASSUME NEW t \in Txs, OnTransactionRejected(t) PROVE Same
  BY <1>0, <1>3 DEF OnTransactionRejected, CountKinds
<1>4. ASSUME NEW t \in Txs, OnTransactionSubmitted(t) PROVE Same
  <2>1. CASE UNCHANGED counts
    BY <1>4, <2>1 DEF OnTransactionSubmitted
  <2>2. CASE trackSubmission(t)
    <3>1. PICK d, e : counts' = [counts EXCEPT ![AppOf[t[1]]]["Stalled"] = d, ![AppOf[t[1]]]["Pending"] = e]
      BY <2>2 DEF trackSubmission
    <3> QED BY <1>0, <1>4, <3>1 DEF OnTransactionSubmitted, CountKinds
  <2> QED BY <1>4, <2>1, <2>2 DEF OnTransactionSubmitted
<1>5. ASSUME NEW t \in Txs, MarkEmitted(t) PROVE Same
  BY <1>0, <1>5 DEF MarkEmitted, CountKinds
<1>6. ASSUME NEW B, IncludeBlock(B) PROVE Same
  BY <1>6 DEF IncludeBlock, tracker
<1>7. CASE UNCHANGED vars
  BY <1>1, <1>7 DEF vars, tracker
<1> HIDE DEF Same
<1> QED
  BY <1>1, <1>2, <1>3, <1>4, <1>5, <1>6, <1>7, MarkBlockComposition DEF Next

(* What the recorded blocks attribute to an application is its Included    *)
(* counter: a height is recorded once, whoever announces it again          *)
(* (MarkBlock, markIncluded, recordBlock).                                 *)
THEOREM BlocksAddUp == Spec => []CompositionAddsUp
<1>1. Init => CompositionInv
  <2> SUFFICES ASSUME Init PROVE CompositionInv
    OBVIOUS
  <2>1. blocks = <<>> /\ DOMAIN blocks = {}
        /\ \A a \in Apps : counts[a]["Included"] = 0
    BY DEF Init, CountKinds
  <2>2. \A a \in Apps : SumOf(Composition(a), DOMAIN blocks) = 0
    BY <2>1, SumEmpty
  <2> QED BY <2>1, <2>2 DEF CompositionInv, CompositionAddsUp, Composition
<1>2. CompositionInv => CompositionAddsUp
  BY DEF CompositionInv
<1>3. QED
  BY <1>1, <1>2, CompositionStep, TrackerInvariant, PTL DEF Spec

-----------------------------------------------------------------------------
(* The emission observer *)

(* A sequence of all elements of a set holds nothing else. *)
LEMMA SeqsOfSet ==
  ASSUME NEW S, IsFiniteSet(S), NEW s \in SetToSeqs(S)
  PROVE  s \in Seq(S) /\ Range(s) = S
<1> DEFINE n == Cardinality(S)
<1>1. n \in Nat
  BY FS_CardinalityType
<1>2. s \in [1 .. n -> S] /\ \A i, j \in 1 .. n : i # j => s[i] # s[j]
  BY DEF SetToSeqs
<1>3. s \in Seq(S)
  BY <1>1, <1>2, SeqDef
<1>4. s \in Injection(1 .. n, S)
  BY <1>2 DEF Injection, IsInjective
<1>5. Cardinality(1 .. n) = Cardinality(S)
  BY <1>1, FS_Interval
<1>6. s \in Surjection(1 .. n, S)
  BY <1>4, <1>5, FS_Injection
<1>7. QED
  BY <1>2, <1>3, <1>6 DEF Surjection, Range

(* Popping the top of a stack. *)
LEMMA PopTop ==
  ASSUME NEW S, NEW s \in Seq(S), s # <<>>
  PROVE  /\ Last(s) \in S /\ Front(s) \in Seq(S)
         /\ Range(s) = Range(Front(s)) \cup {Last(s)}
<1>1. Len(s) \in Nat /\ Len(s) >= 1 /\ DOMAIN s = 1 .. Len(s)
  BY LenProperties, EmptySeq
<1>2. \A i \in 1 .. Len(s) - 1 : s[i] \in S
  BY <1>1
<1>3. /\ Front(s) \in Seq(S)
      /\ Len(Front(s)) = Len(s) - 1
      /\ \A i \in 1 .. Len(s) - 1 : Front(s)[i] = s[i]
  BY <1>1, <1>2, SubSeqProperties DEF Front
<1>4. /\ Range(s) = {s[i] : i \in 1 .. Len(s)}
      /\ Range(Front(s)) = {Front(s)[i] : i \in 1 .. Len(s) - 1}
  BY <1>3, RangeEquality
<1>5. 1 .. Len(s) = (1 .. Len(s) - 1) \cup {Len(s)}
  BY <1>1
<1>6. Range(Front(s)) = {s[i] : i \in 1 .. Len(s) - 1}
  BY <1>3, <1>4
<1>7. {s[i] : i \in 1 .. Len(s)} = {s[i] : i \in 1 .. Len(s) - 1} \cup {s[Len(s)]}
  BY <1>5
<1>8. Last(s) = s[Len(s)] /\ s[Len(s)] \in S
  BY <1>1 DEF Last
<1>9. QED
  BY <1>3, <1>4, <1>6, <1>7, <1>8

-----------------------------------------------------------------------------
(* Parents are created before their children and in an epoch that was      *)
(* reached; a stack is there only during a walk; an event that was read is *)
(* visited, which is why it is not read again.                             *)
WalkInv ==
  /\ \A e \in Created : parents[e] \subseteq Created /\ epochOf[e] <= epoch
  /\ pc # "walk" => pending = <<>>
  /\ \A e \in Events : reads[e] > 0 => e \in visited

EmissionInv == EmissionTypeOK /\ WalkInv /\ ReadOnce /\ WalkIsComplete

(* The invariant holds initially. *)
LEMMA EmissionInvInit == EmissionInit => EmissionInv
<1> SUFFICES ASSUME EmissionInit PROVE EmissionInv
  OBVIOUS
<1> USE EmissionAssumption DEF EmissionInit, Created, Events, NoClient
<1>1. EmissionTypeOK
  BY DEF EmissionTypeOK
<1>2. WalkInv /\ ReadOnce /\ WalkIsComplete
  BY DEF WalkInv, ReadOnce, WalkIsComplete, ParentsAreFollowed
<1>3. QED
  BY <1>1, <1>2 DEF EmissionInv

(* The events created so far. *)
LEMMA CreatedIs ==
  ASSUME EmissionTypeOK
  PROVE  Len(parents) \in Nat /\ Created = 1 .. Len(parents) /\ Created \subseteq Events
  BY EmissionAssumption DEF EmissionTypeOK, Created, Events

(* A new event has not been read, and nobody is its child. *)
LEMMA CreateEventStep == ASSUME EmissionInv, CreateEvent PROVE EmissionInv'
<1> USE EmissionAssumption DEF EmissionInv
<1>1. PICK P \in SUBSET {e \in Created : OfCurrentEpoch(e)} : parents' = Append(parents, P)
  BY DEF CreateEvent
<1>2. /\ Len(parents) < MaxEvents /\ epochOf' = Append(epochOf, epoch)
      /\ UNCHANGED <<epoch, client, polled, pc, pending, visited, reads, failures>>
  BY DEF CreateEvent
<1>a. /\ Len(parents) \in Nat /\ Created = 1 .. Len(parents) /\ Created \subseteq Events
      /\ MaxEvents \in Nat
  BY CreatedIs
<1> DEFINE n == Len(parents) + 1
<1>3. /\ parents' \in Seq(SUBSET Events) /\ Len(parents') = n
      /\ epochOf' \in Seq(1 .. MaxEpochs) /\ Len(epochOf') = n
      /\ \A e \in Created : parents'[e] = parents[e] /\ epochOf'[e] = epochOf[e]
      /\ parents'[n] = P /\ epochOf'[n] = epoch
  <2>1. P \in SUBSET Events /\ epoch \in 1 .. MaxEpochs
    BY <1>a DEF EmissionTypeOK
  <2>2. parents \in Seq(SUBSET Events) /\ epochOf \in Seq(1 .. MaxEpochs)
        /\ Len(epochOf) = Len(parents)
    BY DEF EmissionTypeOK
  <2>3. QED
    BY <1>1, <1>2, <1>a, <2>1, <2>2, AppendProperties
<1>4. Created' = Created \cup {n} /\ n \in Events /\ n \notin Created
  BY <1>2, <1>3, <1>a DEF Created, Events
<1>5. EmissionTypeOK'
  <2>1. pending' \in Seq(Created')
    BY <1>2, <1>4, SeqMonotonic DEF EmissionTypeOK
  <2>2. client' \in 0 .. Len(parents') \cup {NoClient}
    BY <1>2, <1>3, <1>a DEF EmissionTypeOK, NoClient
  <2>3. Len(parents') <= MaxEvents
    BY <1>2, <1>3, <1>a
  <2>4. QED
    BY <1>2, <1>3, <1>4, <2>1, <2>2, <2>3 DEF EmissionTypeOK
<1>6. WalkInv'
  <2>1. ASSUME NEW e \in Created' PROVE parents'[e] \subseteq Created' /\ epochOf'[e] <= epoch'
    <3>1. CASE e \in Created
      BY <1>2, <1>3, <1>4, <3>1 DEF WalkInv
    <3>2. CASE e = n
      <4>1. epoch <= epoch
        BY DEF EmissionTypeOK
      <4>2. QED
        BY <1>2, <1>3, <1>4, <3>2, <4>1
    <3>3. QED
      BY <1>4, <3>1, <3>2
  <2>2. QED
    BY <1>2, <2>1 DEF WalkInv
<1>7. ReadOnce'
  BY <1>2 DEF ReadOnce
<1>8. WalkIsComplete'
  <2> SUFFICES ASSUME failures' = 0, NEW e \in Created', reads'[e] > 0, OfCurrentEpoch(e)',
                      pc' # "stopped"
               PROVE parents'[e] \subseteq visited' \cup Range(pending')
    BY DEF WalkIsComplete, ParentsAreFollowed
  <2>1. e \in Created
    BY <1>2, <1>4, CreatedIs DEF WalkInv, EmissionTypeOK
  <2>2. QED
    BY <1>2, <1>3, <2>1 DEF WalkIsComplete, ParentsAreFollowed, OfCurrentEpoch
<1>9. QED
  BY <1>5, <1>6, <1>7, <1>8

(* No event is of the new epoch yet. *)
LEMMA SealEpochStep == ASSUME EmissionInv, SealEpoch PROVE EmissionInv'
<1> USE EmissionAssumption DEF EmissionInv
<1>1. /\ epoch < MaxEpochs /\ epoch' = epoch + 1
      /\ UNCHANGED <<parents, epochOf, client, polled, pc, pending, visited,
                     reads, failures, Created>>
  BY DEF SealEpoch, Created
<1>2. epoch' \in 1 .. MaxEpochs /\ epoch \in Nat
  BY <1>1 DEF EmissionTypeOK
<1>3. \A e \in Created : epochOf[e] \in Nat /\ epochOf[e] <= epoch
  BY DEF WalkInv, EmissionTypeOK, Created
<1>4. EmissionTypeOK'
  BY <1>1, <1>2 DEF EmissionTypeOK
<1>5. WalkInv'
  BY <1>1, <1>2, <1>3 DEF WalkInv
<1>6. ReadOnce'
  BY <1>1 DEF ReadOnce
<1>7. \A e \in Created : ~OfCurrentEpoch(e)'
  BY <1>1, <1>2, <1>3 DEF OfCurrentEpoch
<1>8. WalkIsComplete'
  BY <1>1, <1>7 DEF WalkIsComplete, ParentsAreFollowed
<1>9. QED
  BY <1>4, <1>5, <1>6, <1>8

(* A connection is made, catches up, or is told the epoch: nothing is      *)
(* walked.                                                                 *)
LEMMA ConnectionStep ==
  ASSUME EmissionInv,
         \/ Sync \/ dial
         \/ currentEpoch /\ ~pollFails
         \/ walkEnds
  PROVE  EmissionInv'
<1> USE EmissionAssumption DEF EmissionInv
<1>1. UNCHANGED <<dag, pending, visited, reads, failures, Created>>
  BY DEF Sync, dial, currentEpoch, walkEnds, dag, Created
<1>a. Len(parents) \in Nat /\ Len(parents) <= MaxEvents /\ MaxEvents \in Nat
  BY CreatedIs DEF EmissionTypeOK
<1>2. polled' \in 0 .. MaxEpochs
  BY DEF Sync, dial, currentEpoch, walkEnds, EmissionTypeOK
<1>3. /\ client' \in 0 .. Len(parents) \cup {NoClient}
      /\ pc' \in IF client' = NoClient THEN {"tick", "stopped"} ELSE {"tick", "heads", "walk"}
      /\ pc' = "stopped" <=> pc = "stopped"
      /\ pc' # "walk" => pending = <<>>
  <2>1. CASE Sync
    BY <1>a, <2>1 DEF Sync, EmissionTypeOK, NoClient, WalkInv
  <2>2. CASE dial
    BY <1>a, <2>2 DEF dial, EmissionTypeOK, NoClient, WalkInv
  <2>3. CASE currentEpoch /\ ~pollFails
    BY <1>a, <2>3 DEF currentEpoch, EmissionTypeOK, NoClient, WalkInv
  <2>4. CASE walkEnds
    BY <1>a, <2>4 DEF walkEnds, EmissionTypeOK, NoClient, WalkInv
  <2>5. QED
    BY <2>1, <2>2, <2>3, <2>4
<1>4. EmissionTypeOK'
  BY <1>1, <1>2, <1>3 DEF EmissionTypeOK, dag
<1>5. WalkInv'
  BY <1>1, <1>3 DEF WalkInv, dag
<1>6. ReadOnce'
  BY <1>1 DEF ReadOnce
<1>7. WalkIsComplete'
  BY <1>1, <1>3 DEF WalkIsComplete, ParentsAreFollowed, OfCurrentEpoch, dag
<1>8. QED
  BY <1>4, <1>5, <1>6, <1>7

(* A call fails: the stack is forgotten, and the failure counted. *)
LEMMA PollFailsStep ==
  ASSUME EmissionInv, pollFails, visited \subseteq visited', visited' \subseteq Created
  PROVE  EmissionInv'
<1> USE EmissionAssumption DEF EmissionInv
<1>1. /\ failures' = failures + 1 /\ failures < MaxFailures
      /\ pc' = "tick" /\ pending' = <<>> /\ client' = NoClient
      /\ UNCHANGED <<dag, polled, reads, Created>>
  BY DEF pollFails, dag, Created
<1>2. failures' \in 0 .. MaxFailures /\ failures' # 0
  BY <1>1 DEF EmissionTypeOK
<1>3. EmissionTypeOK'
  BY <1>1, <1>2 DEF EmissionTypeOK, dag
<1>4. WalkInv'
  BY <1>1 DEF WalkInv, dag
<1>5. ReadOnce' /\ WalkIsComplete'
  BY <1>1, <1>2 DEF ReadOnce, WalkIsComplete
<1>6. QED
  BY <1>3, <1>4, <1>5

(* The context ends. *)
LEMMA CancelStep == ASSUME EmissionInv, EmissionCancel PROVE EmissionInv'
<1> USE DEF EmissionInv
<1>1. /\ pc' = "stopped" /\ pending' = <<>> /\ client' = NoClient
      /\ UNCHANGED <<dag, polled, visited, reads, failures, Created>>
  BY DEF EmissionCancel, dag, Created
<1>2. EmissionTypeOK'
  BY <1>1 DEF EmissionTypeOK, dag
<1>3. WalkInv' /\ ReadOnce'
  BY <1>1 DEF WalkInv, ReadOnce, dag
<1>4. WalkIsComplete'
  BY <1>1 DEF WalkIsComplete, ParentsAreFollowed
<1>5. QED
  BY <1>2, <1>3, <1>4

(* The heads are put on the empty stack. *)
LEMMA GetHeadsStep == ASSUME EmissionInv, getHeads PROVE EmissionInv'
<1> USE EmissionAssumption DEF EmissionInv
<1>1. CASE pollFails /\ UNCHANGED visited
  BY <1>1, PollFailsStep DEF EmissionTypeOK
<1>2. CASE /\ pending' \in SetToSeqs(Heads(polled, client)) /\ pc' = "walk"
           /\ UNCHANGED <<dag, client, polled, visited, reads, failures>>
  <2>1. pc = "heads" /\ pending = <<>> /\ client \in 0 .. Len(parents)
    BY DEF getHeads, EmissionTypeOK, WalkInv
  <2>2. Created' = Created /\ Created = 1 .. Len(parents) /\ Len(parents) \in Nat
    BY <1>2, CreatedIs DEF Created, dag
  <2>3. Heads(polled, client) \subseteq Created
    BY <2>1, <2>2 DEF Heads
  <2>4. IsFiniteSet(Heads(polled, client))
    <3>1. IsFiniteSet(1 .. Len(parents))
      BY <2>2, FS_Interval
    <3>2. QED
      BY <2>2, <2>3, <3>1, FS_Subset
  <2>5. pending' \in Seq(Heads(polled, client))
    BY <1>2, <2>4, SeqsOfSet
  <2>6. pending' \in Seq(Created')
    BY <2>2, <2>3, <2>5, SeqMonotonic
  <2>7. client # NoClient
    BY <2>1 DEF EmissionTypeOK
  <2>8. EmissionTypeOK'
    BY <1>2, <2>2, <2>6, <2>7 DEF EmissionTypeOK, dag
  <2>9. WalkInv' /\ ReadOnce'
    BY <1>2, <2>2 DEF WalkInv, ReadOnce, dag
  <2>10. Range(pending) = {}
    BY <2>1 DEF Range
  <2>11. WalkIsComplete'
    BY <1>2, <2>1, <2>2, <2>10 DEF WalkIsComplete, ParentsAreFollowed, OfCurrentEpoch, dag
  <2>12. QED
    BY <2>8, <2>9, <2>11
<1>3. QED
  BY <1>1, <1>2 DEF getHeads

(* An event is popped. If it is read, its parents are put on the stack; in *)
(* every case it is visited, so what was on the stack is still followed.   *)
LEMMA WalkStep == ASSUME EmissionInv, walk PROVE EmissionInv'
<1> USE EmissionAssumption DEF EmissionInv
<1> DEFINE e == Last(pending)
           rest == Front(pending)
<1>1. /\ pc = "walk" /\ pending # <<>> /\ visited' = visited \cup {e}
      /\ pending \in Seq(Created)
  BY DEF walk, EmissionTypeOK
<1>2. e \in Created /\ rest \in Seq(Created) /\ Range(pending) = Range(rest) \cup {e}
  BY <1>1, PopTop
<1>a. \/ pending' = rest /\ UNCHANGED <<dag, client, polled, pc, reads, failures>>
      \/ /\ ~alreadyVisited(e) /\ reads' = [reads EXCEPT ![e] = @ + 1]
         /\ \E more \in SetToSeqs(ancestors(e)) : pending' = rest \o more
         /\ UNCHANGED <<dag, client, polled, pc, failures>>
      \/ pollFails
  BY DEF walk
<1> HIDE DEF e, rest
<1>3. /\ Created \subseteq Events /\ Created = 1 .. Len(parents) /\ Len(parents) \in Nat
      /\ visited' \subseteq Created
  BY <1>1, <1>2, CreatedIs DEF EmissionTypeOK
<1>4. CASE pollFails
  BY <1>1, <1>3, <1>4, PollFailsStep
<1>5. CASE pending' = rest /\ UNCHANGED <<dag, client, polled, pc, reads, failures>>
  <2>1. Created' = Created
    BY <1>5 DEF Created, dag
  <2>2. EmissionTypeOK'
    BY <1>2, <1>3, <1>5, <2>1 DEF EmissionTypeOK, dag
  <2>3. WalkInv' /\ ReadOnce'
    BY <1>1, <1>5, <2>1 DEF WalkInv, ReadOnce, dag
  <2>4. visited \cup Range(pending) \subseteq visited' \cup Range(pending')
    BY <1>1, <1>2, <1>5
  <2>5. WalkIsComplete'
    BY <1>5, <2>1, <2>4 DEF WalkIsComplete, ParentsAreFollowed, OfCurrentEpoch, dag
  <2>6. QED
    BY <2>2, <2>3, <2>5
<1>6. CASE /\ ~alreadyVisited(e) /\ reads' = [reads EXCEPT ![e] = @ + 1]
           /\ \E more \in SetToSeqs(ancestors(e)) : pending' = rest \o more
           /\ UNCHANGED <<dag, client, polled, pc, failures>>
  <2>0. PICK more \in SetToSeqs(ancestors(e)) : pending' = rest \o more
    BY <1>6
  <2>1. Created' = Created /\ parents' = parents
    BY <1>6 DEF Created, dag
  <2>2. parents[e] \subseteq Created
    BY <1>2 DEF WalkInv
  <2>3. IsFiniteSet(parents[e])
    <3>1. IsFiniteSet(1 .. Len(parents))
      BY <1>3, FS_Interval
    <3>2. QED
      BY <1>3, <2>2, <3>1, FS_Subset
  <2>4. more \in Seq(parents[e]) /\ Range(more) = parents[e]
    BY <2>0, <2>3, SeqsOfSet DEF ancestors
  <2>5. more \in Seq(Created)
    BY <2>2, <2>4, SeqMonotonic
  <2>6. pending' \in Seq(Created) /\ Range(pending') = Range(rest) \cup parents[e]
    BY <1>2, <2>0, <2>4, <2>5, ConcatProperties, RangeConcatenation
  <2>7. reads[e] = 0
    <3>1. e \in Events /\ e \notin visited /\ reads[e] \in Nat
      BY <1>2, <1>3, <1>6 DEF alreadyVisited, EmissionTypeOK
    <3>2. QED
      BY <3>1 DEF WalkInv
  <2>8. /\ reads' \in [Events -> Nat] /\ reads'[e] = 1
        /\ \A f \in Events \ {e} : reads'[f] = reads[f]
    <3>1. reads \in [Events -> Nat] /\ e \in Events
      BY <1>2, <1>3 DEF EmissionTypeOK
    <3>2. reads' = [reads EXCEPT ![e] = reads[e] + 1]
      BY <1>6
    <3>3. QED
      BY <2>7, <3>1, <3>2
  <2>9. EmissionTypeOK'
    BY <1>3, <1>6, <2>1, <2>6, <2>8 DEF EmissionTypeOK, dag
  <2>10. WalkInv'
    BY <1>1, <1>6, <2>1, <2>8 DEF WalkInv, dag
  <2>11. ReadOnce'
    BY <2>8 DEF ReadOnce
  <2>12. visited \cup Range(pending) \cup parents[e] \subseteq visited' \cup Range(pending')
    BY <1>1, <1>2, <2>6
  <2>13. WalkIsComplete'
    <3> SUFFICES ASSUME failures' = 0, NEW f \in Created', reads'[f] > 0, OfCurrentEpoch(f)',
                        pc' # "stopped"
                 PROVE parents'[f] \subseteq visited' \cup Range(pending')
      BY DEF WalkIsComplete, ParentsAreFollowed
    <3>1. CASE f = e
      BY <2>1, <2>12, <3>1
    <3>2. CASE f # e
      <4>1. reads[f] > 0 /\ f \in Created
        BY <1>3, <2>1, <2>8, <3>2
      <4>2. parents[f] \subseteq visited \cup Range(pending)
        BY <1>6, <4>1 DEF WalkIsComplete, ParentsAreFollowed, OfCurrentEpoch, dag, Created
      <4>3. QED
        BY <2>1, <2>12, <4>2
    <3>3. QED
      BY <3>1, <3>2
  <2>14. QED
    BY <2>9, <2>10, <2>11, <2>13
<1>7. QED
  BY <1>a, <1>4, <1>5, <1>6

(* Every step keeps the invariant. *)
LEMMA EmissionInvStep == EmissionInv /\ [EmissionNext]_emissionVars => EmissionInv'
<1> SUFFICES ASSUME EmissionInv, [EmissionNext]_emissionVars PROVE EmissionInv'
  OBVIOUS
<1>1. CASE currentEpoch
  <2>1. CASE pollFails
    <3>1. visited' = visited
      BY <1>1 DEF currentEpoch
    <3>2. QED
      BY <2>1, <3>1, PollFailsStep DEF EmissionInv, EmissionTypeOK
  <2>2. QED
    BY <1>1, <2>1, ConnectionStep
<1>2. CASE UNCHANGED emissionVars
  BY <1>2 DEF emissionVars, dag, EmissionInv, EmissionTypeOK, WalkInv, ReadOnce, WalkIsComplete,
              ParentsAreFollowed, OfCurrentEpoch, Created
<1>3. QED
  BY <1>1, <1>2, CreateEventStep, SealEpochStep, ConnectionStep, GetHeadsStep, WalkStep,
     CancelStep DEF EmissionNext

(* No event of the DAG is read twice, so that no emission is reported      *)
(* twice, however the DAG grows during a walk and however often the        *)
(* connection is lost.                                                     *)
THEOREM EventsAreReadOnce == EmissionSpec => []ReadOnce
<1>1. EmissionInv => ReadOnce
  BY DEF EmissionInv
<1>2. QED
  BY <1>1, EmissionInvInit, EmissionInvStep, PTL DEF EmissionSpec

(* As long as no call failed, the parents of every event that was read are *)
(* visited or on the stack: the walk may stop at visited events without    *)
(* leaving an event of the epoch behind.                                   *)
THEOREM WalkLeavesNothing == EmissionSpec => []WalkIsComplete
<1>1. EmissionInv => WalkIsComplete
  BY DEF EmissionInv
<1>2. QED
  BY <1>1, EmissionInvInit, EmissionInvStep, PTL DEF EmissionSpec

-----------------------------------------------------------------------------
(* The inclusion observer *)

Settled == marks \cup lost

LogReaders ==
  /\ sending \in [Nodes -> Heights \cup {0}]
  /\ \A n \in Nodes : sending[n] # 0 => sending[n] \in seen \ Settled
  /\ \A n, k \in Nodes : sending[n] # 0 /\ sending[n] = sending[k] => n = k

Queue ==
  /\ queue \in Seq(Heights)
  /\ \A i \in 1 .. Len(queue) : queue[i] \in seen \ Settled
  /\ \A i, j \in 1 .. Len(queue) : queue[i] = queue[j] => i = j
  /\ \A i \in 1 .. Len(queue), n \in Nodes : sending[n] # queue[i]

Reading ==
  /\ reading \in Heights \cup {0}
  /\ reading # 0 => running /\ reading \in seen \ Settled
  /\ reading # 0 => \A n \in Nodes : sending[n] # reading
  /\ reading # 0 => \A i \in 1 .. Len(queue) : queue[i] # reading

(* A block that was announced is settled, or it is held by exactly one of  *)
(* a log reader, the queue and run: so whoever settles it is the first.    *)
FeedInv ==
  /\ seen \subseteq Heights /\ Settled \subseteq seen
  /\ running \in BOOLEAN
  /\ LogReaders /\ Queue /\ Reading

(* The invariant holds initially. *)
LEMMA FeedInvInit == InclusionInit => FeedInv
  BY HeightsAssumption
  DEF InclusionInit, FeedInv, Settled, LogReaders, Queue, Reading

(* OnBlock announces a height that no one holds yet. *)
LEMMA OnBlockStep ==
  ASSUME FeedInv, NEW n \in Nodes, NEW h \in Heights, OnBlock(n, h)
  PROVE  FeedInv' /\ Feed!Announce(h)
<1>1. h # 0
  BY HeightsAssumption
<1>2. /\ h \notin seen /\ seen' = seen \cup {h}
      /\ sending[n] = 0 /\ sending' = [sending EXCEPT ![n] = h]
      /\ UNCHANGED <<queue, missed, lost, connected, reading, attempt, marks,
                     ctx, running>>
  BY DEF OnBlock, unseen
<1>3. LogReaders'
  BY <1>1, <1>2 DEF FeedInv, LogReaders, Settled
<1>4. Queue'
  BY <1>1, <1>2 DEF FeedInv, LogReaders, Queue, Settled
<1>5. Reading'
  BY <1>1, <1>2 DEF FeedInv, LogReaders, Reading, Settled
<1>6. QED
  BY <1>2, <1>3, <1>4, <1>5 DEF FeedInv, Settled, Feed!Announce

(* OnBlock passes its height on to the queue, or settles it as missed. *)
LEMMA OnBlockSendStep ==
  ASSUME FeedInv, NEW n \in Nodes, OnBlockSend(n)
  PROVE  /\ FeedInv'
         /\ (\E h \in Heights : Feed!Miss(h)) \/ UNCHANGED Feed!vars
<1> DEFINE h == sending[n]
<1>1. /\ h \in Heights /\ h # 0 /\ h \in seen \ Settled
      /\ sending' = [sending EXCEPT ![n] = 0]
      /\ UNCHANGED <<seen, connected, reading, attempt, marks, ctx, running>>
  BY DEF OnBlockSend, FeedInv, LogReaders
<1>a. \A i \in 1 .. Len(queue) : queue[i] # 0
  BY HeightsAssumption DEF FeedInv, Queue
<1>2. CASE queue' = Append(queue, h) /\ UNCHANGED <<missed, lost>>
  <2>1. LogReaders'
    BY <1>1, <1>2 DEF FeedInv, LogReaders, Settled
  <2>2. /\ queue' \in Seq(Heights) /\ Len(queue') = Len(queue) + 1
        /\ queue'[Len(queue) + 1] = h
        /\ \A i \in 1 .. Len(queue) : queue'[i] = queue[i]
    BY <1>1, <1>2 DEF FeedInv, Queue
  <2>3. Queue'
    BY <1>1, <1>a, <1>2, <2>2 DEF FeedInv, LogReaders, Queue, Settled
  <2>4. Reading'
    BY <1>1, <1>2, <2>2 DEF FeedInv, LogReaders, Queue, Reading, Settled
  <2>5. QED
    BY <1>1, <1>2, <2>1, <2>3, <2>4 DEF FeedInv, Settled, Feed!vars
<1>3. CASE GiveUp(h) /\ UNCHANGED queue
  <2>1. lost' = lost \cup {h}
    BY <1>3 DEF GiveUp
  <2>2. LogReaders'
    BY <1>1, <1>3, <2>1 DEF FeedInv, LogReaders, Settled
  <2>3. Queue'
    BY <1>1, <1>a, <1>3, <2>1 DEF FeedInv, LogReaders, Queue, Settled
  <2>4. Reading'
    BY <1>1, <1>3, <2>1 DEF FeedInv, LogReaders, Reading, Settled
  <2>5. Feed!Miss(h)
    BY <1>1, <1>3, <2>1 DEF Feed!Miss, Feed!Unsettled, Settled
  <2>6. QED
    BY <1>1, <2>1, <2>2, <2>3, <2>4, <2>5 DEF FeedInv, Settled
<1>4. QED
  BY <1>2, <1>3 DEF OnBlockSend

(* run takes the head of the queue, or settles it as missed. *)
LEMMA ReceiveStep ==
  ASSUME FeedInv, Receive
  PROVE  /\ FeedInv'
         /\ (\E h \in Heights : Feed!Miss(h)) \/ UNCHANGED Feed!vars
<1> DEFINE h == Head(queue)
<1>1. /\ queue # <<>> /\ queue' = Tail(queue) /\ reading = 0 /\ running
      /\ UNCHANGED <<seen, sending, attempt, marks, ctx, running>>
  BY DEF Receive
<1>2. /\ h \in Heights /\ h = queue[1] /\ 1 \in 1 .. Len(queue)
      /\ queue' \in Seq(Heights) /\ Len(queue') = Len(queue) - 1
      /\ \A i \in 1 .. Len(queue') :
           i + 1 \in 1 .. Len(queue) /\ queue'[i] = queue[i + 1] /\ i + 1 # 1
  BY <1>1 DEF FeedInv, Queue
<1>3. /\ h \in seen \ Settled /\ h # 0
      /\ \A n \in Nodes : sending[n] # h
      /\ \A i \in 1 .. Len(queue') : queue'[i] # h
  BY <1>2, HeightsAssumption DEF FeedInv, Queue
<1>4. CASE reading' = h /\ UNCHANGED <<missed, lost>>
  <2>1. LogReaders'
    BY <1>1, <1>4 DEF FeedInv, LogReaders, Settled
  <2>2. Queue'
    BY <1>1, <1>2, <1>4 DEF FeedInv, Queue, Settled
  <2>3. Reading'
    BY <1>1, <1>2, <1>3, <1>4 DEF FeedInv, Reading, Settled
  <2>4. QED
    BY <1>1, <1>4, <2>1, <2>2, <2>3 DEF FeedInv, Settled, Feed!vars
<1>5. CASE GiveUp(h) /\ UNCHANGED <<connected, reading>>
  <2>1. lost' = lost \cup {h}
    BY <1>5 DEF GiveUp
  <2>2. LogReaders'
    BY <1>1, <1>3, <2>1 DEF FeedInv, LogReaders, Settled
  <2>3. Queue'
    BY <1>1, <1>2, <1>3, <2>1 DEF FeedInv, Queue, Settled
  <2>4. Reading'
    BY <1>1, <1>5 DEF FeedInv, Reading
  <2>5. Feed!Miss(h)
    BY <1>1, <1>3, <2>1 DEF Feed!Miss, Feed!Unsettled, Settled
  <2>6. QED
    BY <1>1, <1>2, <1>3, <2>1, <2>2, <2>3, <2>4, <2>5 DEF FeedInv, Settled
<1>6. QED
  BY <1>4, <1>5 DEF Receive

(* run settles the block it reads, as reported or as missed, or goes on    *)
(* with the next attempt.                                                  *)
LEMMA ReadStep ==
  ASSUME FeedInv, ReadSucceeds \/ ReadFails
  PROVE  /\ FeedInv'
         /\ \/ \E h \in Heights : Feed!Mark(h) \/ Feed!Miss(h)
            \/ UNCHANGED Feed!vars
<1>1. /\ reading # 0 /\ reading \in Heights /\ reading \in seen \ Settled
      /\ running = TRUE /\ UNCHANGED <<seen, sending, queue, ctx, running>>
  BY DEF ReadSucceeds, ReadFails, FeedInv, Reading
<1>2. CASE reading' = 0 /\ Settled' = Settled \cup {reading}
  <2>1. LogReaders'
    BY <1>1, <1>2 DEF FeedInv, LogReaders, Reading
  <2>2. Queue'
    BY <1>1, <1>2 DEF FeedInv, Queue, Reading
  <2>3. Reading'
    BY <1>2 DEF Reading
  <2>4. QED
    <3>1. CASE ReadSucceeds
      BY <1>1, <1>2, <2>1, <2>2, <2>3, <3>1
      DEF ReadSucceeds, FeedInv, Settled, Feed!Mark, Feed!Unsettled
    <3>2. CASE ReadFails
      <4>1. lost' = lost \cup {reading} /\ marks' = marks
        BY <1>1, <1>2, <3>2 DEF ReadFails, GiveUp
      <4>2. QED
        BY <1>1, <1>2, <2>1, <2>2, <2>3, <4>1
        DEF FeedInv, Settled, Feed!Miss, Feed!Unsettled
    <3>3. QED
      BY <3>1, <3>2
<1>3. CASE UNCHANGED <<reading, marks, lost>>
  BY <1>1, <1>3
  DEF FeedInv, LogReaders, Queue, Reading, Settled, Feed!vars
<1>4. QED
  BY <1>2, <1>3 DEF ReadSucceeds, ReadFails, GiveUp, Settled

(* Every step keeps the invariant and is a step of BlockFeed. *)
LEMMA FeedStep ==
  ASSUME FeedInv, [InclusionNext]_inclusionVars
  PROVE  FeedInv' /\ [Feed!Next]_(Feed!vars)
<1>1. ASSUME NEW n \in Nodes, OnBlockSend(n)
      PROVE FeedInv' /\ [Feed!Next]_(Feed!vars)
  BY <1>1, OnBlockSendStep DEF Feed!Next
<1>2. ASSUME NEW n \in Nodes, NEW h \in Heights, OnBlock(n, h)
      PROVE FeedInv' /\ [Feed!Next]_(Feed!vars)
  BY <1>2, OnBlockStep DEF Feed!Next
<1>3. CASE Receive
  BY <1>3, ReceiveStep DEF Feed!Next
<1>4. CASE ReadSucceeds \/ ReadFails
  BY <1>4, ReadStep DEF Feed!Next
<1>5. CASE InclusionCancel \/ UNCHANGED inclusionVars
  BY <1>5 DEF InclusionCancel, inclusionVars, FeedInv, LogReaders, Queue, Reading, Settled, Feed!vars
<1>6. CASE Return
  BY <1>6 DEF Return, FeedInv, LogReaders, Queue, Reading, Settled, Feed!Next,
              Feed!Stop
<1>7. QED
  BY <1>1, <1>2, <1>3, <1>4, <1>5, <1>6 DEF InclusionNext

(* The observer implements the safety part of BlockFeed: a block that      *)
(* several nodes announce is reported to the tracker or counted as missed, *)
(* and never both nor twice.                                               *)
THEOREM ObserverIsBlockFeed == InclusionSpec => StepsAreFeedSteps
<1>1. InclusionInit => Feed!Init
  BY DEF InclusionInit, Feed!Init
<1>2. FeedInv /\ [InclusionNext]_inclusionVars => FeedInv' /\ [Feed!Next]_(Feed!vars)
  BY FeedStep
<1>3. QED
  BY <1>1, <1>2, FeedInvInit, PTL DEF InclusionSpec, StepsAreFeedSteps

-----------------------------------------------------------------------------
(* Someone still has to settle block h. *)
IsHeld(h) ==
  \/ \E n \in Nodes : sending[n] = h
  \/ \E i \in 1 .. Len(queue) : queue[i] = h
  \/ reading = h

(* FeedInv says that no block is in two places; this, that it is in one,   *)
(* and that missed counts the lost ones.                                   *)
PlaceInv ==
  /\ FeedInv
  /\ marks \cap lost = {}
  /\ \A h \in seen : h \in Settled \/ IsHeld(h)
  /\ missed = Cardinality(lost)

(* The invariant holds initially. *)
LEMMA PlaceInvInit == InclusionInit => PlaceInv
  BY FeedInvInit, FS_EmptySet DEF InclusionInit, PlaceInv, Settled

(* A block that is given up is counted once. *)
LEMMA GiveUpCounts ==
  ASSUME PlaceInv, NEW h, h \notin lost, GiveUp(h)
  PROVE  missed' = Cardinality(lost')
<1>1. lost \subseteq Heights
  BY DEF PlaceInv, FeedInv, Settled
<1>2. IsFiniteSet(lost)
  BY <1>1, HeightsAssumption, FS_Subset
<1>3. Cardinality(lost \cup {h}) = Cardinality(lost) + 1
  BY <1>2, FS_AddElement
<1>4. QED
  BY <1>3 DEF GiveUp, PlaceInv

(* OnBlock takes charge of the height it announces. *)
LEMMA OnBlockPlace ==
  ASSUME PlaceInv, NEW n \in Nodes, NEW h \in Heights, OnBlock(n, h)
  PROVE  \A x \in seen' : x \in Settled' \/ IsHeld(x)'
<1>1. /\ seen' = seen \cup {h}
      /\ sending[n] = 0 /\ sending' = [sending EXCEPT ![n] = h]
      /\ UNCHANGED <<queue, lost, reading, marks>>
  BY DEF OnBlock
<1>2. sending \in [Nodes -> Heights \cup {0}] /\ 0 \notin seen
  BY HeightsAssumption DEF PlaceInv, FeedInv, LogReaders
<1>3. QED
  BY <1>1, <1>2 DEF PlaceInv, IsHeld, Settled

(* OnBlock hands it to the queue or counts it as missed. *)
LEMMA OnBlockSendPlace ==
  ASSUME PlaceInv, NEW n \in Nodes, OnBlockSend(n)
  PROVE  /\ marks' \cap lost' = {} /\ missed' = Cardinality(lost')
         /\ \A x \in seen' : x \in Settled' \/ IsHeld(x)'
<1> DEFINE h == sending[n]
<1>1. /\ h \in Heights /\ h \in seen \ Settled
      /\ sending \in [Nodes -> Heights \cup {0}] /\ queue \in Seq(Heights)
      /\ sending' = [sending EXCEPT ![n] = 0]
      /\ UNCHANGED <<seen, reading, marks>>
  BY DEF OnBlockSend, PlaceInv, FeedInv, LogReaders, Queue
<1>2. CASE queue' = Append(queue, h) /\ UNCHANGED <<missed, lost>>
  <2>1. /\ Len(queue') = Len(queue) + 1 /\ Len(queue) \in Nat
        /\ queue'[Len(queue) + 1] = h
        /\ \A i \in 1 .. Len(queue) : queue'[i] = queue[i]
    BY <1>1, <1>2
  <2>2. ASSUME NEW x \in seen' PROVE x \in Settled' \/ IsHeld(x)'
    <3>1. CASE x = h
      BY <2>1, <3>1 DEF IsHeld
    <3>2. CASE x # h
      BY <1>1, <1>2, <2>1, <2>2, <3>2 DEF PlaceInv, IsHeld, Settled
    <3>3. QED
      BY <3>1, <3>2
  <2>3. QED
    BY <1>1, <1>2, <2>2 DEF PlaceInv
<1>3. CASE GiveUp(h) /\ UNCHANGED queue
  <2>1. lost' = lost \cup {h}
    BY <1>3 DEF GiveUp
  <2>2. missed' = Cardinality(lost')
    BY <1>1, <1>3, GiveUpCounts DEF Settled
  <2>3. QED
    BY <1>1, <1>3, <2>1, <2>2 DEF PlaceInv, IsHeld, Settled
<1>4. QED
  BY <1>2, <1>3 DEF OnBlockSend

(* run takes charge of the head of the queue or counts it as missed. *)
LEMMA ReceivePlace ==
  ASSUME PlaceInv, Receive
  PROVE  /\ marks' \cap lost' = {} /\ missed' = Cardinality(lost')
         /\ \A x \in seen' : x \in Settled' \/ IsHeld(x)'
<1> DEFINE h == Head(queue)
<1>1. /\ queue # <<>> /\ queue' = Tail(queue) /\ reading = 0
      /\ UNCHANGED <<seen, sending, marks>>
  BY DEF Receive
<1>2. /\ h = queue[1] /\ Len(queue) \in Nat /\ Len(queue) >= 1
      /\ Len(queue') = Len(queue) - 1
      /\ \A i \in 1 .. Len(queue') : queue'[i] = queue[i + 1]
  BY <1>1 DEF PlaceInv, FeedInv, Queue
<1>3. h \in seen \ Settled /\ 0 \notin seen
  BY <1>2, HeightsAssumption DEF PlaceInv, FeedInv, Queue
<1>4. ASSUME NEW i \in 1 .. Len(queue), i # 1
      PROVE \E j \in 1 .. Len(queue') : queue'[j] = queue[i]
  <2>1. i - 1 \in 1 .. Len(queue') /\ (i - 1) + 1 = i
    BY <1>2, <1>4
  <2>2. QED
    BY <1>2, <2>1
<1>5. ASSUME NEW x \in seen, x # h, IsHeld(x)
      PROVE  \/ \E k \in Nodes : sending[k] = x
             \/ \E j \in 1 .. Len(queue') : queue'[j] = x
  <2>1. reading # x
    BY <1>1, <1>3
  <2>2. CASE \E i \in 1 .. Len(queue) : queue[i] = x
    <3>1. PICK i \in 1 .. Len(queue) : queue[i] = x
      BY <2>2
    <3>2. i # 1
      BY <1>2, <1>5, <3>1
    <3>3. QED
      BY <1>4, <3>1, <3>2
  <2>3. QED
    BY <1>5, <2>1, <2>2 DEF IsHeld
<1>6. CASE reading' = h /\ UNCHANGED <<missed, lost>>
  BY <1>1, <1>5, <1>6 DEF PlaceInv, IsHeld, Settled
<1>7. CASE GiveUp(h)
  <2>1. lost' = lost \cup {h}
    BY <1>7 DEF GiveUp
  <2>2. missed' = Cardinality(lost')
    BY <1>3, <1>7, GiveUpCounts DEF Settled
  <2>3. QED
    BY <1>1, <1>3, <1>5, <2>1, <2>2 DEF PlaceInv, IsHeld, Settled
<1>8. QED
  BY <1>6, <1>7 DEF Receive

(* run settles the block it reads or keeps it. *)
LEMMA ReadPlace ==
  ASSUME PlaceInv, ReadSucceeds \/ ReadFails
  PROVE  /\ marks' \cap lost' = {} /\ missed' = Cardinality(lost')
         /\ \A x \in seen' : x \in Settled' \/ IsHeld(x)'
<1>1. reading \in seen \ Settled /\ UNCHANGED <<seen, sending, queue>>
  BY DEF ReadSucceeds, ReadFails, PlaceInv, FeedInv, Reading
<1>2. CASE ReadSucceeds
  BY <1>1, <1>2 DEF ReadSucceeds, PlaceInv, IsHeld, Settled
<1>3. CASE ReadFails /\ GiveUp(reading)
  <2>1. lost' = lost \cup {reading} /\ marks' = marks
    BY <1>3 DEF GiveUp, ReadFails
  <2>2. missed' = Cardinality(lost')
    BY <1>1, <1>3, GiveUpCounts DEF Settled
  <2>3. QED
    BY <1>1, <2>1, <2>2 DEF PlaceInv, IsHeld, Settled
<1>4. CASE ReadFails /\ UNCHANGED <<reading, connected, missed, lost>>
  BY <1>1, <1>4 DEF ReadFails, PlaceInv, IsHeld, Settled
<1>5. QED
  BY <1>2, <1>3, <1>4 DEF ReadFails

(* Every step keeps the invariant. *)
LEMMA PlaceInvStep == PlaceInv /\ [InclusionNext]_inclusionVars => PlaceInv'
<1> SUFFICES ASSUME PlaceInv, [InclusionNext]_inclusionVars PROVE PlaceInv'
  OBVIOUS
<1> USE FeedStep DEF PlaceInv
<1>1. ASSUME NEW n \in Nodes, OnBlockSend(n) PROVE PlaceInv'
  BY <1>1, OnBlockSendPlace
<1>2. ASSUME NEW n \in Nodes, NEW h \in Heights, OnBlock(n, h) PROVE PlaceInv'
  BY <1>2, OnBlockPlace DEF OnBlock
<1>3. CASE Receive
  BY <1>3, ReceivePlace
<1>4. CASE ReadSucceeds \/ ReadFails
  BY <1>4, ReadPlace
<1>5. CASE InclusionCancel \/ Return \/ UNCHANGED inclusionVars
  BY <1>5 DEF InclusionCancel, Return, inclusionVars, IsHeld, Settled
<1>6. QED
  BY <1>1, <1>2, <1>3, <1>4, <1>5 DEF InclusionNext

(* The places of a block are one when it was announced, else none. *)
LEMMA OnePlace ==
  ASSUME PlaceInv, NEW h \in Heights
  PROVE  Cardinality(Places(h)) = IF h \in seen THEN 1 ELSE 0
<1> DEFINE Log == {n \in Nodes : sending[n] = h}
           Pos == {i \in DOMAIN queue : queue[i] = h}
           Kind == {q \in {"read", "marked", "lost"} :
                      \/ q = "read" /\ reading = h
                      \/ q = "marked" /\ h \in marks
                      \/ q = "lost" /\ h \in lost}
<1>1. Places(h) = {<<"log", n>> : n \in Log} \cup {<<"queue", i>> : i \in Pos}
                    \cup {<<p, 0>> : p \in Kind}
  BY DEF Places
<1> HIDE DEF Log, Pos, Kind
<1>2. h # 0 /\ DOMAIN queue = 1 .. Len(queue)
  BY HeightsAssumption DEF PlaceInv, FeedInv, Queue
<1>3. CASE h \notin seen
  <2>1. Log = {} /\ Pos = {} /\ Kind = {}
    BY <1>2, <1>3 DEF Log, Pos, Kind, PlaceInv, FeedInv, LogReaders, Queue, Reading, Settled
  <2>2. QED
    BY <1>1, <1>3, <2>1, FS_EmptySet
<1>4. CASE h \in Settled
  <2>1. Log = {} /\ Pos = {}
    BY <1>2, <1>4 DEF Log, Pos, PlaceInv, FeedInv, LogReaders, Queue
  <2>2. PICK p : Kind = {p}
    <3>1. reading # h
      BY <1>2, <1>4 DEF PlaceInv, FeedInv, Reading
    <3>2. Kind = {"marked"} \/ Kind = {"lost"}
      BY <1>4, <3>1 DEF Kind, PlaceInv, Settled
    <3>3. QED
      BY <3>2
  <2>3. Places(h) = {<<p, 0>>}
    BY <1>1, <2>1, <2>2
  <2>4. h \in seen
    BY <1>4 DEF PlaceInv, FeedInv
  <2>5. QED
    BY <2>3, <2>4, FS_Singleton
<1>5. CASE h \in seen \ Settled
  <2>1. IsHeld(h)
    BY <1>5 DEF PlaceInv
  <2>2. CASE \E n \in Nodes : sending[n] = h
    <3>1. PICK n \in Nodes : sending[n] = h
      BY <2>2
    <3>2. Log = {n}
      BY <1>2, <3>1 DEF Log, PlaceInv, FeedInv, LogReaders
    <3>3. Pos = {} /\ Kind = {}
      BY <1>2, <1>5, <3>1 DEF Pos, Kind, PlaceInv, FeedInv, Queue, Reading, Settled
    <3>4. Places(h) = {<<"log", n>>}
      BY <1>1, <3>2, <3>3
    <3>5. QED
      BY <1>5, <3>4, FS_Singleton
  <2>3. CASE \E i \in 1 .. Len(queue) : queue[i] = h
    <3>1. PICK i \in 1 .. Len(queue) : queue[i] = h
      BY <2>3
    <3>2. Pos = {i}
      BY <1>2, <3>1 DEF Pos, PlaceInv, FeedInv, Queue
    <3>3. Log = {} /\ Kind = {}
      BY <1>2, <1>5, <3>1 DEF Log, Kind, PlaceInv, FeedInv, Queue, Reading, Settled
    <3>4. Places(h) = {<<"queue", i>>}
      BY <1>1, <3>2, <3>3
    <3>5. QED
      BY <1>5, <3>4, FS_Singleton
  <2>4. CASE reading = h
    <3>1. Log = {} /\ Pos = {} /\ Kind = {"read"}
      BY <1>2, <1>5, <2>4 DEF Log, Pos, Kind, PlaceInv, FeedInv, Reading, Settled
    <3>2. Places(h) = {<<"read", 0>>}
      BY <1>1, <3>1
    <3>3. QED
      BY <1>5, <3>2, FS_Singleton
  <2>5. QED
    BY <2>1, <2>2, <2>3, <2>4 DEF IsHeld
<1>6. QED
  BY <1>3, <1>4, <1>5

(* Every block that was announced is with one log reader, at one place of  *)
(* the queue, with run, reported or counted as missed: none is reported    *)
(* twice, and none disappears without being counted.                       *)
THEOREM BlocksAreAccounted == InclusionSpec => []BlockIsInOnePlace
<1>1. PlaceInv => BlockIsInOnePlace
  BY OnePlace DEF PlaceInv, BlockIsInOnePlace
<1>2. QED
  BY <1>1, PlaceInvInit, PlaceInvStep, PTL DEF InclusionSpec
=============================================================================
