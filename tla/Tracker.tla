------------------------------- MODULE Tracker -------------------------------
(***************************************************************************)
(* The transaction tracker (driver/monitoring/transactions/tracker.go):    *)
(* what becomes of each transaction the applications submit, as told by    *)
(* three unsynchronised observers. RPC workers report submissions after    *)
(* the node answered, the DAG walk reports emissions, the block reader     *)
(* reports blocks; each report holds the tracker's lock throughout, so it  *)
(* is one step, and reports arrive in any order relative to the network.   *)
(*                                                                         *)
(* A transaction is its sender and nonce: an account hands out each nonce  *)
(* once. inFlight of a sender is the set of its transactions in txs.       *)
(***************************************************************************)
EXTENDS Integers, Sequences, FiniteSets, Functions, FiniteSetsExt, Sums

CONSTANTS
  Senders,     \* the accounts of the load generators
  Apps,        \* the applications
  AppOf,       \* the application an account works for
  MaxNonce,    \* bound on the nonces of each account
  MaxTracked,  \* maxTrackedTransactions
  MaxBlocks    \* bound on the length of the chain

ASSUME AppOfAssumption == AppOf \in [Senders -> Apps]
ASSUME BoundsAssumption ==
  MaxNonce \in [Senders -> Nat] /\ MaxTracked \in Nat \ {0} /\ MaxBlocks \in Nat

Txs == UNION {{s} \X (0 .. MaxNonce[s]) : s \in Senders}

(* OtherTransactions; the parser accepts no application of that name. *)
Other == "(other)"
ASSUME NamesAssumption == Other \notin Apps

CountKinds == {"Pending", "Stalled", "Emitted", "Included", "Rejected"}

VARIABLES
  status,          \* where the network has each transaction
  chain,           \* the blocks of the network, as sets of transactions
  overtaken,       \* senders with a transaction that entered a block before
                   \* the tracker followed it (observes only)
  reported,        \* transactions whose submission was reported
  marked,          \* heights whose transactions were reported
  txs,             \* Tracker.txs
  emitted,         \* the ones with a non-zero emittedAt
  blocked,         \* the ones with blocked set
  next, runEnd,    \* Tracker.senders, for the senders seen so far
  counts,          \* Tracker.apps[app].counts
  blocks,          \* Tracker.blocks: transactions per height and contributor
  untracked,       \* Tracker.untracked
  includedNotSeen  \* Tracker.includedNotSeen

network == <<status, chain, overtaken>>
tracker == <<txs, emitted, blocked, next, runEnd, counts, blocks, untracked,
             includedNotSeen>>
vars == <<network, reported, marked, tracker>>

Of(s, T) == {t \in T : t[1] = s}
OfApp(a, T) == {t \in T : AppOf[t[1]] = a}
Known == DOMAIN next

Init ==
  /\ status = [t \in Txs |-> "unsent"] /\ chain = <<>> /\ overtaken = {}
  /\ reported = {} /\ marked = {}
  /\ txs = {} /\ emitted = {} /\ blocked = {}
  /\ next = <<>> /\ runEnd = <<>>
  /\ counts = [a \in Apps |-> [k \in CountKinds |-> 0]]
  /\ blocks = <<>>
  /\ untracked = 0 /\ includedNotSeen = 0

-----------------------------------------------------------------------------
(* The network: pools accept transactions of any nonce, validators emit    *)
(* and blocks include the ones of a sender in nonce order.                 *)

Accept(t) ==
  /\ status[t] = "unsent"
  /\ status' = [status EXCEPT ![t] = "pool"]
  /\ UNCHANGED <<chain, overtaken, reported, marked, tracker>>

Emit(t) ==
  /\ status[t] = "pool"
  /\ \A u \in Of(t[1], Txs) : u[2] < t[2] => status[u] \in {"event", "block"}
  /\ status' = [status EXCEPT ![t] = "event"]
  /\ UNCHANGED <<chain, overtaken, reported, marked, tracker>>

IncludeBlock(B) ==
  /\ Len(chain) < MaxBlocks /\ B # {}
  /\ \A t \in B : status[t] = "event"
  /\ \A t \in B : \A u \in Of(t[1], Txs) :
       u[2] < t[2] => u \in B \/ status[u] = "block"
  /\ status' = [t \in Txs |-> IF t \in B THEN "block" ELSE status[t]]
  /\ chain' = Append(chain, B)
  /\ overtaken' = overtaken \cup {t[1] : t \in B \ txs}
  /\ UNCHANGED <<reported, marked, tracker>>

-----------------------------------------------------------------------------
(* Reports of submissions *)

(* The call failed: the node refused, or its answer was lost. *)
OnTransactionRejected(t) ==
  /\ t \notin reported
  /\ \/ status[t] = "unsent" /\ status' = [status EXCEPT ![t] = "refused"]
     \/ status[t] \notin {"unsent", "refused"} /\ UNCHANGED status
  /\ reported' = reported \cup {t}
  /\ counts' = [counts EXCEPT ![AppOf[t[1]]]["Rejected"] = @ + 1]
  /\ UNCHANGED <<chain, overtaken, marked, txs, emitted, blocked, next, runEnd,
                 blocks, untracked, includedNotSeen>>

(* Fault: the run is advanced over the submitted nonce only. *)
extendRunOnce(s, n, T) == IF <<s, n>> \in T THEN n + 1 ELSE n
(* The first nonce from n on that sender s has not in T. *)
extendRun(s, n, T) == CHOOSE m \in n .. MaxNonce[s] + 1 :
  /\ <<s, m>> \notin T
  /\ \A i \in n .. m - 1 : <<s, i>> \in T

(* Fault: emitted transactions are moved from Stalled to Pending as well. *)
unblockEmittedToo(U) == U
(* unblock: an emitted transaction is no longer counted as waiting. *)
unblockCounted(U) == U \ emitted

trackSubmission(t) ==
  LET s == t[1]
      a == AppOf[s]
      nonce == t[2]
      from == IF s \in Known THEN next[s] ELSE nonce
      run == IF s \in Known THEN runEnd[s] ELSE nonce
      end == extendRun(s, run, txs \cup {t})
      stalled == blocked \cup (IF nonce > run THEN {t} ELSE {})
      unblocked == {u \in Of(s, stalled) : u[2] \in run .. end - 1 /\ u[2] > from}
      moved == Cardinality(unblockCounted(unblocked))
      isStalled == IF nonce > run THEN 1 ELSE 0
  IN /\ txs' = txs \cup {t}
     /\ blocked' = stalled \ unblocked
     /\ next' = [x \in Known \cup {s} |-> IF x = s THEN from ELSE next[x]]
     /\ runEnd' = [x \in Known \cup {s} |-> IF x = s THEN end ELSE runEnd[x]]
     /\ counts' = [counts EXCEPT
          ![a]["Stalled"] = @ + isStalled - moved,
          ![a]["Pending"] = @ + (1 - isStalled) + moved]

(* Fault: submissions at the limit are followed. *)
hasRoomAlways == TRUE
hasRoom == Cardinality(txs) < MaxTracked

OnTransactionSubmitted(t) ==
  /\ t \notin reported /\ status[t] \notin {"unsent", "refused"}
  /\ reported' = reported \cup {t}
  /\ \/ /\ ~hasRoom
        /\ untracked' = untracked + 1
        /\ UNCHANGED <<txs, blocked, next, runEnd, counts>>
     \/ /\ hasRoom
        /\ trackSubmission(t)
        /\ UNCHANGED untracked
  /\ UNCHANGED <<network, marked, emitted, blocks, includedNotSeen>>

-----------------------------------------------------------------------------
(* Reports of events and blocks *)

(* Of a transaction that is not followed, or known as emitted: ignored. *)
MarkEmitted(t) ==
  /\ status[t] \in {"event", "block"}
  /\ t \in txs \ emitted
  /\ emitted' = emitted \cup {t}
  /\ counts' = [counts EXCEPT
       ![AppOf[t[1]]][IF t \in blocked THEN "Stalled" ELSE "Pending"] = @ - 1,
       ![AppOf[t[1]]]["Emitted"] = @ + 1]
  /\ UNCHANGED <<network, reported, marked, txs, blocked, next, runEnd, blocks,
                 untracked, includedNotSeen>>

(* Fault: a height announced by a second node is read again. *)
announcedAgain(h) == TRUE
(* Every height is read once, in no particular order, or never. *)
firstAnnouncement(h) == h \notin marked

(* releaseNonce, for the followed transactions I of a block. *)
Released(s, I) == Max({next[s]} \cup {t[2] + 1 : t \in Of(s, I)})

(* Fault: only transactions seen in an event are released. *)
followedEmitted(h) == chain[h] \cap emitted
followed(h) == chain[h] \cap txs

MarkBlock(h) ==
  LET I == followed(h)
      N(a, T) == Cardinality(OfApp(a, T \cap I))
  IN /\ firstAnnouncement(h)
     /\ marked' = marked \cup {h}
     /\ txs' = txs \ I
     /\ emitted' = emitted \ I
     /\ blocked' = blocked \ I
     /\ next' = [s \in Known |-> Released(s, I)]
     /\ runEnd' = [s \in Known |-> Max({runEnd[s], Released(s, I)})]
     /\ counts' = [a \in Apps |-> [counts[a] EXCEPT
          !["Emitted"] = @ - N(a, emitted),
          !["Stalled"] = @ - N(a, blocked \ emitted),
          !["Pending"] = @ - N(a, txs \ (blocked \cup emitted)),
          !["Included"] = @ + N(a, txs)]]
     /\ blocks' = [i \in DOMAIN blocks \cup {h} |->
          IF i # h THEN blocks[i]
          ELSE [a \in Apps \cup {Other} |->
                 IF a = Other THEN Cardinality(chain[h] \ txs) ELSE N(a, txs)]]
     /\ includedNotSeen' = includedNotSeen + Cardinality(I \ emitted)
     /\ UNCHANGED <<network, reported, untracked>>

-----------------------------------------------------------------------------
Next ==
  \/ \E t \in Txs :
       \/ Accept(t) \/ Emit(t)
       \/ OnTransactionRejected(t) \/ OnTransactionSubmitted(t)
       \/ MarkEmitted(t)
  \/ \E B \in SUBSET {t \in Txs : status[t] = "event"} : IncludeBlock(B)
  \/ \E h \in DOMAIN chain : MarkBlock(h)

Spec == Init /\ [][Next]_vars

-----------------------------------------------------------------------------
TypeOK ==
  /\ status \in [Txs -> {"unsent", "refused", "pool", "event", "block"}]
  /\ Len(chain) <= MaxBlocks /\ \A h \in DOMAIN chain : chain[h] \subseteq Txs
  /\ overtaken \subseteq Senders
  /\ reported \subseteq Txs /\ marked \subseteq DOMAIN chain
  /\ txs \subseteq reported /\ Cardinality(txs) <= MaxTracked
  /\ emitted \subseteq txs /\ blocked \subseteq txs
  /\ Known \subseteq Senders /\ DOMAIN runEnd = Known
  /\ \A s \in Known : next[s] \in 0 .. MaxNonce[s] + 1
                       /\ runEnd[s] \in next[s] .. MaxNonce[s] + 1
  /\ counts \in [Apps -> [CountKinds -> Nat]]
  /\ DOMAIN blocks = marked
  /\ untracked \in Nat /\ includedNotSeen \in Nat

(* The counters of every application are the sizes of the populations they *)
(* name, however submissions, emissions and blocks are interleaved:        *)
(* unblock, MarkEmitted and markIncluded each move a transaction between   *)
(* counters on their own, guided only by its flags.                        *)
CountsMatch ==
  \A a \in Apps :
    /\ counts[a]["Emitted"] = Cardinality(OfApp(a, emitted))
    /\ counts[a]["Stalled"] = Cardinality(OfApp(a, blocked \ emitted))
    /\ counts[a]["Pending"] = Cardinality(OfApp(a, txs \ (blocked \cup emitted)))

(* What the recorded blocks attribute to an application adds up to its     *)
(* Included counter: no block is counted twice or overwritten, although    *)
(* every node announces it.                                                *)
CompositionAddsUp ==
  \A a \in Apps :
    counts[a]["Included"] = SumOf([h \in DOMAIN blocks |-> blocks[h][a]], DOMAIN blocks)

(* The emittable run of s is the nonces in flight from next on, and the    *)
(* stalled transactions of s are the ones beyond its end.                  *)
RunIsExact(s) ==
  /\ <<s, runEnd[s]>> \notin txs
  /\ \A n \in next[s] .. runEnd[s] - 1 : <<s, n>> \in txs
  /\ Of(s, blocked) = {t \in Of(s, txs) : t[2] > runEnd[s]}

(* A transaction counts as Stalled exactly while a nonce is missing before *)
(* it, for every sender whose transactions were followed before blocks     *)
(* included them; blocks may be missed or reported out of order.           *)
StalledBehindGap == \A s \in Known \ overtaken : RunIsExact(s)

(* Nothing becomes emittable by an inclusion (releaseNonce), so the run    *)
(* needs no extension there: it stays exact for every sender.              *)
(* Refuted: see the README.                                                *)
NothingBecomesEmittable == \A s \in Known : RunIsExact(s)

(* Records are released on inclusion (maxTrackedTransactions): once its    *)
(* block was reported a transaction is not retained, for every sender      *)
(* whose transactions were followed before blocks included them.           *)
IncludedIsReleased ==
  \A h \in marked : \A t \in chain[h] : t[1] \notin overtaken => t \notin txs
==============================================================================
