------------------------------- MODULE Staking -------------------------------
(***************************************************************************)
(* The steps of a scenario that change validators and stakes: registering  *)
(* and activating validators, delegating, undelegating, checking stakes,   *)
(* and the sealing of epochs (driver/executor/validator_registry.go,       *)
(* driver/executor/run.go, driver/network).                                *)
(*                                                                         *)
(* Every call connects to a node of its own choice. Nodes follow the chain *)
(* at their own pace, so what a call reads may be out of date, and a node  *)
(* may catch up between two reads of the same call. A transaction takes    *)
(* its nonce from the node it is sent to; with a nonce already used it is  *)
(* never executed, and its receipt is waited for in vain.                  *)
(***************************************************************************)
EXTENDS Integers, Sequences, FiniteSets, SequencesExt, FiniteSetsExt, Functions

CONSTANTS
  Nodes,       \* nodes of the network
  Delegators,  \* names of external delegators
  Steps,       \* for each position of a scenario, the steps that may be there
  Genesis,     \* number of validators in genesis
  MaxIds,      \* bound on the validators, of genesis and registered
  MaxSeals     \* bound on the epochs that are sealed by time

(* Without a delegator, a step is about the validator's own stake. *)
NoOne == ""

(* Stakes are unsigned numbers; the static check wants a delegator for     *)
(* every delegation, and at least one instance of a node.                  *)
IsStep(s) ==
  \/ /\ s.fn = "startNode" /\ s.failing \in BOOLEAN
     /\ {s.v, s.amount} \subseteq Nat /\ s.instances \in Nat \ {0}
  \/ s.fn = "delegate" /\ s.d \in Delegators /\ {s.v, s.amount} \subseteq Nat
  \/ s.fn = "undelegate" /\ s.d \in Delegators \union {NoOne} /\ {s.v, s.amount} \subseteq Nat
  \/ s.fn \in {"advance", "rules", "verifyStakes", "waitForEpoch"}

ASSUME StakingAssumption ==
  /\ {Genesis, MaxIds, MaxSeals} \subseteq Nat
  /\ 1 <= Genesis /\ Genesis <= MaxIds
  /\ Len(Steps) \in Nat /\ DOMAIN Steps = 1..Len(Steps)
  /\ \A i \in DOMAIN Steps : \A s \in Steps[i] : IsStep(s)

Ids == 1..MaxIds

ValidatorKey(v) == <<"validator", v>>

DelegatorKey(d) == <<"delegator", d>>

(* The treasury is the account of the first validator, which also owns the *)
(* contracts that seal epochs and change the rules.                        *)
treasuryKey == ValidatorKey(1)

Accounts == {ValidatorKey(v) : v \in Ids} \union {DelegatorKey(d) : d \in Delegators}

defaultStakePerValidator == 2

delegatorGasBudget == 1

VARIABLES
  chain,      \* the states of the chain after each block
  seen,       \* the last block each node has
  pool,       \* transactions sent and not executed
  txs,        \* number of transactions sent so far
  seals,      \* epochs sealed by time
  result,     \* "running", "ok" or "error"
  steps,      \* steps taken so far
  plan,       \* calls the step has still to make
  call,       \* the call that is made
  held,       \* the node ensureValidatorsActive stays connected to
  ids,        \* validators registered by the scenario, in order
  left,       \* validators whose stake was taken back
  excused,    \* validators of steps that are marked as failing
  expectedStakes

chainVars == <<chain, pool, seals>>
scenarioVars == <<result, steps, plan, call, held, ids, left, excused, expectedStakes>>
vars == <<chainVars, seen, txs, scenarioVars>>

NoCall == [at |-> "none"]

Tip == Last(chain)

View(n) == chain[seen[n]]

Pairs == Delegators \X Ids

-----------------------------------------------------------------------------
(* The chain, as far as the calls show it *)

Genesis0 ==
  [epoch |-> 1, sealing |-> FALSE, active |-> 1..Genesis, last |-> Genesis,
   self |-> [v \in Ids |-> IF v <= Genesis THEN defaultStakePerValidator ELSE 0],
   stake |-> [k \in Pairs |-> 0], funds |-> [d \in Delegators |-> 0],
   nonce |-> [a \in Accounts |-> 0], done |-> {}]

(* Whether the SFC and driver contracts accept the call of a transaction *)
Accepts(s, tx) ==
  CASE tx.op = "create" -> tx.v > s.last
    [] tx.op = "delegate" -> tx.v <= s.last /\ s.funds[tx.d] >= tx.amount
    [] tx.op = "undelegate" -> 0 < tx.amount /\ tx.amount <= s.stake[<<tx.d, tx.v>>]
    [] tx.op = "unregister" -> 0 < tx.amount /\ tx.amount <= s.self[tx.v]
    [] OTHER -> TRUE

Effect(s, tx) ==
  CASE tx.op = "create" -> [s EXCEPT !.last = @ + 1, !.self[s.last + 1] = tx.amount]
    [] tx.op = "fund" -> [s EXCEPT !.funds[tx.d] = @ + tx.amount]
    [] tx.op = "delegate" -> [s EXCEPT !.funds[tx.d] = @ - tx.amount,
                                       !.stake[<<tx.d, tx.v>>] = @ + tx.amount]
    [] tx.op = "undelegate" -> [s EXCEPT !.stake[<<tx.d, tx.v>>] = @ - tx.amount]
    [] tx.op = "unregister" -> [s EXCEPT !.self[tx.v] = @ - tx.amount]
    [] tx.op = "advance" -> [s EXCEPT !.sealing = TRUE]
    [] tx.op = "rules" -> s

Execute(s, tx) ==
  LET ok == Accepts(s, tx) IN
  [(IF ok THEN Effect(s, tx) ELSE s) EXCEPT !.nonce[tx.from] = @ + 1,
                                            !.done = @ \union {<<tx.id, ok>>}]

ProduceBlock(tx) ==
  /\ tx.nonce = Tip.nonce[tx.from]
  /\ chain' = Append(chain, Execute(Tip, tx))
  /\ pool' = pool \ {tx}
  /\ UNCHANGED <<seen, txs, seals, scenarioVars>>

(* The epoch ends because it was asked to, or because its time is over. *)
SealEpoch ==
  /\ Tip.sealing \/ seals < MaxSeals
  /\ seals' = IF Tip.sealing THEN seals ELSE seals + 1
  /\ chain' = Append(chain, [Tip EXCEPT !.epoch = @ + 1, !.sealing = FALSE,
                               !.active = {v \in 1..Tip.last : Tip.self[v] > 0}])
  /\ UNCHANGED <<seen, pool, txs, scenarioVars>>

CatchUp(n) ==
  /\ seen[n] < Len(chain)
  /\ seen' = [seen EXCEPT ![n] = @ + 1]
  /\ UNCHANGED <<chainVars, txs, scenarioVars>>

-----------------------------------------------------------------------------
(* Steps and the calls they make *)

Call(op, d, v, amount) == [op |-> op, d |-> d, v |-> v, amount |-> amount]

(* A delegator is funded with the stake and a budget for gas, then it      *)
(* delegates.                                                              *)
execDelegate(t) ==
  <<Call("fund", t.d, t.v, t.amount + delegatorGasBudget),
    Call("delegate", t.d, t.v, t.amount)>>

(* Without a delegator the validator takes back its own stake. A delegator *)
(* has to have delegated before.                                           *)
execUndelegate(t) ==
  <<Call(IF t.d = NoOne THEN "unregister" ELSE "undelegate", t.d, t.v, t.amount)>>

(* Validators are registered one by one and then made active; a node that  *)
(* rejoins brings one back. Those of a step that is marked as failing are  *)
(* left out at the end.                                                    *)
execStartNode(s) ==
  LET last == IF s.failing THEN "leftOut" ELSE "active" IN
  IF s.v = 0 THEN [i \in 1..s.instances |-> Call("create", NoOne, 0, s.amount)]
                    \o <<Call(last, NoOne, 0, s.instances)>>
  ELSE <<Call(last, NoOne, s.v, 0)>>

stepPlan(s) ==
  CASE s.fn = "startNode" -> execStartNode(s)
    [] s.fn = "delegate" -> execDelegate(s)
    [] s.fn = "undelegate" -> execUndelegate(s)
    [] OTHER -> <<Call(s.fn, NoOne, 0, 0)>>

AtBoundary == result = "running" /\ plan = <<>>

Ready == result = "running" /\ plan # <<>> /\ call = NoCall

NextStep(s) ==
  /\ AtBoundary
  /\ s.fn = "startNode" /\ s.v = 0 => Genesis + Len(ids) + s.instances <= MaxIds
  /\ plan' = stepPlan(s) /\ steps' = steps + 1
  /\ UNCHANGED <<chainVars, seen, txs, result, call, held, ids, left, excused, expectedStakes>>

Complete ==
  /\ AtBoundary
  /\ result' = "ok"
  /\ UNCHANGED <<chainVars, seen, txs, steps, plan, call, held, ids, left, excused, expectedStakes>>

(* A call fails, and the scenario with it. *)
Error ==
  /\ result' = "error" /\ plan' = <<>> /\ call' = NoCall /\ held' = {}
  /\ UNCHANGED <<chainVars, seen, txs, steps, ids, left, excused, expectedStakes>>

-----------------------------------------------------------------------------
(* Transactions *)

Transactions ==
  {"create", "fund", "delegate", "undelegate", "unregister", "advance", "rules"}

From(c) ==
  CASE c.op \in {"create", "unregister"} -> ValidatorKey(c.v)
    [] c.op \in {"delegate", "undelegate"} -> DelegatorKey(c.d)
    [] OTHER -> treasuryKey

(* RegisterValidatorNode takes the ID after the last one. *)
RegisterValidatorNode(c, view) ==
  [c EXCEPT !.v = view.last + 1, !.amount = IF @ = 0 THEN defaultStakePerValidator ELSE @]

(* An amount of 0 stands for all there is. *)
UnregisterValidatorNode(c, view) == [c EXCEPT !.amount = IF @ = 0 THEN view.self[c.v] ELSE @]

UndelegateFromValidator(c, view) ==
  [c EXCEPT !.amount = IF @ = 0 THEN view.stake[<<c.d, c.v>>] ELSE @]

Prepared(c, view) ==
  CASE c.op = "create" -> RegisterValidatorNode(c, view)
    [] c.op = "unregister" -> UnregisterValidatorNode(c, view)
    [] c.op = "undelegate" -> UndelegateFromValidator(c, view)
    [] OTHER -> c

(* A target is a node of the scenario that has a validator. *)
resolveValidatorId(c) ==
  c.op \in {"fund", "delegate", "undelegate", "unregister"} => c.v \in 1..Genesis \union Range(ids)

(* Accounts of delegators are made by their first delegation. *)
isKnown(c) ==
  resolveValidatorId(c) /\ (c.op = "undelegate" => Tip.nonce[DelegatorKey(c.d)] > 0)

(* A call that sends a transaction connects to a node and reads what it    *)
(* needs from it: the last ID, a stake, or the epoch.                      *)
BeginCall(n) ==
  LET c == Head(plan) IN
  /\ Ready /\ c.op \in Transactions /\ isKnown(c)
  /\ call' = [at |-> "send", node |-> n, epoch |-> View(n).epoch, c |-> Prepared(c, View(n))]
  /\ UNCHANGED <<chainVars, seen, txs, result, steps, plan, held, ids,
                 left, excused, expectedStakes>>

unknownTarget == Ready /\ ~isKnown(Head(plan)) /\ Error

(* An undelegation by a delegator that has nothing is not sent. *)
NothingToUndelegate ==
  call # NoCall /\ call.c.op = "undelegate" /\ call.c.amount = 0

(* PendingNonceAt: the node also counts what it has in its own pool. *)
PendingNonceAt(n, a) ==
  View(n).nonce[a] + Cardinality({tx \in pool : tx.node = n /\ tx.from = a
                                                /\ tx.nonce >= View(n).nonce[a]})

(* The node turns the transaction down when the sender cannot pay for it   *)
(* as far as the node knows.                                               *)
Payable(c, n) == c.op = "delegate" => View(n).funds[c.d] >= c.amount

SendTransaction ==
  LET c == call.c IN
  /\ call # NoCall /\ call.at = "send"
  /\ ~NothingToUndelegate /\ Payable(c, call.node)
  /\ pool' = pool \union {[id |-> txs + 1, node |-> call.node, from |-> From(c),
                           nonce |-> PendingNonceAt(call.node, From(c)),
                           op |-> c.op, d |-> c.d, v |-> c.v, amount |-> c.amount]}
  /\ txs' = txs + 1
  /\ call' = [call EXCEPT !.at = "receipt"]
  /\ UNCHANGED <<chain, seals, seen, result, steps, plan, held, ids, left, excused, expectedStakes>>

SendFails ==
  /\ call # NoCall /\ call.at = "send"
  /\ NothingToUndelegate \/ ~Payable(call.c, call.node)
  /\ Error

(* Fault: undelegations are not accounted for. *)
RememberDelegations(c) ==
  LET k == <<c.d, c.v>> IN
  /\ ids' = IF c.op = "create" THEN Append(ids, c.v) ELSE ids
  /\ left' = IF c.op = "unregister" THEN left \union {c.v} ELSE left
  /\ UNCHANGED excused
  /\ expectedStakes' = IF c.op = "delegate" THEN [expectedStakes EXCEPT ![k] = @ + c.amount]
                       ELSE expectedStakes

(* What a call leaves behind when it succeeded. The stake expected after   *)
(* an undelegation without an amount is 0.                                 *)
Remember(c) ==
  LET asked == Head(plan)
      k == <<c.d, c.v>>
  IN
  /\ ids' = IF c.op = "create" THEN Append(ids, c.v) ELSE ids
  /\ left' = IF c.op = "unregister" THEN left \union {c.v} ELSE left
  /\ UNCHANGED excused
  /\ expectedStakes' =
       CASE c.op = "delegate" -> [expectedStakes EXCEPT ![k] = @ + c.amount]
         [] c.op = "undelegate" ->
              [expectedStakes EXCEPT
                 ![k] = @ - Min({@, IF asked.amount = 0 THEN @ ELSE asked.amount})]
         [] OTHER -> expectedStakes

Finish(c) ==
  /\ plan' = Tail(plan) /\ call' = NoCall
  /\ Remember(c)
  /\ UNCHANGED <<chainVars, seen, txs, result, steps, held>>

(* WaitTransactionReceipt asks the same node. *)
Receipt(ok) ==
  /\ call # NoCall /\ call.at = "receipt"
  /\ <<txs, ok>> \in View(call.node).done

(* Fault: the status of the receipt is not looked at. *)
WaitAnyReceipt ==
  /\ Receipt(TRUE) \/ Receipt(FALSE)
  /\ IF call.c.op = "advance"
     THEN /\ call' = [call EXCEPT !.at = "epoch"]
          /\ UNCHANGED <<chainVars, seen, txs, result, steps, plan, held, ids, left, excused,
                         expectedStakes>>
     ELSE Finish(call.c)

WaitTransactionReceipt ==
  /\ Receipt(TRUE)
  /\ IF call.c.op = "advance"
     THEN /\ call' = [call EXCEPT !.at = "epoch"]
          /\ UNCHANGED <<chainVars, seen, txs, result, steps, plan, held, ids, left, excused,
                         expectedStakes>>
     ELSE Finish(call.c)

(* The transaction was reverted. *)
Reverted == Receipt(FALSE) /\ Error

(* AdvanceEpoch waits until its node is in a later epoch than it was. *)
AdvanceEpoch ==
  /\ call # NoCall /\ call.at = "epoch"
  /\ View(call.node).epoch >= call.epoch + 1
  /\ Finish(call.c)

(* Receipts and epochs are waited for for a limited time. *)
CallTimesOut ==
  /\ call # NoCall /\ call.at \in {"receipt", "epoch"}
  /\ Error

-----------------------------------------------------------------------------
(* Calls that only read *)

Want(c) == IF c.v # 0 THEN {c.v} ELSE {ids[i] : i \in (Len(ids) - c.amount + 1)..Len(ids)}

(* Fault: one validator in the set stands for all. *)
noneOfValidators(want, active) == IF want \intersect active = {} THEN want ELSE {}

missingValidators(want, active) == want \ active

(* ensureValidatorsActive: validators that are missing from the set need   *)
(* an epoch to be sealed; the node asked first is asked again after it.    *)
ensureValidatorsActive(n) ==
  LET c == Head(plan) IN
  /\ Ready /\ c.op = "active"
  /\ IF missingValidators(Want(c), View(n).active) = {}
     THEN plan' = Tail(plan) /\ UNCHANGED held
     ELSE /\ plan' = <<Call("advance", NoOne, 0, 0), [c EXCEPT !.op = "joined"]>> \o Tail(plan)
          /\ held' = {n}
  /\ UNCHANGED <<chainVars, seen, txs, result, steps, call, ids, left, excused, expectedStakes>>

(* A node that may never come up must not be the subject of an assertion:  *)
(* its validator joins at the next seal.                                   *)
skipActivation ==
  LET c == Head(plan) IN
  /\ Ready /\ c.op = "leftOut"
  /\ plan' = Tail(plan) /\ excused' = excused \union Want(c)
  /\ UNCHANGED <<chainVars, seen, txs, result, steps, call, held, ids, left, expectedStakes>>

validatorsJoined ==
  LET c == Head(plan) IN
  /\ Ready /\ c.op = "joined"
  /\ \E n \in held : missingValidators(Want(c), View(n).active) = {}
  /\ plan' = Tail(plan) /\ held' = {}
  /\ UNCHANGED <<chainVars, seen, txs, result, steps, call, ids, left, excused, expectedStakes>>

(* validatorActivationTimeout *)
activationTimesOut ==
  /\ Ready /\ Head(plan).op = "joined"
  /\ Error

(* execVerifyStakes: every pair is asked of a node of its own. *)
StakesVerified(at) == \A k \in Pairs : View(at[k]).stake[k] = expectedStakes[k]

execVerifyStakes(at) ==
  /\ Ready /\ Head(plan).op = "verifyStakes"
  /\ StakesVerified(at)
  /\ plan' = Tail(plan)
  /\ UNCHANGED <<chainVars, seen, txs, result, steps, call, held, ids,
                 left, excused, expectedStakes>>

stakesMismatch(at) ==
  /\ Ready /\ Head(plan).op = "verifyStakes"
  /\ ~StakesVerified(at)
  /\ Error

(* WaitForEpochChange, on one node *)
WaitForEpochChange(n) ==
  /\ Ready /\ Head(plan).op = "waitForEpoch"
  /\ call' = [at |-> "change", node |-> n, epoch |-> View(n).epoch, c |-> Head(plan)]
  /\ UNCHANGED <<chainVars, seen, txs, result, steps, plan, held, ids,
                 left, excused, expectedStakes>>

EpochChanged ==
  /\ call # NoCall /\ call.at = "change"
  /\ IF View(call.node).epoch > call.epoch THEN Finish(call.c) ELSE Error

-----------------------------------------------------------------------------
Init ==
  /\ chain = <<Genesis0>> /\ seen = [n \in Nodes |-> 1]
  /\ pool = {} /\ txs = 0 /\ seals = 0
  /\ result = "running" /\ steps = 0 /\ plan = <<>> /\ call = NoCall /\ held = {}
  /\ ids = <<>> /\ left = {} /\ excused = {}
  /\ expectedStakes = [k \in Pairs |-> 0]

Ended == result # "running" /\ UNCHANGED vars

Network ==
  \/ \E tx \in pool : ProduceBlock(tx)
  \/ SealEpoch
  \/ \E n \in Nodes : CatchUp(n)

Executor ==
  \/ steps < Len(Steps) /\ \E s \in Steps[steps + 1] : NextStep(s)
  \/ Complete
  \/ \E n \in Nodes : BeginCall(n) \/ ensureValidatorsActive(n) \/ WaitForEpochChange(n)
  \/ unknownTarget \/ SendTransaction \/ SendFails
  \/ WaitTransactionReceipt \/ Reverted \/ AdvanceEpoch \/ CallTimesOut
  \/ validatorsJoined \/ activationTimesOut \/ skipActivation
  \/ \E at \in [Pairs -> Nodes] : execVerifyStakes(at) \/ stakesMismatch(at)
  \/ EpochChanged

Next == (result = "running" /\ Network) \/ Executor \/ Ended

Spec == Init /\ [][Next]_vars

-----------------------------------------------------------------------------
(* The types of the variables *)
TypeOK ==
  /\ seen \in [Nodes -> 1..Len(chain)]
  /\ \A i \in DOMAIN chain :
       /\ chain[i].active \subseteq 1..chain[i].last
       /\ chain[i].stake \in [Pairs -> Nat] /\ chain[i].self \in [Ids -> Nat]
       /\ chain[i].funds \in [Delegators -> Nat]
  /\ result \in {"running", "ok", "error"} /\ steps \in 0..Len(Steps)
  /\ held \subseteq Nodes /\ left \subseteq Ids /\ excused \subseteq Nat
  /\ expectedStakes \in [Pairs -> Nat]

(* Between two steps the stakes the executor expects are on the chain,     *)
(* however out of date the nodes were that the calls asked                 *)
(* (runState.expectedStakes).                                              *)
StakesAreCovered ==
  AtBoundary => \A k \in Pairs : expectedStakes[k] <= Tip.stake[k]

(* An epoch has ended since the validator is on the chain. *)
Sealed(v) == \E i \in DOMAIN chain : v <= chain[i].last /\ chain[i].epoch < Tip.epoch

(* A validator of a step marked as failing waits for the next seal. *)
Waiting(v) == v \in excused /\ ~Sealed(v)

(* Every validator a startNode step registered is in the validator set     *)
(* when the step has ended, unless its stake was taken back                *)
(* (ensureValidatorsActive). One of a step marked as failing is in the set *)
(* from the next seal on (execStartNode).                                  *)
ValidatorsAreActive ==
  AtBoundary => \A v \in Range(ids) \ left : v \in Tip.active \/ Waiting(v)

(* No two nodes get the same validator, and none one that is not on the    *)
(* chain, although the last ID may be read from a node that is behind      *)
(* (RegisterValidatorNode).                                                *)
IdsAreDistinct ==
  /\ IsInjective(ids)
  /\ \A i \in DOMAIN ids : Genesis < ids[i] /\ ids[i] <= Tip.last

(* An undelegation without an amount leaves nothing behind                 *)
(* (validatorRegistry.undelegateAs).                                       *)
(* Refuted: see the README.                                                *)
AllIsUndelegated ==
  AtBoundary => \A k \in Pairs : expectedStakes[k] = Tip.stake[k]

(* A call of AdvanceEpoch ends after the epoch it asked for was sealed.    *)
(* Refuted: see the README.                                                *)
AdvanceEpochSeals ==
  [][AdvanceEpoch => ~Tip.sealing]_vars
=============================================================================
