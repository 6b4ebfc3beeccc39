---------------------------- MODULE StakingProofs ----------------------------
(***************************************************************************)
(* Proofs about Staking: the stakes a scenario expects are on the chain,   *)
(* the validators it registered get IDs of their own and are active, for   *)
(* every scenario, every number of nodes and however far they are behind.  *)
(***************************************************************************)
EXTENDS Staking, TLAPS

Readers == {"active", "leftOut", "joined", "verifyStakes", "waitForEpoch"}

Ops == Transactions \union Readers

Calls == [op : Ops, d : Delegators \union {NoOne}, v : Nat, amount : Nat]

(* The receipts of transactions *)
Marks == Nat \X BOOLEAN

States == [epoch : Nat, sealing : BOOLEAN, active : SUBSET Nat, last : Nat,
           self : [Ids -> Nat], stake : [Pairs -> Nat], funds : [Delegators -> Nat],
           nonce : [Accounts -> Nat], done : SUBSET Marks]

(* The parameters of a call that its operation looks at *)
Sound(c) ==
  /\ c.op \in Transactions /\ c.v \in Nat /\ c.amount \in Nat
  /\ c.op \in {"fund", "delegate", "undelegate"} => c.d \in Delegators /\ c.v \in Ids
  /\ c.op = "unregister" => c.v \in Ids

CallsMade == [at : {"send", "receipt", "epoch", "change"}, node : Nodes, epoch : Nat, c : Calls]

-----------------------------------------------------------------------------
(* The invariant *)

Types ==
  /\ chain \in Seq(States) /\ Len(chain) >= 1
  /\ seen \in [Nodes -> 1..Len(chain)]
  /\ txs \in Nat /\ result \in {"running", "ok", "error"} /\ steps \in 0..Len(Steps)
  /\ plan \in Seq(Calls) /\ held \subseteq Nodes
  /\ ids \in Seq(Nat) /\ left \subseteq Ids /\ excused \subseteq Nat
  /\ expectedStakes \in [Pairs -> Nat]

(* What a node that is behind shows of the chain is still true: IDs and    *)
(* receipts only get more, and a validator leaves the set only when it has *)
(* no stake left, which it never gets back. When an epoch has ended since, *)
(* every validator there was is in the set or has no stake.                *)
Kept(s) ==
  /\ s.last <= Tip.last /\ s.done \subseteq Tip.done
  /\ s.active \subseteq 1..s.last
  /\ \A v \in s.active : v \in Tip.active \/ Tip.self[v] = 0
  /\ s.epoch <= Tip.epoch
  /\ s.epoch < Tip.epoch => \A v \in 1..s.last : v \in Tip.active \/ Tip.self[v] = 0

HistoryInv == \A i \in 1..Len(chain) : Kept(chain[i])

(* The call is the next of the plan, with an ID and an amount that may be  *)
(* out of date.                                                            *)
CallInv ==
  \/ call = NoCall
  \/ /\ call \in CallsMade /\ result = "running" /\ plan # <<>>
     /\ call.c.op = Head(plan).op /\ call.c.d = Head(plan).d
     /\ call.at \in {"send", "receipt"} => Sound(call.c)
     /\ call.at = "epoch" => call.c.op = "advance"
     /\ call.at = "change" => call.c.op = "waitForEpoch"
     /\ call.c.op = "create" => call.c.v <= Tip.last + 1 /\ call.c.amount > 0
     /\ call.c.op = "undelegate" =>
          Head(plan).amount = 0 \/ call.c.amount = Head(plan).amount

(* The transaction of the call was executed; the call does not know yet. *)
Pending(op) ==
  /\ call # NoCall /\ call.at = "receipt" /\ call.c.op = op
  /\ <<txs, TRUE>> \in Tip.done

(* Only the transaction of the call can be in the pool. *)
IsCalled(tx) ==
  /\ call # NoCall /\ call.at = "receipt" /\ <<txs, TRUE>> \notin Tip.done
  /\ tx.id = txs /\ tx.op = call.c.op /\ tx.d = call.c.d /\ tx.v = call.c.v
  /\ tx.amount = call.c.amount

PoolInv ==
  /\ result = "running" => \A tx \in pool : IsCalled(tx) /\ pool = {tx}
  /\ \A p \in Tip.done : p[1] <= txs

(* A plan registers and then activates, or waits for validators to join,   *)
(* or does something else.                                                 *)
Registering ==
  /\ plan # <<>> /\ Last(plan).op \in {"active", "leftOut"}
  /\ \A i \in 1..(Len(plan) - 1) : plan[i].op = "create"
  /\ Last(plan).v # 0 => Len(plan) = 1
  /\ Last(plan).v = 0 =>
       /\ Len(plan) - 1 <= Last(plan).amount
       /\ Last(plan).amount <= Len(ids) + Len(plan) - 1
       /\ Genesis + Len(ids) + Len(plan) - 1 <= MaxIds

Joining ==
  /\ Len(plan) \in {1, 2} /\ Last(plan).op = "joined"
  /\ Len(plan) = 2 => Head(plan).op = "advance"
  /\ Last(plan).v = 0 => Last(plan).amount <= Len(ids)

Plain(c) ==
  /\ c.op \notin {"create", "active", "leftOut", "joined"}
  /\ c.op \in {"fund", "delegate", "undelegate"} => c.d \in Delegators

PlanInv ==
  \/ \A i \in 1..Len(plan) : Plain(plan[i])
  \/ Registering
  \/ Joining

(* IDs are given in order, and a validator has one as soon as its          *)
(* registration is executed.                                               *)
CountInv ==
  /\ \A i \in 1..Len(ids) : ids[i] = Genesis + i
  /\ Genesis + Len(ids) <= Tip.last /\ Tip.last <= MaxIds
  /\ result = "running" /\ ~Pending("create") => Tip.last = Genesis + Len(ids)
  /\ Pending("create") =>
       Tip.last = Genesis + Len(ids) + 1 /\ call.c.v = Tip.last /\ Tip.self[Tip.last] > 0

(* The stake of a pair covers what is expected of it, and what will be     *)
(* once the call knows of its receipt.                                     *)
Changing(op, k) == Pending(op) /\ k = <<call.c.d, call.c.v>>

Covered(k) ==
  /\ Changing("delegate", k) => expectedStakes[k] + call.c.amount <= Tip.stake[k]
  /\ Changing("undelegate", k) =>
       Head(plan).amount = 0 \/ expectedStakes[k] - Head(plan).amount <= Tip.stake[k]
  /\ ~Changing("delegate", k) /\ ~Changing("undelegate", k) =>
       expectedStakes[k] <= Tip.stake[k]

StakeInv == result = "running" => \A k \in Pairs : Covered(k)

(* A validator of the scenario has stake unless it took it back; it is     *)
(* active or waits for a seal, unless its step has yet to see to that.     *)
Served(v) == v \in Tip.active \/ Waiting(v)

Gone(v) == v \in left \/ (Pending("unregister") /\ call.c.v = v)

Creates == IF Head(plan).op = "create" THEN Len(plan) - 1 ELSE 0

Fresh(i) ==
  /\ plan # <<>> /\ Last(plan).op \in {"active", "leftOut", "joined"} /\ Last(plan).v = 0
  /\ i > Len(ids) + Creates - Last(plan).amount

SelfInv ==
  result = "running" =>
    \A i \in 1..Len(ids) : Tip.self[Genesis + i] > 0 \/ Gone(Genesis + i)

ActiveInv ==
  result = "running" =>
    \A i \in 1..Len(ids) : Served(Genesis + i) \/ Gone(Genesis + i) \/ Fresh(i)

Inv ==
  /\ Types /\ HistoryInv /\ CallInv /\ PoolInv /\ PlanInv
  /\ CountInv /\ StakeInv /\ SelfInv /\ ActiveInv

-----------------------------------------------------------------------------
(* What a transaction does to the chain *)

(* Registering gives the next ID to a new validator. *)
LEMMA EffectCreate ==
  ASSUME NEW s \in States, NEW tx, Sound(tx), tx.op = "create"
  PROVE  /\ Effect(s, tx) \in States
         /\ Effect(s, tx).last = s.last + 1
         /\ Effect(s, tx).self = [s.self EXCEPT ![s.last + 1] = tx.amount]
         /\ Effect(s, tx).stake = s.stake
         /\ Effect(s, tx).active = s.active
         /\ Effect(s, tx).done = s.done /\ Effect(s, tx).epoch = s.epoch
<1> DEFINE t == [s EXCEPT !.last = @ + 1]
<1>1. Effect(s, tx) = [t EXCEPT !.self[s.last + 1] = tx.amount]
  BY DEF Effect
<1>2. /\ t \in States /\ t.last = s.last + 1 /\ t.self = s.self /\ t.stake = s.stake
      /\ t.active = s.active /\ t.done = s.done /\ t.epoch = s.epoch
  BY DEF States
<1> HIDE DEF t
<1>3. [t.self EXCEPT ![s.last + 1] = tx.amount] \in [Ids -> Nat]
  BY <1>2 DEF States, Sound
<1> QED BY <1>1, <1>2, <1>3 DEF States
(* Funding moves money, and stakes stay as they are; so they do when the   *)
(* rules change or an epoch is asked to end.                               *)
LEMMA EffectOther ==
  ASSUME NEW s \in States, NEW tx, Sound(tx), tx.op \in {"fund", "advance", "rules"}
  PROVE  /\ Effect(s, tx) \in States
         /\ Effect(s, tx).last = s.last /\ Effect(s, tx).self = s.self
         /\ Effect(s, tx).stake = s.stake /\ Effect(s, tx).active = s.active
         /\ Effect(s, tx).done = s.done /\ Effect(s, tx).epoch = s.epoch
<1>1. CASE tx.op = "fund"
  <2>1. Effect(s, tx) = [s EXCEPT !.funds[tx.d] = @ + tx.amount]
    BY <1>1 DEF Effect
  <2>2. tx.d \in Delegators /\ tx.amount \in Nat /\ s.funds \in [Delegators -> Nat]
    BY <1>1 DEF Sound, States
  <2>3. [s.funds EXCEPT ![tx.d] = @ + tx.amount] \in [Delegators -> Nat]
    BY <2>2
  <2> QED BY <2>1, <2>3 DEF States
<1>2. CASE tx.op = "advance"
  <2>1. Effect(s, tx) = [s EXCEPT !.sealing = TRUE]
    BY <1>2 DEF Effect
  <2> QED BY <2>1 DEF States
<1>3. CASE tx.op = "rules"
  <2>1. Effect(s, tx) = s
    BY <1>3 DEF Effect
  <2> QED BY <2>1
<1> QED BY <1>1, <1>2, <1>3

(* A delegation adds to the stake of its pair. *)
LEMMA EffectDelegate ==
  ASSUME NEW s \in States, NEW tx, Sound(tx), tx.op = "delegate", Accepts(s, tx)
  PROVE  /\ Effect(s, tx) \in States
         /\ Effect(s, tx).last = s.last /\ Effect(s, tx).self = s.self
         /\ Effect(s, tx).stake = [s.stake EXCEPT ![<<tx.d, tx.v>>] = @ + tx.amount]
         /\ Effect(s, tx).active = s.active
         /\ Effect(s, tx).done = s.done /\ Effect(s, tx).epoch = s.epoch
<1> DEFINE t == [s EXCEPT !.funds[tx.d] = @ - tx.amount]
<1>1. Effect(s, tx) = [t EXCEPT !.stake[<<tx.d, tx.v>>] = @ + tx.amount]
  BY DEF Effect
<1>2. s.funds[tx.d] >= tx.amount
  BY DEF Accepts
<1> DEFINE k == <<tx.d, tx.v>>
<1>k. /\ tx.d \in Delegators /\ tx.amount \in Nat /\ k \in Pairs
      /\ s.funds \in [Delegators -> Nat] /\ s.stake \in [Pairs -> Nat]
  BY DEF Sound, States, Pairs
<1>3. [s.funds EXCEPT ![tx.d] = @ - tx.amount] \in [Delegators -> Nat]
  BY <1>2, <1>k
<1>4. /\ t \in States /\ t.last = s.last /\ t.self = s.self /\ t.stake = s.stake
      /\ t.active = s.active /\ t.done = s.done /\ t.epoch = s.epoch
  BY <1>3 DEF States
<1> HIDE DEF t
<1> HIDE DEF k
<1>5. [t.stake EXCEPT ![k] = @ + tx.amount] \in [Pairs -> Nat]
  BY <1>4, <1>k
<1> USE DEF k
<1> QED BY <1>1, <1>4, <1>5 DEF States

(* An undelegation takes no more from the stake of its pair than there is. *)
LEMMA EffectUndelegate ==
  ASSUME NEW s \in States, NEW tx, Sound(tx), tx.op = "undelegate", Accepts(s, tx)
  PROVE  /\ Effect(s, tx) \in States
         /\ Effect(s, tx).last = s.last /\ Effect(s, tx).self = s.self
         /\ Effect(s, tx).stake = [s.stake EXCEPT ![<<tx.d, tx.v>>] = @ - tx.amount]
         /\ Effect(s, tx).active = s.active
         /\ Effect(s, tx).done = s.done /\ Effect(s, tx).epoch = s.epoch
<1>1. Effect(s, tx) = [s EXCEPT !.stake[<<tx.d, tx.v>>] = @ - tx.amount]
  BY DEF Effect
<1>2. tx.amount <= s.stake[<<tx.d, tx.v>>]
  BY DEF Accepts
<1> DEFINE k == <<tx.d, tx.v>>
<1>k. tx.amount \in Nat /\ k \in Pairs /\ s.stake \in [Pairs -> Nat]
  BY DEF Sound, States, Pairs
<1> HIDE DEF k
<1>3. [s.stake EXCEPT ![k] = @ - tx.amount] \in [Pairs -> Nat]
  BY <1>2, <1>k DEF k
<1> USE DEF k
<1> QED BY <1>1, <1>3 DEF States

(* A validator takes back no more than it has. *)
LEMMA EffectUnregister ==
  ASSUME NEW s \in States, NEW tx, Sound(tx), tx.op = "unregister", Accepts(s, tx)
  PROVE  /\ Effect(s, tx) \in States
         /\ Effect(s, tx).last = s.last /\ Effect(s, tx).stake = s.stake
         /\ Effect(s, tx).self = [s.self EXCEPT ![tx.v] = @ - tx.amount]
         /\ 0 < s.self[tx.v]
         /\ Effect(s, tx).active = s.active
         /\ Effect(s, tx).done = s.done /\ Effect(s, tx).epoch = s.epoch
<1>1. Effect(s, tx) = [s EXCEPT !.self[tx.v] = @ - tx.amount]
  BY DEF Effect
<1>2. 0 < tx.amount /\ tx.amount <= s.self[tx.v]
  BY DEF Accepts
<1>3. tx.v \in Ids /\ tx.amount \in Nat /\ s.self \in [Ids -> Nat]
  BY DEF Sound, States
<1>4. [s.self EXCEPT ![tx.v] = @ - tx.amount] \in [Ids -> Nat] /\ 0 < s.self[tx.v]
  BY <1>2, <1>3
<1> QED BY <1>1, <1>4 DEF States

(* A function that counts counts on. *)
LEMMA CountUp ==
  ASSUME NEW S, NEW f \in [S -> Nat], NEW a
  PROVE  [f EXCEPT ![a] = @ + 1] \in [S -> Nat]
<1>1. CASE a \in S
  BY <1>1
<1>2. CASE a \notin S
  BY <1>2
<1> QED BY <1>1, <1>2

(* Every transaction that is accepted leaves a state of the chain. *)
LEMMA EffectType ==
  ASSUME NEW s \in States, NEW tx, Sound(tx), Accepts(s, tx)
  PROVE  /\ Effect(s, tx) \in States /\ Effect(s, tx).done = s.done
         /\ Effect(s, tx).epoch = s.epoch
<1>1. tx.op \in Transactions
  BY DEF Sound
<1>2. CASE tx.op = "create"
  BY <1>2, EffectCreate
<1>3. CASE tx.op \in {"fund", "advance", "rules"}
  BY <1>3, EffectOther
<1>4. CASE tx.op = "delegate"
  BY <1>4, EffectDelegate
<1>5. CASE tx.op = "undelegate"
  BY <1>5, EffectUndelegate
<1>6. CASE tx.op = "unregister"
  BY <1>6, EffectUnregister
<1> QED BY <1>1, <1>2, <1>3, <1>4, <1>5, <1>6 DEF Transactions

(* Executing a transaction that is accepted *)
LEMMA ExecuteAccepted ==
  ASSUME NEW s \in States, NEW tx, Sound(tx), tx.id \in Nat, Accepts(s, tx)
  PROVE  /\ Execute(s, tx) \in States
         /\ Execute(s, tx).last = Effect(s, tx).last
         /\ Execute(s, tx).self = Effect(s, tx).self
         /\ Execute(s, tx).stake = Effect(s, tx).stake
         /\ Execute(s, tx).active = Effect(s, tx).active
         /\ Execute(s, tx).epoch = s.epoch
         /\ Execute(s, tx).done = s.done \union {<<tx.id, TRUE>>}
<1>1. PICK e \in States : e = Effect(s, tx) /\ e.done = s.done /\ e.epoch = s.epoch
  BY EffectType
<1>2. Execute(s, tx) = [e EXCEPT !.nonce[tx.from] = @ + 1, !.done = @ \union {<<tx.id, TRUE>>}]
  BY <1>1 DEF Execute
<1> DEFINE t == [e EXCEPT !.nonce[tx.from] = @ + 1]
<1>n. e.nonce \in [Accounts -> Nat]
  BY DEF States
<1>3. [e.nonce EXCEPT ![tx.from] = @ + 1] \in [Accounts -> Nat]
  BY <1>n, CountUp
<1>4. /\ t \in States /\ t.last = e.last /\ t.self = e.self /\ t.stake = e.stake
      /\ t.active = e.active /\ t.done = e.done /\ t.epoch = e.epoch
  BY <1>3 DEF States
<1> HIDE DEF t
<1>5. Execute(s, tx) = [t EXCEPT !.done = @ \union {<<tx.id, TRUE>>}]
  BY <1>2 DEF t
<1>m. t.done \in SUBSET Marks
  BY <1>4 DEF States
<1>b. <<tx.id, TRUE>> \in Marks
  BY DEF Marks
<1>6. t.done \union {<<tx.id, TRUE>>} \in SUBSET Marks
  BY <1>m, <1>b
<1> QED BY <1>1, <1>4, <1>5, <1>6 DEF States

(* Executing a transaction that is reverted *)
LEMMA ExecuteReverted ==
  ASSUME NEW s \in States, NEW tx, Sound(tx), tx.id \in Nat, ~Accepts(s, tx)
  PROVE  /\ Execute(s, tx) \in States
         /\ Execute(s, tx).last = s.last
         /\ Execute(s, tx).self = s.self
         /\ Execute(s, tx).stake = s.stake
         /\ Execute(s, tx).active = s.active
         /\ Execute(s, tx).epoch = s.epoch
         /\ Execute(s, tx).done = s.done \union {<<tx.id, FALSE>>}
<1>1. Accepts(s, tx) = FALSE
  BY DEF Accepts
<1>2. Execute(s, tx) = [s EXCEPT !.nonce[tx.from] = @ + 1, !.done = @ \union {<<tx.id, FALSE>>}]
  BY <1>1 DEF Execute
<1> DEFINE t == [s EXCEPT !.nonce[tx.from] = @ + 1]
<1>n. s.nonce \in [Accounts -> Nat]
  BY DEF States
<1>3. [s.nonce EXCEPT ![tx.from] = @ + 1] \in [Accounts -> Nat]
  BY <1>n, CountUp
<1>4. /\ t \in States /\ t.last = s.last /\ t.self = s.self /\ t.stake = s.stake
      /\ t.active = s.active /\ t.done = s.done /\ t.epoch = s.epoch
  BY <1>3 DEF States
<1> HIDE DEF t
<1>5. Execute(s, tx) = [t EXCEPT !.done = @ \union {<<tx.id, FALSE>>}]
  BY <1>2 DEF t
<1>m. t.done \in SUBSET Marks
  BY <1>4 DEF States
<1>b. <<tx.id, FALSE>> \in Marks
  BY DEF Marks
<1>6. t.done \union {<<tx.id, FALSE>>} \in SUBSET Marks
  BY <1>m, <1>b
<1> QED BY <1>4, <1>5, <1>6 DEF States

-----------------------------------------------------------------------------
(* The initial states *)

(* The constants are numbers, and genesis has at least one validator. *)
LEMMA Constants ==
  /\ Genesis \in Nat /\ MaxIds \in Nat /\ 1 <= Genesis /\ Genesis <= MaxIds
  /\ Len(Steps) \in Nat
BY StakingAssumption

(* The chain starts with the validators of genesis and no delegations. *)
LEMMA GenesisState ==
  /\ Genesis0 \in States /\ Genesis0.last = Genesis /\ Genesis0.active = 1..Genesis
  /\ Genesis0.stake = [k \in Pairs |-> 0] /\ Genesis0.done = {}
  /\ Genesis0.epoch = 1
<1>1. [v \in Ids |-> IF v <= Genesis THEN defaultStakePerValidator ELSE 0] \in [Ids -> Nat]
  BY DEF defaultStakePerValidator
<1>2. /\ [k \in Pairs |-> 0] \in [Pairs -> Nat] /\ [d \in Delegators |-> 0] \in [Delegators -> Nat]
      /\ [a \in Accounts |-> 0] \in [Accounts -> Nat]
  OBVIOUS
<1>3. 1..Genesis \in SUBSET Nat
  BY Constants
<1> QED BY <1>1, <1>2, <1>3, Constants DEF Genesis0, States

(* The invariant holds at first. *)
LEMMA InitInv == Init => Inv
<1> SUFFICES ASSUME Init PROVE Inv
  OBVIOUS
<1>1. /\ chain = <<Genesis0>> /\ result = "running" /\ plan = <<>> /\ call = NoCall
      /\ pool = {} /\ txs = 0 /\ ids = <<>> /\ left = {} /\ excused = {} /\ held = {} /\ steps = 0
      /\ seen = [n \in Nodes |-> 1] /\ expectedStakes = [k \in Pairs |-> 0]
  BY DEF Init
<1>2. chain \in Seq(States) /\ Len(chain) = 1 /\ chain[1] = Genesis0 /\ Tip = Genesis0
  BY <1>1, GenesisState DEF Tip, Last
<1>3. Types
  BY <1>1, <1>2, Constants DEF Types
<1>4. Kept(Genesis0)
  BY <1>2, GenesisState, Constants DEF Kept
<1>5. HistoryInv
  BY <1>2, <1>4 DEF HistoryInv
<1>6. CallInv /\ PlanInv
  BY <1>1 DEF CallInv, PlanInv
<1>7. PoolInv
  BY <1>1, <1>2, GenesisState DEF PoolInv
<1>8. CountInv
  BY <1>1, <1>2, GenesisState, Constants DEF CountInv, Pending
<1>9. StakeInv
  BY <1>1, <1>2, GenesisState DEF StakeInv, Covered, Changing, Pending
<1>10. SelfInv /\ ActiveInv
  BY <1>1 DEF SelfInv, ActiveInv
<1> QED BY <1>3, <1>5, <1>6, <1>7, <1>8, <1>9, <1>10 DEF Inv

-----------------------------------------------------------------------------
(* Steps that end the scenario, and steps that leave it alone *)

(* The last state of the chain is a state. *)
LEMMA TipState == Types => Tip \in States /\ Tip = chain[Len(chain)] /\ Len(chain) \in Nat
BY DEF Types, Tip, Last

(* A call that fails ends the scenario; the chain and what was remembered  *)
(* of it stay.                                                             *)
LEMMA ErrorInv == Inv /\ Error => Inv'
<1> SUFFICES ASSUME Inv, Error PROVE Inv'
  OBVIOUS
<1>1. /\ result' = "error" /\ plan' = <<>> /\ call' = NoCall /\ held' = {}
      /\ chain' = chain /\ pool' = pool /\ seen' = seen /\ txs' = txs
      /\ steps' = steps /\ ids' = ids /\ left' = left
      /\ excused' = excused /\ expectedStakes' = expectedStakes
  BY DEF Error, chainVars
<1>2. Tip' = Tip
  BY <1>1 DEF Tip, Last
<1>3. Types'
  BY <1>1 DEF Inv, Types
<1>4. HistoryInv'
  BY <1>1, <1>2 DEF Inv, HistoryInv, Kept
<1>5. CallInv' /\ PlanInv'
  BY <1>1 DEF CallInv, PlanInv
<1>6. PoolInv'
  BY <1>1, <1>2 DEF Inv, PoolInv
<1>7. CountInv'
  BY <1>1, <1>2 DEF Inv, CountInv, Pending
<1>8. StakeInv' /\ SelfInv' /\ ActiveInv'
  BY <1>1 DEF StakeInv, SelfInv, ActiveInv
<1> QED BY <1>3, <1>4, <1>5, <1>6, <1>7, <1>8 DEF Inv

(* A node that catches up shows more of the same chain. *)
LEMMA CatchUpInv == ASSUME Inv, NEW n \in Nodes, CatchUp(n) PROVE Inv'
<1>1. /\ result' = result /\ plan' = plan /\ call' = call /\ held' = held
      /\ chain' = chain /\ pool' = pool /\ txs' = txs
      /\ steps' = steps /\ ids' = ids /\ left' = left
      /\ excused' = excused /\ expectedStakes' = expectedStakes
  BY DEF CatchUp, chainVars, scenarioVars
<1>2. seen' = [seen EXCEPT ![n] = @ + 1] /\ seen[n] < Len(chain)
  BY DEF CatchUp
<1>3. Tip' = Tip
  BY <1>1 DEF Tip, Last
<1>4. Types'
  <2>1. seen' \in [Nodes -> 1..Len(chain)]
    BY <1>2, TipState DEF Inv, Types
  <2> QED BY <1>1, <2>1 DEF Inv, Types
<1>5. /\ HistoryInv' /\ CallInv' /\ PlanInv' /\ PoolInv'
      /\ CountInv' /\ StakeInv' /\ SelfInv' /\ ActiveInv'
  BY <1>1, <1>3, ZenonT(60) DEF Inv, HistoryInv, Kept, CallInv, PlanInv, Registering, Joining, Creates,
     PoolInv, IsCalled, CountInv, StakeInv, Covered, Changing, Pending, SelfInv, ActiveInv,
     Gone, Fresh, Served, Waiting, Sealed
<1> QED BY <1>4, <1>5 DEF Inv

-----------------------------------------------------------------------------
(* Steps of the network *)

(* A new block keeps what the chain showed before, provided that nothing   *)
(* is taken from its last state.                                           *)
LEMMA Grow ==
  ASSUME Types, HistoryInv, Tip.last \in Nat, NEW t \in States, chain' = Append(chain, t),
         Tip.last <= t.last, Tip.done \subseteq t.done, t.active \subseteq 1..t.last,
         \A v \in Tip.active : v \in t.active \/ t.self[v] = 0,
         \A v \in 1..Tip.last : Tip.self[v] = 0 => t.self[v] = 0,
         Tip.epoch \in Nat, Tip.epoch <= t.epoch,
         Tip.epoch < t.epoch => \A v \in 1..Tip.last : v \in t.active \/ t.self[v] = 0
  PROVE  /\ Tip' = t /\ HistoryInv'
         /\ chain' \in Seq(States) /\ Len(chain') = Len(chain) + 1
<1>1. /\ Len(chain') = Len(chain) + 1 /\ chain' \in Seq(States)
      /\ chain'[Len(chain) + 1] = t
      /\ \A i \in 1..Len(chain) : chain'[i] = chain[i]
  BY DEF Types
<1>2. Tip' = t
  BY <1>1 DEF Tip, Last
<1>3. ASSUME NEW i \in 1..Len(chain') PROVE Kept(chain[i])'
  <2>1. CASE i \in 1..Len(chain)
    <3>1. Kept(chain[i]) /\ chain[i] \in States
      BY <2>1 DEF HistoryInv, Types
    <3>2. chain[i].last \in Nat /\ chain[i].active \subseteq 1..Tip.last /\ t.last \in Nat
      BY <3>1 DEF Kept, States
    <3>3. chain[i].last <= t.last /\ chain[i].done \subseteq t.done
      BY <3>1, <3>2 DEF Kept
    <3>4. \A v \in chain[i].active : v \in t.active \/ t.self[v] = 0
      BY <3>1, <3>2 DEF Kept
    <3>5. chain[i].epoch \in Nat /\ t.epoch \in Nat /\ chain[i].epoch <= Tip.epoch
      BY <3>1 DEF Kept, States
    <3>6. ASSUME chain[i].epoch < t.epoch, NEW v \in 1..chain[i].last
          PROVE  v \in t.active \/ t.self[v] = 0
      <4>1. v \in 1..Tip.last
        BY <3>1, <3>2 DEF Kept
      <4>2. CASE Tip.epoch < t.epoch
        BY <4>1, <4>2
      <4>3. CASE Tip.epoch = t.epoch
        BY <3>1, <3>6, <4>1, <4>3 DEF Kept
      <4> QED BY <3>5, <4>2, <4>3
    <3>7. chain[i].epoch <= t.epoch
      BY <3>5
    <3> QED BY <1>1, <1>2, <2>1, <3>1, <3>3, <3>4, <3>6, <3>7 DEF Kept
  <2>2. CASE i = Len(chain) + 1
    <3>1. t.last \in Nat /\ t.epoch \in Nat
      BY DEF States
    <3> QED BY <1>1, <1>2, <2>2, <3>1 DEF Kept
  <2> QED BY <1>1, <2>1, <2>2 DEF Types
<1>4. HistoryInv'
  BY <1>3 DEF HistoryInv
<1> QED BY <1>1, <1>2, <1>4

(* A block within an epoch leaves the validators where they are. *)
LEMMA StillServed ==
  ASSUME Types, NEW t \in States, chain' = Append(chain, t), t.epoch = Tip.epoch,
         t.active = Tip.active, excused' = excused
  PROVE  \A v : Served(v) => Served(v)'
<1>1. /\ Len(chain') = Len(chain) + 1 /\ Len(chain) \in Nat /\ chain'[Len(chain) + 1] = t
      /\ \A i \in 1..Len(chain) : chain'[i] = chain[i]
      /\ DOMAIN chain = 1..Len(chain) /\ DOMAIN chain' = 1..(Len(chain) + 1)
  BY DEF Types
<1>2. Tip' = t
  BY <1>1 DEF Tip, Last
<1>3. t.epoch \in Nat
  BY DEF States
<1>4. ASSUME NEW v, Sealed(v)' PROVE Sealed(v)
  <2>1. PICK i \in 1..(Len(chain) + 1) : v <= chain'[i].last /\ chain'[i].epoch < t.epoch
    BY <1>1, <1>2, <1>4 DEF Sealed
  <2>2. i # Len(chain) + 1
    BY <1>1, <1>3, <2>1
  <2>3. i \in 1..Len(chain)
    BY <1>1, <2>1, <2>2
  <2> QED BY <1>1, <2>1, <2>3 DEF Sealed
<1> QED BY <1>2, <1>4 DEF Served, Waiting

(* When an epoch ends, the validators with stake are the active ones. *)
LEMMA SealEpochInv == Inv /\ SealEpoch => Inv'
<1> SUFFICES ASSUME Inv, SealEpoch PROVE Inv'
  OBVIOUS
<1>1. /\ result' = result /\ plan' = plan /\ call' = call /\ held' = held
      /\ pool' = pool /\ txs' = txs /\ seen' = seen
      /\ steps' = steps /\ ids' = ids /\ left' = left
      /\ excused' = excused /\ expectedStakes' = expectedStakes
  BY DEF SealEpoch, scenarioVars
<1>2. Tip \in States /\ Tip = chain[Len(chain)] /\ Len(chain) \in Nat
  BY TipState DEF Inv
<1>3. PICK t : /\ chain' = Append(chain, t)
               /\ t = [Tip EXCEPT !.epoch = @ + 1, !.sealing = FALSE,
                                  !.active = {v \in 1..Tip.last : Tip.self[v] > 0}]
  BY DEF SealEpoch
<1>4. {v \in 1..Tip.last : Tip.self[v] > 0} \in SUBSET Nat /\ Tip.last \in Nat /\ Tip.epoch + 1 \in Nat
  BY <1>2 DEF States
<1>5. /\ t \in States /\ t.last = Tip.last /\ t.self = Tip.self /\ t.stake = Tip.stake
      /\ t.done = Tip.done /\ t.epoch = Tip.epoch + 1 /\ t.active = {v \in 1..Tip.last : Tip.self[v] > 0}
  <2> DEFINE a == {v \in 1..Tip.last : Tip.self[v] > 0}
             e == [Tip EXCEPT !.epoch = @ + 1]
             f == [e EXCEPT !.sealing = FALSE]
  <2>1. /\ e \in States /\ e.last = Tip.last /\ e.self = Tip.self /\ e.stake = Tip.stake
        /\ e.done = Tip.done /\ e.epoch = Tip.epoch + 1
    BY <1>2, <1>4 DEF States
  <2> HIDE DEF e
  <2>2. /\ f \in States /\ f.last = Tip.last /\ f.self = Tip.self /\ f.stake = Tip.stake
        /\ f.done = Tip.done /\ f.epoch = Tip.epoch + 1
    BY <2>1 DEF States
  <2>3. t = [f EXCEPT !.active = a]
    BY <1>3 DEF e
  <2> HIDE DEF a, f
  <2>4. a \in SUBSET Nat
    BY <1>4 DEF a
  <2>5. t \in States /\ t.last = Tip.last /\ t.self = Tip.self /\ t.stake = Tip.stake
        /\ t.done = Tip.done /\ t.epoch = Tip.epoch + 1 /\ t.active = a
    BY <2>2, <2>3, <2>4 DEF States
  <2> QED BY <2>5 DEF a
<1>6. Tip.last <= MaxIds /\ Tip.active \subseteq 1..Tip.last
  BY <1>2 DEF Inv, CountInv, HistoryInv, Kept, Types
<1>7. \A v \in 1..Tip.last : Tip.self[v] \in Nat
  BY <1>2, <1>6, Constants DEF States, Ids
<1>8. \A v \in Tip.active : v \in t.active \/ t.self[v] = 0
  BY <1>5, <1>6, <1>7
<1>9. /\ Tip' = t /\ HistoryInv' /\ chain' \in Seq(States) /\ Len(chain') = Len(chain) + 1
  <2>1. chain' = Append(chain, t) /\ Types /\ HistoryInv /\ Tip.last \in Nat
    BY <1>3, <1>4 DEF Inv
  <2>2. /\ Tip.last <= t.last /\ Tip.done \subseteq t.done /\ t.active \subseteq 1..t.last
        /\ \A v \in 1..Tip.last : Tip.self[v] = 0 => t.self[v] = 0
    BY <1>4, <1>5
  <2>3. Tip.epoch \in Nat /\ Tip.epoch <= t.epoch
    BY <1>2, <1>5 DEF States
  <2>4. \A v \in 1..Tip.last : v \in t.active \/ t.self[v] = 0
    BY <1>5, <1>7
  <2> QED BY <1>5, <1>8, <2>1, <2>2, <2>3, <2>4, Grow
<1>10. Types'
  BY <1>1, <1>2, <1>9 DEF Inv, Types
<1>11. CallInv' /\ PlanInv' /\ PoolInv' /\ CountInv' /\ StakeInv' /\ SelfInv'
  BY <1>1, <1>5, <1>9, ZenonT(60) DEF Inv, CallInv, PlanInv, Registering, Joining, PoolInv, IsCalled,
     CountInv, StakeInv, Covered, Changing, Pending, SelfInv, Gone
<1>12. ActiveInv'
  <2> SUFFICES ASSUME result = "running", NEW i \in 1..Len(ids)
               PROVE  (Served(Genesis + i) \/ Gone(Genesis + i))'
    BY <1>1 DEF ActiveInv
  <2>1. Tip.self[Genesis + i] > 0 \/ Gone(Genesis + i)
    BY DEF Inv, SelfInv
  <2>2. Genesis + i \in 1..Tip.last
    BY <1>4, Constants DEF Inv, CountInv, Types
  <2> QED BY <1>1, <1>5, <1>9, <2>1, <2>2 DEF Gone, Pending, Served
<1> QED BY <1>9, <1>10, <1>11, <1>12 DEF Inv

(* The transaction in a block is the one the call waits for. *)
LEMMA Produced ==
  ASSUME Inv, result = "running", NEW tx \in pool, ProduceBlock(tx)
  PROVE  /\ call # NoCall /\ call \in CallsMade /\ call.at = "receipt"
         /\ <<txs, TRUE>> \notin Tip.done /\ txs \in Nat
         /\ tx.id = txs /\ tx.op = call.c.op /\ tx.d = call.c.d /\ tx.v = call.c.v
         /\ tx.amount = call.c.amount /\ Sound(tx) /\ Sound(call.c)
         /\ Tip \in States /\ Tip.last \in Nat
         /\ chain' = Append(chain, Execute(Tip, tx)) /\ pool' = {}
         /\ result' = result /\ plan' = plan /\ call' = call /\ held' = held
         /\ txs' = txs /\ seen' = seen
         /\ steps' = steps /\ ids' = ids /\ left' = left
         /\ excused' = excused /\ expectedStakes' = expectedStakes
<1>1. IsCalled(tx) /\ pool = {tx} /\ txs \in Nat
  BY DEF Inv, PoolInv, Types
<1>2. call # NoCall /\ call.at = "receipt" /\ call \in CallsMade /\ Sound(call.c)
  BY <1>1 DEF Inv, CallInv, IsCalled
<1>3. /\ tx.id = txs /\ tx.op = call.c.op /\ tx.d = call.c.d /\ tx.v = call.c.v
      /\ tx.amount = call.c.amount /\ <<txs, TRUE>> \notin Tip.done
  BY <1>1 DEF IsCalled
<1>4. Sound(tx)
  BY <1>2, <1>3 DEF Sound
<1>5. Tip \in States /\ Tip.last \in Nat
  BY TipState DEF Inv, States
<1>6. /\ chain' = Append(chain, Execute(Tip, tx)) /\ pool' = {}
      /\ result' = result /\ plan' = plan /\ call' = call /\ held' = held
      /\ txs' = txs /\ seen' = seen
      /\ steps' = steps /\ ids' = ids /\ left' = left
      /\ excused' = excused /\ expectedStakes' = expectedStakes
  BY <1>1 DEF ProduceBlock, scenarioVars
<1> QED BY <1>1, <1>2, <1>3, <1>4, <1>5, <1>6

(* Before its transaction is executed, nothing is pending for the call;    *)
(* a transaction that is reverted changes nothing.                         *)
LEMMA RevertedInv ==
  ASSUME Inv, result = "running", NEW tx \in pool, ProduceBlock(tx), ~Accepts(Tip, tx)
  PROVE  Inv'
<1> DEFINE t == Execute(Tip, tx)
<1>1. /\ call # NoCall /\ call \in CallsMade /\ call.at = "receipt"
      /\ <<txs, TRUE>> \notin Tip.done /\ txs \in Nat /\ tx.id = txs
      /\ Sound(tx) /\ Tip \in States /\ Tip.last \in Nat
      /\ chain' = Append(chain, t) /\ pool' = {}
      /\ result' = result /\ plan' = plan /\ call' = call /\ held' = held
      /\ txs' = txs /\ seen' = seen
      /\ steps' = steps /\ ids' = ids /\ left' = left
      /\ excused' = excused /\ expectedStakes' = expectedStakes
  BY Produced
<1>2. /\ t \in States /\ t.last = Tip.last /\ t.self = Tip.self /\ t.stake = Tip.stake
      /\ t.active = Tip.active /\ t.done = Tip.done \union {<<txs, FALSE>>}
      /\ t.epoch = Tip.epoch
  BY <1>1, ExecuteReverted
<1> HIDE DEF t
<1>3. Tip.active \subseteq 1..Tip.last
  BY TipState, SMTT(30) DEF Inv, HistoryInv, Kept, Types
<1>4. Tip' = t /\ HistoryInv' /\ chain' \in Seq(States) /\ Len(chain') = Len(chain) + 1
  <2>1. Types /\ HistoryInv
    BY DEF Inv
  <2>2. /\ t.active \subseteq 1..t.last
        /\ \A v \in Tip.active : v \in t.active \/ t.self[v] = 0
        /\ \A v \in 1..Tip.last : Tip.self[v] = 0 => t.self[v] = 0
    BY <1>2, <1>3
  <2>3. Tip.last <= t.last
    BY <1>1, <1>2
  <2>4. Tip.done \subseteq t.done
    BY <1>2
  <2>5. Tip.epoch \in Nat /\ Tip.epoch <= t.epoch /\ ~(Tip.epoch < t.epoch)
    BY <1>1, <1>2 DEF States
  <2> QED BY <1>1, <1>2, <2>1, <2>2, <2>3, <2>4, <2>5, Grow
<1>5. <<txs, TRUE>> \notin t.done /\ \A p \in t.done : p[1] <= txs
  <2>1. \A p \in Tip.done : p[1] <= txs
    BY DEF Inv, PoolInv
  <2>2. <<txs, FALSE>>[1] <= txs /\ <<txs, FALSE>> # <<txs, TRUE>>
    BY <1>1
  <2> QED BY <1>1, <1>2, <2>1, <2>2
<1>6. Types'
  BY <1>1, <1>4 DEF Inv, Types
<1>7. CallInv' /\ PlanInv' /\ PoolInv'
  BY <1>1, <1>2, <1>4, <1>5 DEF Inv, CallInv, PlanInv, Registering, Joining, PoolInv
<1>s. \A v : Served(v) => Served(v)'
  BY <1>1, <1>2, StillServed DEF Inv
<1>8. CountInv' /\ StakeInv' /\ SelfInv' /\ ActiveInv'
  BY <1>1, <1>2, <1>4, <1>5, <1>s DEF Inv, CountInv, StakeInv, Covered, Changing, Pending,
     SelfInv, ActiveInv, Gone, Fresh, Creates
<1> QED BY <1>4, <1>6, <1>7, <1>8 DEF Inv

(* What the effect of an accepted transaction has to be to keep the parts  *)
(* of the invariant that are not about its operation                       *)
LEMMA Accepted ==
  ASSUME Inv, result = "running", NEW tx \in pool, ProduceBlock(tx), Accepts(Tip, tx),
         NEW e, e = Effect(Tip, tx), e.last \in Nat, Tip.last <= e.last, e.active = Tip.active,
         \A v \in 1..Tip.last : Tip.self[v] = 0 => e.self[v] = 0
  PROVE  /\ Types' /\ HistoryInv' /\ PlanInv' /\ PoolInv'
         /\ Tip'.last = e.last /\ Tip'.self = e.self /\ Tip'.stake = e.stake
         /\ Tip'.active = e.active
         /\ <<txs, TRUE>> \in Tip'.done
         /\ \A v : Served(v) => Served(v)'
<1>1. /\ call # NoCall /\ call \in CallsMade /\ call.at = "receipt"
      /\ <<txs, TRUE>> \notin Tip.done /\ txs \in Nat /\ tx.id = txs
      /\ Sound(tx) /\ Tip \in States /\ Tip.last \in Nat
      /\ chain' = Append(chain, Execute(Tip, tx)) /\ pool' = {}
      /\ result' = result /\ plan' = plan /\ call' = call /\ held' = held
      /\ txs' = txs /\ seen' = seen
      /\ steps' = steps /\ ids' = ids /\ left' = left
      /\ excused' = excused /\ expectedStakes' = expectedStakes
  BY Produced
<1>2. PICK t \in States :
        /\ t = Execute(Tip, tx)
        /\ t.last = e.last /\ t.self = e.self /\ t.stake = e.stake
        /\ t.active = e.active /\ t.done = Tip.done \union {<<txs, TRUE>>}
        /\ t.epoch = Tip.epoch
  BY <1>1, ExecuteAccepted
<1>3. Tip.active \subseteq 1..Tip.last
  BY TipState, SMTT(30) DEF Inv, HistoryInv, Kept, Types
<1>4. Tip' = t /\ HistoryInv' /\ chain' \in Seq(States) /\ Len(chain') = Len(chain) + 1
  <2>1. Types /\ HistoryInv
    BY DEF Inv
  <2>2. /\ \A v \in Tip.active : v \in t.active \/ t.self[v] = 0
        /\ \A v \in 1..Tip.last : Tip.self[v] = 0 => t.self[v] = 0
    BY <1>2, <1>3
  <2>3. Tip.last <= t.last /\ t.active \subseteq 1..t.last
    BY <1>1, <1>2, <1>3
  <2>4. Tip.done \subseteq t.done
    BY <1>2
  <2>5. Tip.epoch \in Nat /\ Tip.epoch <= t.epoch /\ ~(Tip.epoch < t.epoch)
    BY <1>1, <1>2 DEF States
  <2> QED BY <1>1, <1>2, <2>1, <2>2, <2>3, <2>4, <2>5, Grow
<1>5. <<txs, TRUE>> \in t.done /\ \A p \in t.done : p[1] <= txs
  <2>1. \A p \in Tip.done : p[1] <= txs
    BY DEF Inv, PoolInv
  <2>2. <<txs, TRUE>>[1] <= txs
    BY <1>1
  <2> QED BY <1>1, <1>2, <2>1, <2>2
<1>6. Types'
  BY <1>1, <1>4 DEF Inv, Types
<1>7. PlanInv' /\ PoolInv'
  BY <1>1, <1>2, <1>4, <1>5 DEF Inv, PlanInv, Registering, Joining, PoolInv
<1>8. \A v : Served(v) => Served(v)'
  BY <1>1, <1>2, StillServed DEF Inv
<1> QED BY <1>2, <1>4, <1>5, <1>6, <1>7, <1>8

(* Funding, new rules and the wish to end an epoch leave stakes alone. *)
LEMMA OtherAccepted ==
  ASSUME Inv, result = "running", NEW tx \in pool, ProduceBlock(tx), Accepts(Tip, tx),
         tx.op \in {"fund", "advance", "rules"}
  PROVE  Inv'
<1>1. /\ call # NoCall /\ call.at = "receipt" /\ <<txs, TRUE>> \notin Tip.done
      /\ tx.op = call.c.op /\ Sound(tx) /\ Tip \in States /\ Tip.last \in Nat
      /\ result' = result /\ plan' = plan /\ call' = call
      /\ txs' = txs /\ ids' = ids /\ left' = left
      /\ excused' = excused /\ expectedStakes' = expectedStakes
  BY Produced
<1>2. PICK e : /\ e = Effect(Tip, tx) /\ e.last = Tip.last /\ e.self = Tip.self
               /\ e.stake = Tip.stake /\ e.active = Tip.active
  BY <1>1, EffectOther
<1>3. e.last \in Nat /\ Tip.last <= e.last
  BY <1>1, <1>2
<1>4. \A v \in 1..Tip.last : Tip.self[v] = 0 => e.self[v] = 0
  BY <1>2
<1>5. /\ Types' /\ HistoryInv' /\ PlanInv' /\ PoolInv'
      /\ Tip'.last = Tip.last /\ Tip'.self = Tip.self /\ Tip'.stake = Tip.stake
      /\ Tip'.active = Tip.active /\ <<txs, TRUE>> \in Tip'.done
      /\ \A v : Served(v) => Served(v)'
  BY <1>2, <1>3, <1>4, Accepted
<1>6. CallInv'
  BY <1>1, <1>5 DEF Inv, CallInv
<1>7. CountInv' /\ StakeInv' /\ SelfInv' /\ ActiveInv'
  BY <1>1, <1>5 DEF Inv, CountInv, StakeInv, Covered, Changing, Pending,
     SelfInv, ActiveInv, Gone, Fresh, Creates
<1> QED BY <1>5, <1>6, <1>7 DEF Inv

(* A plan that is not at its end is made of calls. *)
LEMMA PlanFacts ==
  ASSUME Types, plan # <<>>
  PROVE  /\ Head(plan) \in Calls /\ Head(plan) = plan[1] /\ Last(plan) \in Calls
         /\ Last(plan) = plan[Len(plan)] /\ Len(plan) \in Nat /\ Len(plan) >= 1
         /\ Tail(plan) \in Seq(Calls) /\ Len(Tail(plan)) = Len(plan) - 1
         /\ \A i \in 1..(Len(plan) - 1) : Tail(plan)[i] = plan[i + 1]
<1>1. plan \in Seq(Calls) /\ Len(plan) \in Nat /\ Len(plan) >= 1
  BY DEF Types
<1>2. Last(plan) = plan[Len(plan)]
  BY DEF Last
<1>3. Head(plan) = plan[1] /\ plan[1] \in Calls /\ plan[Len(plan)] \in Calls
  BY <1>1
<1>4. /\ Tail(plan) \in Seq(Calls) /\ Len(Tail(plan)) = Len(plan) - 1
      /\ \A i \in 1..(Len(plan) - 1) : Tail(plan)[i] = plan[i + 1]
  BY <1>1
<1> QED BY <1>1, <1>2, <1>3, <1>4

(* A call that registers is followed by the check of its step, and there   *)
(* is room for its ID.                                                     *)
LEMMA RoomToRegister ==
  ASSUME Inv, plan # <<>>, Head(plan).op = "create"
  PROVE  /\ Registering /\ Len(plan) \in Nat /\ Len(plan) >= 2 /\ Last(plan).v = 0
         /\ Len(ids) \in Nat /\ Genesis + Len(ids) + 1 <= MaxIds
<1>1. plan \in Seq(Calls) /\ Len(plan) \in Nat /\ Len(plan) >= 1 /\ Len(ids) \in Nat
  BY DEF Inv, Types
<1>2. Head(plan) = plan[1] /\ Last(plan) = plan[Len(plan)]
  BY <1>1 DEF Last
<1>3. ~ \A i \in 1..Len(plan) : Plain(plan[i])
  BY <1>1, <1>2 DEF Plain
<1>4. ~Joining
  BY <1>1, <1>2 DEF Joining
<1>5. Registering
  BY <1>3, <1>4 DEF Inv, PlanInv
<1>6. Len(plan) # 1
  BY <1>1, <1>2, <1>5 DEF Registering
<1>7. Last(plan).v = 0
  BY <1>5, <1>6 DEF Registering
<1>8. Genesis + Len(ids) + Len(plan) - 1 <= MaxIds
  BY <1>5, <1>7 DEF Registering
<1>9. Len(plan) >= 2
  <2>1. \A m \in Nat : m >= 1 /\ m # 1 => m >= 2
    OBVIOUS
  <2> QED BY <1>1, <1>6, <2>1
<1> QED BY <1>1, <1>5, <1>7, <1>8, <1>9, Constants

(* A validator that is registered gets the ID the call asked for. *)
LEMMA CreateAccepted ==
  ASSUME Inv, result = "running", NEW tx \in pool, ProduceBlock(tx), Accepts(Tip, tx),
         tx.op = "create"
  PROVE  Inv'
<1>1. /\ call # NoCall /\ call \in CallsMade /\ call.at = "receipt" /\ <<txs, TRUE>> \notin Tip.done
      /\ tx.op = call.c.op /\ tx.v = call.c.v /\ tx.amount = call.c.amount
      /\ Sound(tx) /\ Tip \in States /\ Tip.last \in Nat
      /\ result' = result /\ plan' = plan /\ call' = call
      /\ txs' = txs /\ ids' = ids /\ left' = left
      /\ excused' = excused /\ expectedStakes' = expectedStakes
  BY Produced
<1>2. PICK e : /\ e = Effect(Tip, tx) /\ e.last = Tip.last + 1
               /\ e.self = [Tip.self EXCEPT ![Tip.last + 1] = tx.amount]
               /\ e.stake = Tip.stake /\ e.active = Tip.active
  BY <1>1, EffectCreate
<1>3. /\ call.c.v \in Nat /\ call.c.v <= Tip.last + 1 /\ call.c.amount > 0 /\ call.c.amount \in Nat
      /\ plan # <<>> /\ Head(plan).op = "create"
  BY <1>1 DEF Inv, CallInv, CallsMade, Calls
<1>4. call.c.v = Tip.last + 1
  <2>1. tx.v > Tip.last
    BY DEF Accepts
  <2> QED BY <1>1, <1>3, <2>1
<1>5. Tip.last = Genesis + Len(ids) /\ Tip.last + 1 <= MaxIds /\ Len(ids) \in Nat
  <2>1. Tip.last = Genesis + Len(ids)
    BY <1>1 DEF Inv, CountInv, Pending
  <2> QED BY <1>3, <2>1, RoomToRegister
<1>6. Tip.self \in [Ids -> Nat] /\ Tip.last + 1 \in Ids
  BY <1>1, <1>5 DEF States, Ids
<1>7. e.self[Tip.last + 1] > 0 /\ \A v \in 1..Tip.last : e.self[v] = Tip.self[v]
  <2>1. \A v \in 1..Tip.last : v \in Ids /\ v # Tip.last + 1
    BY <1>1, <1>5, Constants DEF Ids
  <2>2. tx.amount > 0
    BY <1>1, <1>3
  <2> QED BY <1>2, <1>6, <2>1, <2>2
<1>8. e.last \in Nat /\ Tip.last <= e.last
  BY <1>1, <1>2
<1>9. /\ Types' /\ HistoryInv' /\ PlanInv' /\ PoolInv'
      /\ Tip'.last = Tip.last + 1 /\ Tip'.self = e.self /\ Tip'.stake = Tip.stake
      /\ Tip'.active = Tip.active /\ <<txs, TRUE>> \in Tip'.done
      /\ \A v : Served(v) => Served(v)'
  BY <1>2, <1>7, <1>8, Accepted
<1>10. CallInv'
  BY <1>1, <1>4, <1>8, <1>9 DEF Inv, CallInv
<1>11. CountInv'
  BY <1>1, <1>4, <1>5, <1>7, <1>9, Constants DEF Inv, CountInv, Pending
<1>12. StakeInv'
  BY <1>1, <1>9 DEF Inv, StakeInv, Covered, Changing, Pending
<1>13. \A i \in 1..Len(ids) : e.self[Genesis + i] = Tip.self[Genesis + i]
  BY <1>5, <1>7, Constants
<1>14. SelfInv'
  BY <1>1, <1>9, <1>13 DEF Inv, SelfInv, Gone, Pending
<1>15. ActiveInv'
  BY <1>1, <1>9 DEF Inv, ActiveInv, Gone, Pending, Fresh, Creates
<1> QED BY <1>9, <1>10, <1>11, <1>12, <1>14, <1>15 DEF Inv

(* A delegation covers what will be expected of it, and an undelegation    *)
(* takes what was asked for, or what there was when it was sent.           *)
LEMMA DelegateAccepted ==
  ASSUME Inv, result = "running", NEW tx \in pool, ProduceBlock(tx), Accepts(Tip, tx),
         tx.op \in {"delegate", "undelegate"}
  PROVE  Inv'
<1>1. /\ call # NoCall /\ call \in CallsMade /\ call.at = "receipt" /\ <<txs, TRUE>> \notin Tip.done
      /\ tx.op = call.c.op /\ tx.d = call.c.d /\ tx.v = call.c.v /\ tx.amount = call.c.amount
      /\ Sound(tx) /\ Tip \in States /\ Tip.last \in Nat
      /\ result' = result /\ plan' = plan /\ call' = call
      /\ txs' = txs /\ ids' = ids /\ left' = left
      /\ excused' = excused /\ expectedStakes' = expectedStakes
  BY Produced
<1>2. PICK e : /\ e = Effect(Tip, tx) /\ e.last = Tip.last /\ e.self = Tip.self
               /\ tx.op = "delegate" =>
                    e.stake = [Tip.stake EXCEPT ![<<tx.d, tx.v>>] = @ + tx.amount]
               /\ tx.op = "undelegate" =>
                    e.stake = [Tip.stake EXCEPT ![<<tx.d, tx.v>>] = @ - tx.amount]
               /\ e.active = Tip.active
  BY <1>1, EffectDelegate, EffectUndelegate
<1>3. e.last \in Nat /\ Tip.last <= e.last
  BY <1>1, <1>2
<1>4. \A v \in 1..Tip.last : Tip.self[v] = 0 => e.self[v] = 0
  BY <1>2
<1>5. /\ Types' /\ HistoryInv' /\ PlanInv' /\ PoolInv'
      /\ Tip'.last = Tip.last /\ Tip'.self = Tip.self /\ Tip'.stake = e.stake
      /\ Tip'.active = Tip.active /\ <<txs, TRUE>> \in Tip'.done
      /\ \A v : Served(v) => Served(v)'
  BY <1>2, <1>3, <1>4, Accepted
<1>6. CallInv'
  BY <1>1, <1>5 DEF Inv, CallInv
<1>7. CountInv' /\ SelfInv' /\ ActiveInv'
  BY <1>1, <1>5 DEF Inv, CountInv, Pending, SelfInv, ActiveInv, Gone, Fresh, Creates
<1>8. StakeInv'
  <2> SUFFICES ASSUME NEW k \in Pairs PROVE Covered(k)'
    BY DEF StakeInv
  <2>1. expectedStakes[k] <= Tip.stake[k]
    BY <1>1 DEF Inv, StakeInv, Covered, Changing, Pending
  <2>2. expectedStakes[k] \in Nat /\ Tip.stake[k] \in Nat /\ Tip.stake \in [Pairs -> Nat]
    BY <1>1 DEF Inv, Types, States
  <2>a. call.c.amount \in Nat /\ plan # <<>>
    BY <1>1 DEF Inv, CallInv, CallsMade, Calls
  <2>3. call.c.amount \in Nat /\ plan # <<>> /\ Head(plan).amount \in Nat
    BY <2>a, PlanFacts DEF Inv, Calls
  <2>4. CASE tx.op = "delegate"
    <3>1. k = <<tx.d, tx.v>> => e.stake[k] = Tip.stake[k] + tx.amount
      BY <1>2, <2>2, <2>4
    <3>2. k # <<tx.d, tx.v>> => e.stake[k] = Tip.stake[k]
      BY <1>2, <2>2, <2>4
    <3>3. k = <<tx.d, tx.v>> => expectedStakes[k] + call.c.amount <= e.stake[k]
      BY <1>1, <2>1, <2>2, <2>3, <3>1
    <3> QED BY <1>1, <1>5, <2>1, <2>4, <3>2, <3>3 DEF Covered, Changing, Pending
  <2>5. CASE tx.op = "undelegate"
    <3>1. k = <<tx.d, tx.v>> => e.stake[k] = Tip.stake[k] - tx.amount
      BY <1>2, <2>2, <2>5
    <3>2. k # <<tx.d, tx.v>> => e.stake[k] = Tip.stake[k]
      BY <1>2, <2>2, <2>5
    <3>3. Head(plan).amount = 0 \/ call.c.amount = Head(plan).amount
      BY <1>1, <2>5 DEF Inv, CallInv
    <3>4. k = <<tx.d, tx.v>> =>
            Head(plan).amount = 0 \/ expectedStakes[k] - Head(plan).amount <= e.stake[k]
      BY <1>1, <2>1, <2>2, <2>3, <3>1, <3>3
    <3> QED BY <1>1, <1>5, <2>1, <2>5, <3>2, <3>4 DEF Covered, Changing, Pending
  <2> QED BY <2>4, <2>5
<1> QED BY <1>5, <1>6, <1>7, <1>8 DEF Inv

(* A validator that takes back its stake had some, and counts as gone. *)
LEMMA UnregisterAccepted ==
  ASSUME Inv, result = "running", NEW tx \in pool, ProduceBlock(tx), Accepts(Tip, tx),
         tx.op = "unregister"
  PROVE  Inv'
<1>1. /\ call # NoCall /\ call.at = "receipt" /\ <<txs, TRUE>> \notin Tip.done
      /\ tx.op = call.c.op /\ tx.v = call.c.v
      /\ Sound(tx) /\ Tip \in States /\ Tip.last \in Nat
      /\ result' = result /\ plan' = plan /\ call' = call
      /\ txs' = txs /\ ids' = ids /\ left' = left
      /\ excused' = excused /\ expectedStakes' = expectedStakes
  BY Produced
<1>2. PICK e : /\ e = Effect(Tip, tx) /\ e.last = Tip.last
               /\ e.self = [Tip.self EXCEPT ![tx.v] = @ - tx.amount] /\ 0 < Tip.self[tx.v]
               /\ e.stake = Tip.stake /\ e.active = Tip.active
  BY <1>1, EffectUnregister
<1>3. e.last \in Nat /\ Tip.last <= e.last
  BY <1>1, <1>2
<1>4. Tip.last <= MaxIds /\ Tip.self \in [Ids -> Nat]
  BY <1>1 DEF Inv, CountInv, States
<1>5. \A v \in 1..Tip.last : v # tx.v => e.self[v] = Tip.self[v]
  <2>1. \A v \in 1..Tip.last : v \in Ids
    BY <1>1, <1>4, Constants DEF Ids
  <2> QED BY <1>2, <1>4, <2>1
<1>6. \A v \in 1..Tip.last : Tip.self[v] = 0 => e.self[v] = 0
  BY <1>2, <1>5
<1>7. /\ Types' /\ HistoryInv' /\ PlanInv' /\ PoolInv'
      /\ Tip'.last = Tip.last /\ Tip'.self = e.self /\ Tip'.stake = Tip.stake
      /\ Tip'.active = Tip.active /\ <<txs, TRUE>> \in Tip'.done
      /\ \A v : Served(v) => Served(v)'
  BY <1>2, <1>3, <1>6, Accepted
<1>8. CallInv'
  BY <1>1, <1>7 DEF Inv, CallInv
<1>9. CountInv' /\ StakeInv' /\ ActiveInv'
  BY <1>1, <1>7 DEF Inv, CountInv, StakeInv, Covered, Changing, Pending, ActiveInv, Gone, Fresh,
     Creates
<1>10. \A i \in 1..Len(ids) : Genesis + i # tx.v => e.self[Genesis + i] = Tip.self[Genesis + i]
  <2>1. Genesis + Len(ids) <= Tip.last /\ Len(ids) \in Nat
    BY DEF Inv, CountInv, Types
  <2>2. \A i \in 1..Len(ids) : Genesis + i \in 1..Tip.last
    BY <1>1, <2>1, Constants
  <2> QED BY <1>5, <2>2
<1>11. SelfInv'
  BY <1>1, <1>7, <1>10 DEF Inv, SelfInv, Gone, Pending
<1> QED BY <1>7, <1>8, <1>9, <1>11 DEF Inv

(* A block with the transaction of the call keeps the invariant. *)
LEMMA ProduceBlockInv ==
  ASSUME Inv, result = "running", NEW tx \in pool, ProduceBlock(tx)
  PROVE  Inv'
<1>1. tx.op \in Transactions
  BY Produced DEF Sound
<1>2. CASE ~Accepts(Tip, tx)
  BY <1>2, RevertedInv
<1>3. CASE Accepts(Tip, tx)
  <2>1. CASE tx.op \in {"fund", "advance", "rules"}
    BY <1>3, <2>1, OtherAccepted
  <2>2. CASE tx.op = "create"
    BY <1>3, <2>2, CreateAccepted
  <2>3. CASE tx.op \in {"delegate", "undelegate"}
    BY <1>3, <2>3, DelegateAccepted
  <2>4. CASE tx.op = "unregister"
    BY <1>3, <2>4, UnregisterAccepted
  <2> QED BY <1>1, <2>1, <2>2, <2>3, <2>4 DEF Transactions
<1> QED BY <1>2, <1>3

-----------------------------------------------------------------------------
(* Steps of the executor *)

(* The executor reads the chain and does not change it. *)
LEMMA SameChain ==
  ASSUME Inv, chain' = chain, seen' = seen
  PROVE  /\ Tip' = Tip /\ HistoryInv' /\ chain' \in Seq(States) /\ Len(chain') >= 1
         /\ seen' \in [Nodes -> 1..Len(chain')]
<1>1. Tip' = Tip
  BY DEF Tip, Last
<1> QED BY <1>1 DEF Inv, HistoryInv, Kept, Types

(* What was served on a chain is served on it. *)
LEMMA ServedOn ==
  ASSUME chain' = chain, excused \subseteq excused'
  PROVE  \A v : Served(v) => Served(v)'
<1>1. Tip' = Tip
  BY DEF Tip, Last
<1> QED BY <1>1 DEF Served, Waiting, Sealed

(* What a node shows is a state of the chain that is still true. *)
LEMMA ViewFacts ==
  ASSUME Inv, NEW n \in Nodes
  PROVE  View(n) \in States /\ Kept(View(n))
BY DEF Inv, Types, View, HistoryInv

(* Between two calls nothing is in the pool, and nothing is pending. *)
LEMMA Idle ==
  ASSUME Inv, result = "running", call = NoCall \/ call.at # "receipt"
  PROVE  pool = {} /\ \A op : ~Pending(op)
BY DEF Inv, PoolInv, IsCalled, Pending

(* Where no call is made, the scenario knows all its transactions did. *)
LEMMA IdleFacts ==
  ASSUME Inv, result = "running", call = NoCall
  PROVE  /\ Tip.last = Genesis + Len(ids)
         /\ \A k \in Pairs : expectedStakes[k] <= Tip.stake[k]
         /\ \A i \in 1..Len(ids) : Tip.self[Genesis + i] > 0 \/ Genesis + i \in left
         /\ \A i \in 1..Len(ids) :
              Served(Genesis + i) \/ Genesis + i \in left \/ Fresh(i)
BY Idle DEF Inv, CountInv, StakeInv, Covered, Changing, SelfInv, ActiveInv, Gone

(* And what it knows is enough for the invariant. *)
LEMMA IdleSuffices ==
  ASSUME call' = NoCall, result' = "running",
         Tip'.last = Genesis + Len(ids'),
         \A k \in Pairs : expectedStakes'[k] <= Tip'.stake[k],
         \A i \in 1..Len(ids') : Tip'.self[Genesis + i] > 0 \/ Genesis + i \in left',
         \A i \in 1..Len(ids') :
           Served(Genesis + i)' \/ Genesis + i \in left' \/ Fresh(i)',
         \A i \in 1..Len(ids') : ids'[i] = Genesis + i,
         Tip'.last \in Nat, Tip'.last <= MaxIds
  PROVE  CallInv' /\ CountInv' /\ StakeInv' /\ SelfInv' /\ ActiveInv'
BY DEF CallInv, CountInv, StakeInv, Covered, Changing, SelfInv, ActiveInv, Gone, Pending

(* The calls of a step: they register and then activate, or activate one   *)
(* validator, or are none of these.                                        *)
LEMMA StepPlan ==
  ASSUME NEW s, IsStep(s)
  PROVE  /\ stepPlan(s) \in Seq(Calls) /\ stepPlan(s) # <<>>
         /\ \/ \A i \in 1..Len(stepPlan(s)) : Plain(stepPlan(s)[i])
            \/ /\ Len(stepPlan(s)) = 1 /\ stepPlan(s)[1].op \in {"active", "leftOut"}
               /\ stepPlan(s)[1].v # 0
            \/ /\ s.fn = "startNode" /\ s.v = 0 /\ s.instances \in Nat
               /\ Len(stepPlan(s)) = s.instances + 1
               /\ \A i \in 1..s.instances : stepPlan(s)[i].op = "create"
               /\ \E o \in {"active", "leftOut"} :
                    stepPlan(s)[s.instances + 1] = Call(o, NoOne, 0, s.instances)
<1>o. PICK o \in {"active", "leftOut"} : o = IF s.failing THEN "leftOut" ELSE "active"
  OBVIOUS
<1>1. CASE s.fn = "startNode" /\ s.v = 0
  <2>1. s.instances \in Nat \ {0} /\ s.amount \in Nat
    BY <1>1 DEF IsStep
  <2>2. PICK c : c = Call("create", NoOne, 0, s.amount)
    OBVIOUS
  <2>3. PICK a : a = Call(o, NoOne, 0, s.instances)
    OBVIOUS
  <2>4. c \in Calls /\ a \in Calls /\ c.op = "create"
    BY <2>1, <2>2, <2>3 DEF Call, Calls, Ops, Transactions, Readers
  <2>5. stepPlan(s) = [i \in 1..s.instances |-> c] \o <<a>>
    BY <1>1, <1>o, <2>2, <2>3 DEF stepPlan, execStartNode
  <2>6. [i \in 1..s.instances |-> c] \in Seq(Calls) /\ <<a>> \in Seq(Calls)
    BY <2>1, <2>4
  <2>7. /\ Len([i \in 1..s.instances |-> c]) = s.instances
        /\ Len(<<a>>) = 1 /\ <<a>>[1] = a
    BY <2>1
  <2>8. /\ stepPlan(s) \in Seq(Calls) /\ Len(stepPlan(s)) = s.instances + 1
        /\ \A i \in 1..s.instances : stepPlan(s)[i] = c
        /\ stepPlan(s)[s.instances + 1] = a
    BY <2>1, <2>5, <2>6, <2>7
  <2> QED BY <1>1, <2>1, <2>3, <2>4, <2>8
<1>2. CASE s.fn = "startNode" /\ s.v # 0
  <2>1. s.v \in Nat
    BY <1>2 DEF IsStep
  <2>2. stepPlan(s) = <<Call(o, NoOne, s.v, 0)>>
    BY <1>2, <1>o DEF stepPlan, execStartNode
  <2>3. Call(o, NoOne, s.v, 0) \in Calls
    BY <2>1 DEF Call, Calls, Ops, Readers
  <2>4. Call(o, NoOne, s.v, 0).op = o /\ Call(o, NoOne, s.v, 0).v # 0
    BY <1>2 DEF Call
  <2> QED BY <2>2, <2>3, <2>4
<1>3. CASE s.fn = "delegate"
  <2>1. s.d \in Delegators /\ s.v \in Nat /\ s.amount \in Nat
    BY <1>3 DEF IsStep
  <2>2. PICK f : f = Call("fund", s.d, s.v, s.amount + delegatorGasBudget)
    OBVIOUS
  <2>3. PICK g : g = Call("delegate", s.d, s.v, s.amount)
    OBVIOUS
  <2>4. stepPlan(s) = <<f, g>>
    BY <1>3, <2>2, <2>3 DEF stepPlan, execDelegate
  <2>5. f \in Calls /\ g \in Calls /\ Plain(f) /\ Plain(g)
    BY <2>1, <2>2, <2>3 DEF Call, Calls, Ops, Transactions, Plain, delegatorGasBudget
  <2> QED BY <2>4, <2>5
<1>4. CASE s.fn = "undelegate"
  <2>1. s.d \in Delegators \union {NoOne} /\ s.v \in Nat /\ s.amount \in Nat
    BY <1>4 DEF IsStep
  <2>2. PICK f : f = Call(IF s.d = NoOne THEN "unregister" ELSE "undelegate", s.d, s.v, s.amount)
    OBVIOUS
  <2>3. stepPlan(s) = <<f>>
    BY <1>4, <2>2 DEF stepPlan, execUndelegate
  <2>4. f \in Calls /\ Plain(f)
    BY <2>1, <2>2 DEF Call, Calls, Ops, Transactions, Plain
  <2> QED BY <2>3, <2>4
<1>5. CASE s.fn \in {"advance", "rules", "verifyStakes", "waitForEpoch"}
  <2>1. PICK f : f = Call(s.fn, NoOne, 0, 0)
    OBVIOUS
  <2>2. stepPlan(s) = <<f>>
    BY <1>5, <2>1 DEF stepPlan
  <2>3. f \in Calls /\ Plain(f)
    BY <1>5, <2>1 DEF Call, Calls, Ops, Transactions, Readers, Plain
  <2> QED BY <2>2, <2>3
<1> QED BY <1>1, <1>2, <1>3, <1>4, <1>5 DEF IsStep

(* A step is planned between two steps. *)
LEMMA NextStepInv ==
  ASSUME Inv, steps < Len(Steps), NEW s \in Steps[steps + 1], NextStep(s)
  PROVE  Inv'
<1>1. /\ result = "running" /\ plan = <<>> /\ plan' = stepPlan(s) /\ steps' = steps + 1
      /\ chain' = chain /\ pool' = pool /\ seen' = seen /\ txs' = txs /\ result' = result
      /\ call' = call /\ held' = held /\ ids' = ids /\ left' = left
      /\ excused' = excused /\ expectedStakes' = expectedStakes
      /\ s.fn = "startNode" /\ s.v = 0 => Genesis + Len(ids) + s.instances <= MaxIds
  BY DEF NextStep, AtBoundary, chainVars
<1>2. call = NoCall
  BY <1>1 DEF Inv, CallInv
<1>3. steps \in Nat /\ steps + 1 \in 1..Len(Steps) /\ steps' \in 0..Len(Steps) /\ IsStep(s)
  <2>1. steps \in 0..Len(Steps) /\ Len(Steps) \in Nat
    BY Constants DEF Inv, Types
  <2>2. steps + 1 \in 1..Len(Steps) /\ steps \in Nat
    BY <2>1
  <2> QED BY <1>1, <2>1, <2>2, StakingAssumption
<1>4. /\ Tip' = Tip /\ HistoryInv' /\ chain' \in Seq(States) /\ Len(chain') >= 1
      /\ seen' \in [Nodes -> 1..Len(chain')]
  BY <1>1, SameChain
<1>5. plan' \in Seq(Calls) /\ plan' # <<>>
  BY <1>1, <1>3, StepPlan
<1>6. Types'
  BY <1>1, <1>3, <1>4, <1>5 DEF Inv, Types
<1>7. PlanInv'
  <2>1. CASE \A i \in 1..Len(stepPlan(s)) : Plain(stepPlan(s)[i])
    BY <1>1, <2>1 DEF PlanInv
  <2>2. CASE /\ Len(stepPlan(s)) = 1 /\ stepPlan(s)[1].op \in {"active", "leftOut"}
             /\ stepPlan(s)[1].v # 0
    <3>1. Registering'
      BY <1>1, <1>5, <2>2 DEF Registering, Last
    <3> QED BY <3>1 DEF PlanInv
  <2>3. CASE /\ s.fn = "startNode" /\ s.v = 0 /\ s.instances \in Nat
             /\ Len(stepPlan(s)) = s.instances + 1
             /\ \A i \in 1..s.instances : stepPlan(s)[i].op = "create"
             /\ \E o \in {"active", "leftOut"} :
                  stepPlan(s)[s.instances + 1] = Call(o, NoOne, 0, s.instances)
    <3>1. /\ plan'[s.instances + 1].op \in {"active", "leftOut"} /\ plan'[s.instances + 1].v = 0
          /\ plan'[s.instances + 1].amount = s.instances
      BY <1>1, <2>3 DEF Call
    <3>2. Len(plan') = s.instances + 1 /\ Len(plan') - 1 = s.instances /\ Len(ids) \in Nat
      BY <1>1, <2>3 DEF Inv, Types
    <3>3. Last(plan') = plan'[s.instances + 1]
      BY <3>2 DEF Last
    <3>4. \A i \in 1..(Len(plan') - 1) : plan'[i].op = "create"
      BY <1>1, <2>3, <3>2
    <3>5. /\ Len(plan') - 1 <= s.instances
          /\ s.instances <= Len(ids) + Len(plan') - 1
          /\ Genesis + Len(ids) + Len(plan') - 1 <= MaxIds
      BY <1>1, <2>3, <3>2, Constants
    <3>6. Registering'
      BY <1>1, <1>5, <3>1, <3>3, <3>4, <3>5 DEF Registering
    <3> QED BY <3>6 DEF PlanInv
  <2> QED BY <1>3, <2>1, <2>2, <2>3, StepPlan
<1>8. PoolInv'
  BY <1>1, <1>2, <1>4, Idle DEF Inv, PoolInv
<1>9. \A i \in 1..Len(ids) : ~Fresh(i)
  BY <1>1 DEF Fresh
<1>10. CallInv' /\ CountInv' /\ StakeInv' /\ SelfInv' /\ ActiveInv'
  <2>1. \A i \in 1..Len(ids) : Served(Genesis + i) \/ Genesis + i \in left
    BY <1>1, <1>2, <1>9, IdleFacts
  <2>2. Tip.last \in Nat /\ Tip.last <= MaxIds /\ \A i \in 1..Len(ids) : ids[i] = Genesis + i
    BY TipState DEF Inv, CountInv, States
  <2>3. \A v : Served(v) => Served(v)'
    BY <1>1, ServedOn
  <2> QED BY <1>1, <1>2, <1>4, <2>1, <2>2, <2>3, IdleFacts, IdleSuffices
<1> QED BY <1>4, <1>6, <1>7, <1>8, <1>10 DEF Inv

(* A scenario completes between two steps. *)
LEMMA CompleteInv == Inv /\ Complete => Inv'
<1> SUFFICES ASSUME Inv, Complete PROVE Inv'
  OBVIOUS
<1>1. /\ result = "running" /\ plan = <<>> /\ result' = "ok" /\ plan' = plan
      /\ chain' = chain /\ pool' = pool /\ seen' = seen /\ txs' = txs /\ steps' = steps
      /\ call' = call /\ held' = held /\ ids' = ids /\ left' = left
      /\ excused' = excused /\ expectedStakes' = expectedStakes
  BY DEF Complete, AtBoundary, chainVars
<1>2. call = NoCall
  BY <1>1 DEF Inv, CallInv
<1>3. /\ Tip' = Tip /\ HistoryInv' /\ chain' \in Seq(States) /\ Len(chain') >= 1
      /\ seen' \in [Nodes -> 1..Len(chain')]
  BY <1>1, SameChain
<1>4. Types'
  BY <1>1, <1>3 DEF Inv, Types
<1>5. CallInv' /\ PlanInv' /\ PoolInv'
  BY <1>1, <1>2, <1>3 DEF Inv, CallInv, PlanInv, PoolInv
<1>6. CountInv' /\ StakeInv' /\ SelfInv' /\ ActiveInv'
  BY <1>1, <1>2, <1>3 DEF Inv, CountInv, Pending, StakeInv, SelfInv, ActiveInv
<1> QED BY <1>3, <1>4, <1>5, <1>6 DEF Inv

(* A call that has not sent anything changes nothing of what is known. *)
LEMMA CallBegins ==
  ASSUME Inv, Ready, call' \in CallsMade, call'.at \in {"send", "change"}, CallInv',
         chain' = chain, pool' = pool, seen' = seen, txs' = txs, result' = result,
         steps' = steps, plan' = plan, held' = held, ids' = ids, left' = left,
         excused' = excused, expectedStakes' = expectedStakes
  PROVE  Inv'
<1>1. result = "running" /\ plan # <<>> /\ call = NoCall
  BY DEF Ready
<1>2. /\ Tip' = Tip /\ HistoryInv' /\ chain' \in Seq(States) /\ Len(chain') >= 1
      /\ seen' \in [Nodes -> 1..Len(chain')]
  BY SameChain
<1>3. Types'
  BY <1>2 DEF Inv, Types
<1>4. PlanInv'
  BY DEF Inv, PlanInv, Registering, Joining
<1>5. pool = {} /\ \A op : ~Pending(op)
  BY <1>1, Idle
<1>6. PoolInv'
  BY <1>2, <1>5 DEF Inv, PoolInv
<1>7. \A op : ~Pending(op)'
  BY DEF Pending
<1>s. \A v : Served(v) => Served(v)'
  BY ServedOn
<1>8. CountInv' /\ StakeInv' /\ SelfInv' /\ ActiveInv'
  BY <1>1, <1>2, <1>5, <1>7, <1>s DEF Inv, CountInv, StakeInv, Covered, Changing, SelfInv, ActiveInv,
     Gone, Fresh, Creates
<1> QED BY <1>2, <1>3, <1>4, <1>6, <1>8 DEF Inv

(* WaitForEpochChange reads the epoch of its node. *)
LEMMA WaitForEpochInv ==
  ASSUME Inv, NEW n \in Nodes, WaitForEpochChange(n)
  PROVE  Inv'
<1>1. /\ Ready /\ Head(plan).op = "waitForEpoch"
      /\ call' = [at |-> "change", node |-> n, epoch |-> View(n).epoch, c |-> Head(plan)]
      /\ chain' = chain /\ pool' = pool /\ seen' = seen /\ txs' = txs /\ result' = result
      /\ steps' = steps /\ plan' = plan /\ held' = held /\ ids' = ids /\ left' = left
      /\ excused' = excused /\ expectedStakes' = expectedStakes
  BY DEF WaitForEpochChange, chainVars
<1>2. Head(plan) \in Calls /\ View(n).epoch \in Nat /\ result = "running" /\ plan # <<>>
  BY <1>1, PlanFacts, ViewFacts DEF Inv, Ready, States
<1>3. call' \in CallsMade /\ call'.at = "change" /\ call'.c = Head(plan)
  BY <1>1, <1>2 DEF CallsMade
<1>4. CallInv'
  BY <1>1, <1>2, <1>3 DEF CallInv
<1> QED BY <1>1, <1>3, <1>4, CallBegins

(* A call that registers, delegates or undelegates knows its validator,    *)
(* and reads an ID or an amount that the chain had once.                   *)
LEMMA PreparedFacts ==
  ASSUME Inv, NEW n \in Nodes, Ready, NEW c, c = Head(plan), c.op \in Transactions,
         resolveValidatorId(c)
  PROVE  /\ Prepared(c, View(n)) \in Calls /\ Sound(Prepared(c, View(n)))
         /\ Prepared(c, View(n)).op = c.op /\ Prepared(c, View(n)).d = c.d
         /\ c.op = "create" => /\ Prepared(c, View(n)).v <= Tip.last + 1
                               /\ Prepared(c, View(n)).amount > 0
         /\ c.op = "undelegate" => c.amount = 0 \/ Prepared(c, View(n)).amount = c.amount
<1>1. c \in Calls /\ plan # <<>> /\ result = "running"
  BY PlanFacts DEF Inv, Ready
<1>2. PICK w \in States : w = View(n) /\ w.last <= Tip.last
  BY ViewFacts DEF Kept
<1>3. Tip.last \in Nat /\ w.last \in Nat /\ w.self \in [Ids -> Nat] /\ w.stake \in [Pairs -> Nat]
  BY TipState DEF Inv, States
<1>4. c.op \in {"fund", "delegate", "undelegate", "unregister"} => c.v \in Ids
  <2>1. \A i \in 1..Len(ids) : ids[i] = Genesis + i
    BY DEF Inv, CountInv
  <2>2. Genesis + Len(ids) <= MaxIds /\ Len(ids) \in Nat
    BY <1>3, Constants DEF Inv, CountInv, Types
  <2>3. DOMAIN ids = 1..Len(ids)
    BY DEF Inv, Types
  <2>4. \A i \in 1..Len(ids) : ids[i] \in Ids
    BY <2>1, <2>2, Constants DEF Ids
  <2>5. 1..Genesis \subseteq Ids
    BY Constants DEF Ids
  <2> QED BY <2>3, <2>4, <2>5 DEF resolveValidatorId, Range
<1>5. c.op \in {"fund", "delegate", "undelegate"} => c.d \in Delegators
  <2>1. SUFFICES ASSUME c.op \in {"fund", "delegate", "undelegate"} PROVE c.d \in Delegators
    OBVIOUS
  <2>2. Head(plan) = plan[1] /\ Len(plan) \in Nat /\ Len(plan) >= 1 /\ Last(plan) = plan[Len(plan)]
    BY <1>1, PlanFacts DEF Inv
  <2>3. CASE \A i \in 1..Len(plan) : Plain(plan[i])
    BY <2>1, <2>2, <2>3 DEF Plain
  <2>4. CASE Registering
    BY <2>1, <2>2, <2>4 DEF Registering
  <2>5. CASE Joining
    BY <2>1, <2>2, <2>5 DEF Joining
  <2> QED BY <2>3, <2>4, <2>5 DEF Inv, PlanInv
<1>6. CASE c.op = "create"
  <2>1. PICK m \in Nat : m > 0 /\ m = IF c.amount = 0 THEN defaultStakePerValidator ELSE c.amount
    BY <1>1 DEF Calls, defaultStakePerValidator
  <2>2. Prepared(c, w) = [c EXCEPT !.v = w.last + 1, !.amount = m]
    BY <1>6, <2>1 DEF Prepared, RegisterValidatorNode
  <2>3. w.last + 1 \in Nat /\ w.last + 1 <= Tip.last + 1
    BY <1>2, <1>3
  <2>4. /\ Prepared(c, w) \in Calls /\ Prepared(c, w).op = c.op /\ Prepared(c, w).d = c.d
        /\ Prepared(c, w).v = w.last + 1 /\ Prepared(c, w).amount = m
    BY <1>1, <2>2, <2>3 DEF Calls
  <2> QED BY <1>2, <1>6, <2>1, <2>3, <2>4 DEF Sound
<1>7. CASE c.op = "unregister"
  <2>1. PICK m \in Nat : m = IF c.amount = 0 THEN w.self[c.v] ELSE c.amount
    BY <1>1, <1>3, <1>4, <1>7 DEF Calls
  <2>2. Prepared(c, w) = [c EXCEPT !.amount = m]
    BY <1>7, <2>1 DEF Prepared, UnregisterValidatorNode
  <2>3. /\ Prepared(c, w) \in Calls /\ Prepared(c, w).op = c.op /\ Prepared(c, w).d = c.d
        /\ Prepared(c, w).v = c.v /\ Prepared(c, w).amount = m
    BY <1>1, <2>2 DEF Calls
  <2> QED BY <1>1, <1>2, <1>4, <1>7, <2>3 DEF Sound, Calls
<1>8. CASE c.op = "undelegate"
  <2>1. <<c.d, c.v>> \in Pairs
    BY <1>4, <1>5, <1>8 DEF Pairs
  <2>2. PICK m \in Nat : m = IF c.amount = 0 THEN w.stake[<<c.d, c.v>>] ELSE c.amount
    BY <1>1, <1>3, <2>1 DEF Calls
  <2>3. Prepared(c, w) = [c EXCEPT !.amount = m]
    BY <1>8, <2>2 DEF Prepared, UndelegateFromValidator
  <2>4. /\ Prepared(c, w) \in Calls /\ Prepared(c, w).op = c.op /\ Prepared(c, w).d = c.d
        /\ Prepared(c, w).v = c.v /\ Prepared(c, w).amount = m
    BY <1>1, <2>3 DEF Calls
  <2> QED BY <1>1, <1>2, <1>4, <1>5, <1>8, <2>2, <2>4 DEF Sound, Calls
<1>9. CASE c.op \notin {"create", "unregister", "undelegate"}
  <2>1. Prepared(c, w) = c
    BY <1>9 DEF Prepared
  <2> QED BY <1>1, <1>2, <1>4, <1>5, <1>9, <2>1 DEF Sound, Calls
<1> QED BY <1>6, <1>7, <1>8, <1>9

(* A call that sends a transaction begins with what a node shows. *)
LEMMA BeginCallInv ==
  ASSUME Inv, NEW n \in Nodes, BeginCall(n)
  PROVE  Inv'
<1>1. PICK c : c = Head(plan)
  OBVIOUS
<1>2. PICK d : d = Prepared(c, View(n))
  OBVIOUS
<1>3. /\ Ready /\ c.op \in Transactions /\ resolveValidatorId(c)
      /\ call' = [at |-> "send", node |-> n, epoch |-> View(n).epoch, c |-> d]
      /\ chain' = chain /\ pool' = pool /\ seen' = seen /\ txs' = txs /\ result' = result
      /\ steps' = steps /\ plan' = plan /\ held' = held /\ ids' = ids /\ left' = left
      /\ excused' = excused /\ expectedStakes' = expectedStakes
  BY <1>1, <1>2 DEF BeginCall, isKnown, chainVars
<1>4. /\ d \in Calls /\ Sound(d) /\ d.op = c.op /\ d.d = c.d
      /\ c.op = "create" => d.v <= Tip.last + 1 /\ d.amount > 0
      /\ c.op = "undelegate" => c.amount = 0 \/ d.amount = c.amount
  BY <1>1, <1>2, <1>3, PreparedFacts
<1>5. View(n).epoch \in Nat /\ result = "running" /\ plan # <<>>
  BY <1>3, ViewFacts DEF Ready, States
<1>6. call' \in CallsMade /\ call'.at = "send" /\ call'.c = d
  BY <1>3, <1>4, <1>5 DEF CallsMade
<1>7. Tip' = Tip
  BY <1>3, SameChain
<1>8. CallInv'
  BY <1>1, <1>3, <1>4, <1>5, <1>6, <1>7 DEF CallInv
<1> QED BY <1>3, <1>6, <1>8, CallBegins

(* A transaction is sent: it is the only one, and not executed yet. *)
LEMMA SendInv == Inv /\ SendTransaction => Inv'
<1> SUFFICES ASSUME Inv, SendTransaction PROVE Inv'
  OBVIOUS
<1>1. PICK tx : /\ pool' = pool \union {tx}
                /\ tx.id = txs + 1 /\ tx.op = call.c.op /\ tx.d = call.c.d /\ tx.v = call.c.v
                /\ tx.amount = call.c.amount
  <2> DEFINE t == [id |-> txs + 1, node |-> call.node, from |-> From(call.c),
                   nonce |-> PendingNonceAt(call.node, From(call.c)),
                   op |-> call.c.op, d |-> call.c.d, v |-> call.c.v, amount |-> call.c.amount]
  <2>1. /\ t.id = txs + 1 /\ t.op = call.c.op /\ t.d = call.c.d /\ t.v = call.c.v
        /\ t.amount = call.c.amount
    OBVIOUS
  <2>2. pool' = pool \union {t}
    BY DEF SendTransaction
  <2> HIDE DEF t
  <2> QED BY <2>1, <2>2
<1>2. /\ call # NoCall /\ call.at = "send" /\ call' = [call EXCEPT !.at = "receipt"]
      /\ txs' = txs + 1 /\ chain' = chain /\ seen' = seen /\ result' = result
      /\ steps' = steps /\ plan' = plan /\ held' = held /\ ids' = ids /\ left' = left
      /\ excused' = excused /\ expectedStakes' = expectedStakes
  BY DEF SendTransaction
<1>3. call \in CallsMade /\ result = "running" /\ Sound(call.c) /\ txs \in Nat
  BY <1>2 DEF Inv, CallInv, Types
<1>4. call' \in CallsMade /\ call'.at = "receipt" /\ call'.c = call.c
  BY <1>2, <1>3 DEF CallsMade
<1>5. /\ Tip' = Tip /\ HistoryInv' /\ chain' \in Seq(States) /\ Len(chain') >= 1
      /\ seen' \in [Nodes -> 1..Len(chain')]
  BY <1>2, SameChain
<1>6. Types'
  BY <1>2, <1>3, <1>5 DEF Inv, Types
<1>7. pool = {} /\ \A op : ~Pending(op)
  BY <1>2, <1>3, Idle
<1>8. \A p \in Tip.done : p[1] <= txs /\ p[1] \in Nat
  <2>1. Tip.done \subseteq Marks
    BY TipState DEF Inv, States
  <2> QED BY <2>1 DEF Inv, PoolInv, Marks
<1>9. <<txs + 1, TRUE>> \notin Tip.done /\ \A p \in Tip.done : p[1] <= txs + 1
  <2>1. <<txs + 1, TRUE>>[1] = txs + 1 /\ ~(txs + 1 <= txs)
    BY <1>3
  <2>2. \A m \in Nat : m <= txs => m <= txs + 1
    BY <1>3
  <2> QED BY <1>8, <2>1, <2>2
<1>10. call' # NoCall
  BY <1>4 DEF NoCall
<1>11. CallInv' /\ PlanInv'
  BY <1>2, <1>3, <1>4, <1>5 DEF Inv, CallInv, PlanInv, Registering, Joining
<1>12. PoolInv'
  BY <1>1, <1>2, <1>4, <1>5, <1>7, <1>9, <1>10 DEF PoolInv, IsCalled
<1>13. \A op : ~Pending(op)'
  BY <1>2, <1>5, <1>9 DEF Pending
<1>s. \A v : Served(v) => Served(v)'
  BY <1>2, ServedOn
<1>14. CountInv' /\ StakeInv' /\ SelfInv' /\ ActiveInv'
  BY <1>2, <1>3, <1>5, <1>7, <1>13, <1>s DEF Inv, CountInv, StakeInv, Covered, Changing, SelfInv,
     ActiveInv, Gone, Fresh, Creates
<1> QED BY <1>5, <1>6, <1>11, <1>12, <1>14 DEF Inv

(* A receipt is on the chain, also when the node that shows it is behind. *)
LEMMA ReceiptFacts ==
  ASSUME Inv, Receipt(TRUE)
  PROVE  /\ call # NoCall /\ call \in CallsMade /\ call.at = "receipt" /\ Sound(call.c)
         /\ result = "running" /\ plan # <<>> /\ <<txs, TRUE>> \in Tip.done /\ pool = {}
         /\ call.c.op = Head(plan).op /\ Pending(call.c.op)
<1>1. call # NoCall /\ call.at = "receipt" /\ <<txs, TRUE>> \in View(call.node).done
  BY DEF Receipt
<1>2. /\ call \in CallsMade /\ result = "running" /\ plan # <<>> /\ Sound(call.c)
      /\ call.c.op = Head(plan).op
  BY <1>1 DEF Inv, CallInv
<1>3. call.node \in Nodes
  BY <1>2 DEF CallsMade
<1>4. <<txs, TRUE>> \in Tip.done
  BY <1>1, <1>3, ViewFacts DEF Kept
<1>5. pool = {}
  BY <1>2, <1>4 DEF Inv, PoolInv, IsCalled
<1> QED BY <1>1, <1>2, <1>4, <1>5 DEF Pending

(* AdvanceEpoch goes on to wait for its epoch. *)
LEMMA EpochWaitInv ==
  ASSUME Inv, Receipt(TRUE), call.c.op = "advance", call' = [call EXCEPT !.at = "epoch"],
         UNCHANGED <<chainVars, seen, txs, result, steps, plan, held, ids, left, excused, expectedStakes>>
  PROVE  Inv'
<1>1. /\ chain' = chain /\ pool' = pool /\ seen' = seen /\ txs' = txs /\ result' = result
      /\ steps' = steps /\ plan' = plan /\ held' = held /\ ids' = ids /\ left' = left
      /\ excused' = excused /\ expectedStakes' = expectedStakes
  BY DEF chainVars
<1>2. /\ call # NoCall /\ call \in CallsMade /\ call.at = "receipt" /\ Sound(call.c)
      /\ result = "running" /\ plan # <<>> /\ pool = {}
  BY ReceiptFacts
<1>3. call' \in CallsMade /\ call'.at = "epoch" /\ call'.c = call.c
  BY <1>2 DEF CallsMade
<1>4. /\ Tip' = Tip /\ HistoryInv' /\ chain' \in Seq(States) /\ Len(chain') >= 1
      /\ seen' \in [Nodes -> 1..Len(chain')]
  BY <1>1, SameChain
<1>5. Types'
  BY <1>1, <1>4 DEF Inv, Types
<1>6. CallInv' /\ PlanInv' /\ PoolInv'
  BY <1>1, <1>2, <1>3, <1>4 DEF Inv, CallInv, PlanInv, Registering, Joining, PoolInv
<1>7. \A op : ~Pending(op)'
  BY <1>3 DEF Pending
<1>8. \A op : Pending(op) => op = "advance"
  BY DEF Pending
<1>s. \A v : Served(v) => Served(v)'
  BY <1>1, ServedOn
<1>9. CountInv' /\ StakeInv' /\ SelfInv' /\ ActiveInv'
  BY <1>1, <1>2, <1>4, <1>7, <1>8, <1>s DEF Inv, CountInv, StakeInv, Covered, Changing, SelfInv,
     ActiveInv, Gone, Fresh, Creates
<1> QED BY <1>4, <1>5, <1>6, <1>9 DEF Inv

(* The rest of a plan is a plan, and what its step has yet to see to stays *)
(* so until it does.                                                       *)
LEMMA TailPlan ==
  ASSUME Inv, plan # <<>>, plan' = Tail(plan), ids' = ids, Head(plan).op # "create"
  PROVE  /\ plan' \in Seq(Calls) /\ PlanInv'
         /\ \A i \in 1..Len(ids) :
              Fresh(i) /\ Head(plan).op \notin {"active", "leftOut", "joined"} => Fresh(i)'
<1>1. /\ Head(plan) = plan[1] /\ Last(plan) = plan[Len(plan)] /\ Len(plan) \in Nat /\ Len(plan) >= 1
      /\ plan' \in Seq(Calls) /\ Len(plan') = Len(plan) - 1
      /\ \A i \in 1..(Len(plan) - 1) : plan'[i] = plan[i + 1]
  BY PlanFacts DEF Inv
<1>2. CASE \A i \in 1..Len(plan) : Plain(plan[i])
  <2>1. \A i \in 1..Len(plan') : Plain(plan[i])'
    <3> SUFFICES ASSUME NEW i \in 1..Len(plan') PROVE Plain(plan'[i])
      BY DEF Plain
    <3>1. i \in 1..(Len(plan) - 1) /\ i + 1 \in 1..Len(plan)
      BY <1>1
    <3> QED BY <1>1, <1>2, <3>1
  <2>2. PlanInv'
    BY <2>1 DEF PlanInv
  <2>3. Plain(Last(plan))
    BY <1>1, <1>2
  <2>4. \A i \in 1..Len(ids) : ~Fresh(i)
    BY <2>3 DEF Fresh, Plain
  <2> QED BY <1>1, <2>2, <2>4
<1>3. CASE Registering
  <2>1. Len(plan) = 1
    <3>1. SUFFICES ASSUME Len(plan) # 1 PROVE FALSE
      OBVIOUS
    <3>2. \A m \in Nat : m >= 1 /\ m # 1 => 1 \in 1..(m - 1)
      OBVIOUS
    <3>3. 1 \in 1..(Len(plan) - 1)
      BY <1>1, <3>1, <3>2
    <3> QED BY <1>1, <1>3, <3>3 DEF Registering
  <2>2. Len(plan') = 0 /\ Head(plan).op \in {"active", "leftOut"}
    BY <1>1, <1>3, <2>1 DEF Registering
  <2>3. \A i \in 1..Len(plan') : Plain(plan'[i])
    <3>1. \A i \in 1..0 : FALSE
      OBVIOUS
    <3> QED BY <2>2, <3>1
  <2>4. PlanInv'
    BY <2>3 DEF PlanInv, Plain
  <2> QED BY <1>1, <2>2, <2>4
<1>4. CASE Joining
  <2>1. CASE Len(plan) = 1
    <3>1. Len(plan') = 0 /\ Head(plan).op = "joined"
      BY <1>1, <1>4, <2>1 DEF Joining
    <3>2. \A i \in 1..Len(plan') : Plain(plan'[i])
      <4>1. \A i \in 1..0 : FALSE
        OBVIOUS
      <4> QED BY <3>1, <4>1
    <3>3. PlanInv'
      BY <3>2 DEF PlanInv, Plain
    <3> QED BY <1>1, <3>1, <3>3
  <2>2. CASE Len(plan) = 2
    <3>0. 1 \in 1..(Len(plan) - 1) /\ Len(plan) - 1 = 1 /\ 1 + 1 = 2
      BY <2>2
    <3>1. Len(plan') = 1 /\ plan'[1] = plan[2] /\ plan' # <<>>
      <4>1. plan'[1] = plan[1 + 1] /\ Len(plan') = 1
        BY <1>1, <3>0
      <4>2. plan' # <<>>
        <5>1. Len(<<>>) # 1
          OBVIOUS
        <5> QED BY <4>1, <5>1
      <4> QED BY <3>0, <4>1, <4>2
    <3>2. Last(plan') = Last(plan) /\ Head(plan') = Last(plan)
      BY <1>1, <2>2, <3>1 DEF Last
    <3>3. Last(plan).op = "joined" /\ (Last(plan).v = 0 => Last(plan).amount <= Len(ids))
      BY <1>4 DEF Joining
    <3>4. Joining'
      BY <3>1, <3>2, <3>3 DEF Joining
    <3>5. Creates = 0 /\ Creates' = 0
      BY <3>2, <3>3 DEF Creates
    <3>6. \A i \in 1..Len(ids) : Fresh(i) => Fresh(i)'
      BY <3>1, <3>2, <3>5 DEF Fresh
    <3> QED BY <1>1, <3>4, <3>6 DEF PlanInv
  <2> QED BY <1>4, <2>1, <2>2 DEF Joining
<1> QED BY <1>2, <1>3, <1>4 DEF Inv, PlanInv

(* A call ends: what it remembers is what the chain has. *)
LEMMA CallEnds ==
  ASSUME Inv, result = "running", plan # <<>>, Head(plan).op # "create",
         pool = {}, call' = NoCall, plan' = Tail(plan), ids' = ids, ~Pending("create"),
         chain' = chain, pool' = pool, seen' = seen, txs' = txs, result' = result,
         steps' = steps, held' \subseteq Nodes,
         left' \subseteq Ids, excused \subseteq excused', excused' \subseteq Nat,
         expectedStakes' \in [Pairs -> Nat],
         \A k \in Pairs : expectedStakes'[k] <= Tip.stake[k],
         \A i \in 1..Len(ids) : Tip.self[Genesis + i] > 0 \/ Genesis + i \in left',
         \A i \in 1..Len(ids) :
           \/ Served(Genesis + i)' \/ Genesis + i \in left'
           \/ Fresh(i) /\ Head(plan).op \notin {"active", "leftOut", "joined"}
  PROVE  Inv'
<1>1. /\ Tip' = Tip /\ HistoryInv' /\ chain' \in Seq(States) /\ Len(chain') >= 1
      /\ seen' \in [Nodes -> 1..Len(chain')]
  BY SameChain
<1>2. plan' \in Seq(Calls) /\ PlanInv'
  BY TailPlan
<1>3. Types'
  BY <1>1, <1>2 DEF Inv, Types
<1>4. PoolInv'
  BY <1>1 DEF Inv, PoolInv
<1>5. \A i \in 1..Len(ids) : Served(Genesis + i)' \/ Genesis + i \in left' \/ Fresh(i)'
  BY TailPlan
<1>6. /\ Tip.last = Genesis + Len(ids) /\ Tip.last \in Nat /\ Tip.last <= MaxIds
      /\ \A i \in 1..Len(ids) : ids[i] = Genesis + i
  BY TipState DEF Inv, CountInv, States
<1>7. CallInv' /\ CountInv' /\ StakeInv' /\ SelfInv' /\ ActiveInv'
  BY <1>1, <1>5, <1>6, IdleSuffices
<1> QED BY <1>1, <1>2, <1>3, <1>4, <1>7 DEF Inv

(* The smaller of two numbers *)
LEMMA MinOfTwo ==
  ASSUME NEW a \in Nat, NEW b \in Nat
  PROVE  Min({a, b}) = IF a <= b THEN a ELSE b
BY DEF Min

(* A call that changed nothing ends. *)
LEMMA FinishOther ==
  ASSUME Inv, call # NoCall, Finish(call.c), pool = {},
         call.c.op \in {"fund", "rules", "advance", "waitForEpoch"}
  PROVE  Inv'
<1>1. result = "running" /\ plan # <<>> /\ Head(plan).op = call.c.op
  BY DEF Inv, CallInv
<1>2. /\ call' = NoCall /\ plan' = Tail(plan) /\ ids' = ids /\ left' = left
      /\ excused' = excused /\ expectedStakes' = expectedStakes
      /\ chain' = chain /\ pool' = pool /\ seen' = seen /\ txs' = txs /\ result' = result
      /\ steps' = steps /\ held' = held
  BY DEF Finish, Remember, chainVars
<1>3. /\ ~Pending("create") /\ ~Pending("delegate") /\ ~Pending("undelegate")
      /\ ~Pending("unregister")
  BY DEF Pending
<1>4. /\ \A k \in Pairs : expectedStakes[k] <= Tip.stake[k]
      /\ \A i \in 1..Len(ids) : Tip.self[Genesis + i] > 0 \/ Genesis + i \in left
      /\ \A i \in 1..Len(ids) : Served(Genesis + i) \/ Genesis + i \in left \/ Fresh(i)
  BY <1>1, <1>3 DEF Inv, StakeInv, Covered, Changing, SelfInv, ActiveInv, Gone
<1>5. held' \subseteq Nodes /\ left' \subseteq Ids /\ expectedStakes' \in [Pairs -> Nat]
  BY <1>2 DEF Inv, Types
<1>s. \A v : Served(v) => Served(v)'
  BY <1>2, ServedOn
<1>e. excused \subseteq excused' /\ excused' \subseteq Nat
  BY <1>2 DEF Inv, Types
<1> QED BY <1>s, <1>e, <1>1, <1>2, <1>3, <1>4, <1>5, CallEnds

(* A validator that took back its stake is known to be gone. *)
LEMMA FinishUnregister ==
  ASSUME Inv, Receipt(TRUE), Finish(call.c), call.c.op = "unregister"
  PROVE  Inv'
<1>1. /\ call # NoCall /\ Sound(call.c) /\ result = "running" /\ plan # <<>> /\ pool = {}
      /\ Head(plan).op = call.c.op
  BY ReceiptFacts
<1>2. /\ call' = NoCall /\ plan' = Tail(plan) /\ ids' = ids /\ left' = left \union {call.c.v}
      /\ excused' = excused /\ expectedStakes' = expectedStakes
      /\ chain' = chain /\ pool' = pool /\ seen' = seen /\ txs' = txs /\ result' = result
      /\ steps' = steps /\ held' = held
  BY DEF Finish, Remember, chainVars
<1>3. ~Pending("create") /\ ~Pending("delegate") /\ ~Pending("undelegate")
  BY DEF Pending
<1>4. /\ \A k \in Pairs : expectedStakes[k] <= Tip.stake[k]
      /\ \A i \in 1..Len(ids) : Tip.self[Genesis + i] > 0 \/ Genesis + i \in left'
      /\ \A i \in 1..Len(ids) : Served(Genesis + i) \/ Genesis + i \in left' \/ Fresh(i)
  BY <1>1, <1>2, <1>3 DEF Inv, StakeInv, Covered, Changing, SelfInv, ActiveInv, Gone
<1>5. held' \subseteq Nodes /\ left' \subseteq Ids /\ expectedStakes' \in [Pairs -> Nat]
  BY <1>1, <1>2 DEF Inv, Types, Sound
<1>s. \A v : Served(v) => Served(v)'
  BY <1>2, ServedOn
<1>e. excused \subseteq excused' /\ excused' \subseteq Nat
  BY <1>2 DEF Inv, Types
<1> QED BY <1>s, <1>e, <1>1, <1>2, <1>3, <1>4, <1>5, CallEnds

(* A delegation is remembered, and so is an undelegation: less is expected *)
(* by what was asked for, or nothing.                                      *)
LEMMA FinishDelegate ==
  ASSUME Inv, Receipt(TRUE), Finish(call.c), call.c.op \in {"delegate", "undelegate"}
  PROVE  Inv'
<1>1. /\ call # NoCall /\ call \in CallsMade /\ Sound(call.c) /\ result = "running"
      /\ plan # <<>> /\ pool = {} /\ Head(plan).op = call.c.op /\ Pending(call.c.op)
  BY ReceiptFacts
<1>2. /\ call' = NoCall /\ plan' = Tail(plan) /\ ids' = ids /\ left' = left /\ excused' = excused
      /\ chain' = chain /\ pool' = pool /\ seen' = seen /\ txs' = txs /\ result' = result
      /\ steps' = steps /\ held' = held
  BY DEF Finish, Remember, chainVars
<1>3. ~Pending("create") /\ ~Pending("unregister")
  BY DEF Pending
<1>4. /\ \A i \in 1..Len(ids) : Tip.self[Genesis + i] > 0 \/ Genesis + i \in left
      /\ \A i \in 1..Len(ids) : Served(Genesis + i) \/ Genesis + i \in left \/ Fresh(i)
  BY <1>1, <1>3 DEF Inv, SelfInv, ActiveInv, Gone
<1>5. PICK k : k = <<call.c.d, call.c.v>>
  OBVIOUS
<1>6. /\ k \in Pairs /\ expectedStakes \in [Pairs -> Nat] /\ Tip.stake \in [Pairs -> Nat]
      /\ call.c.amount \in Nat
  BY <1>1, <1>5, TipState DEF Sound, Pairs, Inv, Types, States
<1>7. PICK a \in Nat : a = Head(plan).amount
  BY <1>1, PlanFacts DEF Inv, Calls
<1>8. PICK x \in Nat : x = expectedStakes[k]
  BY <1>6
<1>9. PICK y \in Nat : /\ expectedStakes' = [expectedStakes EXCEPT ![k] = y]
                       /\ y <= Tip.stake[k]
  <2>1. CASE call.c.op = "delegate"
    <3>1. expectedStakes' = [expectedStakes EXCEPT ![k] = x + call.c.amount]
      BY <1>5, <1>8, <2>1 DEF Finish, Remember
    <3>2. x + call.c.amount <= Tip.stake[k]
      BY <1>1, <1>5, <1>6, <1>8, <2>1 DEF Inv, StakeInv, Covered, Changing
    <3>3. x + call.c.amount \in Nat
      BY <1>6
    <3> QED BY <3>1, <3>2, <3>3
  <2>2. CASE call.c.op = "undelegate"
    <3>1. PICK b \in Nat : b = IF a = 0 THEN x ELSE a
      OBVIOUS
    <3>2. expectedStakes' = [expectedStakes EXCEPT ![k] = x - Min({x, b})]
      BY <1>5, <1>7, <1>8, <2>2, <3>1 DEF Finish, Remember
    <3>3. Min({x, b}) = IF x <= b THEN x ELSE b
      BY MinOfTwo
    <3>4. a = 0 \/ x - a <= Tip.stake[k]
      BY <1>1, <1>5, <1>6, <1>7, <1>8, <2>2 DEF Inv, StakeInv, Covered, Changing
    <3>5. Tip.stake[k] \in Nat
      BY <1>6
    <3>6. x - Min({x, b}) \in Nat /\ x - Min({x, b}) <= Tip.stake[k]
      BY <3>1, <3>3, <3>4, <3>5
    <3> QED BY <3>2, <3>6
  <2> QED BY <2>1, <2>2
<1>10. expectedStakes' \in [Pairs -> Nat]
  BY <1>6, <1>9
<1>11. \A j \in Pairs : expectedStakes'[j] <= Tip.stake[j]
  <2> TAKE j \in Pairs
  <2>1. CASE j = k
    BY <1>6, <1>9, <2>1
  <2>2. CASE j # k
    <3>1. expectedStakes[j] <= Tip.stake[j]
      BY <1>1, <1>5, <2>2 DEF Inv, StakeInv, Covered, Changing
    <3> QED BY <1>6, <1>9, <2>2, <3>1
  <2> QED BY <2>1, <2>2
<1>12. held' \subseteq Nodes /\ left' \subseteq Ids
  BY <1>2 DEF Inv, Types
<1>s. \A v : Served(v) => Served(v)'
  BY <1>2, ServedOn
<1>e. excused \subseteq excused' /\ excused' \subseteq Nat
  BY <1>2 DEF Inv, Types
<1> QED BY <1>s, <1>e, <1>1, <1>2, <1>3, <1>4, <1>10, <1>11, <1>12, CallEnds

(* A validator that was registered is remembered, with the next ID. *)
LEMMA FinishCreate ==
  ASSUME Inv, Receipt(TRUE), Finish(call.c), call.c.op = "create"
  PROVE  Inv'
<1>1. /\ call # NoCall /\ call \in CallsMade /\ Sound(call.c) /\ result = "running"
      /\ plan # <<>> /\ pool = {} /\ Head(plan).op = "create" /\ Pending("create")
  BY ReceiptFacts
<1>2. /\ call' = NoCall /\ plan' = Tail(plan) /\ ids' = Append(ids, call.c.v) /\ left' = left
      /\ excused' = excused /\ expectedStakes' = expectedStakes
      /\ chain' = chain /\ pool' = pool /\ seen' = seen /\ txs' = txs /\ result' = result
      /\ steps' = steps /\ held' = held
  BY DEF Finish, Remember, chainVars
<1>3. ~Pending("delegate") /\ ~Pending("undelegate") /\ ~Pending("unregister")
  BY DEF Pending
<1>4. /\ Tip' = Tip /\ HistoryInv' /\ chain' \in Seq(States) /\ Len(chain') >= 1
      /\ seen' \in [Nodes -> 1..Len(chain')]
  BY <1>2, SameChain
<1>5. /\ Tip.last = Genesis + Len(ids) + 1 /\ call.c.v = Tip.last /\ Tip.self[Tip.last] > 0
      /\ Tip.last <= MaxIds /\ \A i \in 1..Len(ids) : ids[i] = Genesis + i
  BY <1>1 DEF Inv, CountInv
<1>6. ids \in Seq(Nat) /\ Len(ids) \in Nat /\ call.c.v \in Nat
  BY <1>1 DEF Inv, Types, Sound
<1>7. /\ ids' \in Seq(Nat) /\ Len(ids') = Len(ids) + 1 /\ ids'[Len(ids) + 1] = call.c.v
      /\ \A i \in 1..Len(ids) : ids'[i] = ids[i]
  BY <1>2, <1>6
<1>8. \A i \in 1..(Len(ids) + 1) : i \in 1..Len(ids) \/ i = Len(ids) + 1
  BY <1>6
<1>9. \A i \in 1..Len(ids') : ids'[i] = Genesis + i
  <2> SUFFICES ASSUME NEW i \in 1..(Len(ids) + 1) PROVE ids'[i] = Genesis + i
    BY <1>7
  <2>1. CASE i \in 1..Len(ids)
    BY <1>5, <1>7, <2>1
  <2>2. CASE i = Len(ids) + 1
    <3>1. Genesis + (Len(ids) + 1) = Genesis + Len(ids) + 1
      BY <1>6, Constants
    <3> QED BY <1>5, <1>7, <2>2, <3>1
  <2> QED BY <1>8, <2>1, <2>2
<1>10. /\ Registering /\ Len(plan) \in Nat /\ Len(plan) >= 2 /\ Last(plan).v = 0
  BY <1>1, RoomToRegister
<1>11. /\ plan' \in Seq(Calls) /\ Len(plan') = Len(plan) - 1 /\ Last(plan) = plan[Len(plan)]
       /\ \A i \in 1..(Len(plan) - 1) : plan'[i] = plan[i + 1]
  BY <1>1, <1>2, PlanFacts DEF Inv
<1>12. PICK m \in Nat : m = Len(plan) /\ m >= 2
  BY <1>10
<1>13. /\ Len(plan') = m - 1 /\ plan' # <<>> /\ Last(plan') = Last(plan)
  <2>1. Len(plan') = m - 1 /\ m - 1 \in 1..(m - 1) /\ m - 1 + 1 = m /\ m - 1 # 0
    BY <1>11, <1>12
  <2>2. Last(plan') = plan[m]
    BY <1>11, <1>12, <2>1 DEF Last
  <2>3. plan' # <<>>
    <3>1. Len(<<>>) = 0
      OBVIOUS
    <3> QED BY <2>1, <3>1
  <2> QED BY <1>11, <1>12, <2>1, <2>2, <2>3
<1>14. PICK w \in Calls : w = Last(plan)
  BY <1>1, PlanFacts DEF Inv
<1>15. /\ w.op \in {"active", "leftOut"} /\ w.v = 0 /\ m - 1 <= w.amount /\ w.amount <= Len(ids) + m - 1
       /\ Genesis + Len(ids) + m - 1 <= MaxIds /\ w.amount \in Nat
       /\ \A i \in 1..(m - 1) : plan[i].op = "create"
  BY <1>10, <1>12, <1>14 DEF Registering, Calls
<1>16. \A i \in 1..(m - 2) : plan'[i].op = "create"
  <2>1. \A i \in 1..(m - 2) : i \in 1..(m - 1) /\ i + 1 \in 1..(m - 1)
    BY <1>12
  <2> QED BY <1>11, <1>12, <1>15, <2>1, SMTT(90)
<1>17. /\ m - 1 - 1 <= w.amount /\ w.amount <= Len(ids) + 1 + (m - 1) - 1
       /\ Genesis + (Len(ids) + 1) + (m - 1) - 1 <= MaxIds /\ m - 1 - 1 = m - 2
  BY <1>6, <1>12, <1>15, Constants
<1>18. Registering'
  <2>1. Last(plan').op \in {"active", "leftOut"} /\ Last(plan').v = 0 /\ Last(plan').amount = w.amount
    BY <1>13, <1>14, <1>15
  <2>2. \A i \in 1..(Len(plan') - 1) : plan'[i].op = "create"
    BY <1>13, <1>16, <1>17
  <2>3. /\ Len(plan') - 1 <= w.amount /\ w.amount <= Len(ids') + Len(plan') - 1
        /\ Genesis + Len(ids') + Len(plan') - 1 <= MaxIds
    BY <1>7, <1>13, <1>17
  <2> QED BY <1>13, <2>1, <2>2, <2>3 DEF Registering
<1>19. Creates = m - 1 /\ Creates' = m - 2
  <2>1. Creates = m - 1
    BY <1>1, <1>12 DEF Creates
  <2>2. Head(plan') = plan'[1]
    BY <1>11, <1>13
  <2>3. CASE m = 2
    <3>1. plan'[1] = w
      BY <1>11, <1>12, <1>14, <2>3
    <3> QED BY <1>15, <2>1, <2>2, <2>3, <3>1 DEF Creates
  <2>4. CASE m # 2
    <3>1. 1 \in 1..(m - 2) /\ m - 1 - 1 = m - 2
      BY <1>12, <2>4
    <3>2. plan'[1].op = "create"
      BY <1>16, <3>1
    <3> QED BY <1>13, <2>1, <2>2, <3>1, <3>2 DEF Creates
  <2> QED BY <2>3, <2>4
<1>20. \A i \in 1..(Len(ids) + 1) :
         (i \in 1..Len(ids) /\ Fresh(i)) \/ i = Len(ids) + 1 => Fresh(i)'
  <2> SUFFICES ASSUME NEW i \in 1..(Len(ids) + 1),
                      (i \in 1..Len(ids) /\ Fresh(i)) \/ i = Len(ids) + 1
               PROVE  Fresh(i)'
    OBVIOUS
  <2>1. i > Len(ids) + Creates - w.amount
    <3>1. CASE Fresh(i)
      BY <1>14, <3>1 DEF Fresh
    <3>2. CASE i = Len(ids) + 1
      BY <1>6, <1>12, <1>15, <1>19, <3>2
    <3> QED BY <3>1, <3>2
  <2>2. Len(ids') + Creates' - w.amount = Len(ids) + Creates - w.amount
    <3>1. \A l, a \in Nat : (l + 1) + (m - 2) - a = l + (m - 1) - a
      BY <1>12
    <3>2. w.amount \in Nat
      BY <1>15
    <3> QED BY <1>6, <1>7, <1>19, <3>1, <3>2
  <2>3. i > Len(ids') + Creates' - w.amount
    BY <2>1, <2>2
  <2>4. /\ plan' # <<>> /\ Last(plan').op \in {"active", "leftOut", "joined"} /\ Last(plan').v = 0
        /\ Last(plan').amount = w.amount
    BY <1>13, <1>14, <1>15
  <2> QED BY <2>3, <2>4 DEF Fresh
<1>21. /\ \A k \in Pairs : expectedStakes'[k] <= Tip'.stake[k]
       /\ \A i \in 1..Len(ids) : Tip.self[Genesis + i] > 0 \/ Genesis + i \in left
       /\ \A i \in 1..Len(ids) : Served(Genesis + i) \/ Genesis + i \in left \/ Fresh(i)
  BY <1>1, <1>2, <1>3, <1>4 DEF Inv, StakeInv, Covered, Changing, SelfInv, ActiveInv, Gone
<1>22. /\ \A i \in 1..Len(ids') : Tip'.self[Genesis + i] > 0 \/ Genesis + i \in left'
       /\ \A i \in 1..Len(ids') :
            Served(Genesis + i)' \/ Genesis + i \in left' \/ Fresh(i)'
  <2>1. Genesis + (Len(ids) + 1) = Tip.last
    BY <1>5, <1>6, Constants
  <2>2. \A i \in 1..(Len(ids) + 1) : Tip.self[Genesis + i] > 0 \/ Genesis + i \in left
    BY <1>5, <1>8, <1>21, <2>1
  <2>3. \A i \in 1..(Len(ids) + 1) :
          Served(Genesis + i) \/ Genesis + i \in left \/ Fresh(i)'
    BY <1>8, <1>20, <1>21
  <2>4. \A v : Served(v) => Served(v)'
    BY <1>2, ServedOn
  <2> QED BY <1>2, <1>4, <1>7, <2>2, <2>3, <2>4
<1>23. Tip'.last = Genesis + Len(ids') /\ Tip'.last \in Nat /\ Tip'.last <= MaxIds
  BY <1>4, <1>5, <1>6, <1>7, Constants
<1>24. CallInv' /\ CountInv' /\ StakeInv' /\ SelfInv' /\ ActiveInv'
  BY <1>1, <1>2, <1>9, <1>21, <1>22, <1>23, IdleSuffices
<1>25. Types'
  BY <1>2, <1>4, <1>7, <1>11 DEF Inv, Types
<1>26. PoolInv'
  BY <1>1, <1>2, <1>4 DEF Inv, PoolInv
<1>27. PlanInv'
  BY <1>18 DEF PlanInv
<1> QED BY <1>4, <1>24, <1>25, <1>26, <1>27 DEF Inv

(* WaitTransactionReceipt *)
LEMMA ReceiptInv == Inv /\ WaitTransactionReceipt => Inv'
<1> SUFFICES ASSUME Inv, WaitTransactionReceipt PROVE Inv'
  OBVIOUS
<1>1. Receipt(TRUE)
  BY DEF WaitTransactionReceipt
<1>2. call # NoCall /\ pool = {} /\ call.c.op \in Transactions
  BY <1>1, ReceiptFacts DEF Sound
<1>3. CASE call.c.op = "advance"
  BY <1>1, <1>3, EpochWaitInv DEF WaitTransactionReceipt
<1>4. CASE call.c.op # "advance"
  <2>1. Finish(call.c)
    BY <1>4 DEF WaitTransactionReceipt
  <2>2. CASE call.c.op \in {"fund", "rules"}
    BY <1>2, <2>1, <2>2, FinishOther
  <2>3. CASE call.c.op = "create"
    BY <1>1, <2>1, <2>3, FinishCreate
  <2>4. CASE call.c.op = "unregister"
    BY <1>1, <2>1, <2>4, FinishUnregister
  <2>5. CASE call.c.op \in {"delegate", "undelegate"}
    BY <1>1, <2>1, <2>5, FinishDelegate
  <2> QED BY <1>2, <1>4, <2>2, <2>3, <2>4, <2>5 DEF Transactions
<1> QED BY <1>3, <1>4

(* AdvanceEpoch and WaitForEpochChange end. *)
LEMMA EpochInv == Inv /\ (AdvanceEpoch \/ EpochChanged) => Inv'
<1>1. ASSUME Inv, AdvanceEpoch PROVE Inv'
  <2>1. call # NoCall /\ call.at = "epoch" /\ Finish(call.c)
    BY <1>1 DEF AdvanceEpoch
  <2>2. call.c.op = "advance" /\ result = "running"
    BY <1>1, <2>1 DEF Inv, CallInv
  <2>3. pool = {}
    BY <1>1, <2>1, <2>2, Idle
  <2> QED BY <1>1, <2>1, <2>2, <2>3, FinishOther
<1>2. ASSUME Inv, EpochChanged PROVE Inv'
  <2>1. call # NoCall /\ call.at = "change" /\ (Finish(call.c) \/ Error)
    BY <1>2 DEF EpochChanged
  <2>2. call.c.op = "waitForEpoch" /\ result = "running"
    BY <1>2, <2>1 DEF Inv, CallInv
  <2>3. pool = {}
    BY <1>2, <2>1, <2>2, Idle
  <2> QED BY <1>2, <2>1, <2>2, <2>3, FinishOther, ErrorInv
<1> QED BY <1>1, <1>2

(* The check of a step is the last call of its plan. *)
LEMMA CheckIsLast ==
  ASSUME Inv, plan # <<>>, Head(plan).op \in {"active", "leftOut", "joined"}
  PROVE  /\ Len(plan) = 1 /\ Last(plan) = Head(plan) /\ Creates = 0 /\ Tail(plan) = <<>>
         /\ Head(plan).v = 0 => Head(plan).amount <= Len(ids)
<1>1. /\ Head(plan) = plan[1] /\ Last(plan) = plan[Len(plan)] /\ Len(plan) \in Nat
      /\ Len(plan) >= 1 /\ Tail(plan) \in Seq(Calls) /\ Len(Tail(plan)) = Len(plan) - 1
  BY PlanFacts DEF Inv
<1>2. Creates = 0
  BY DEF Creates
<1>3. 1 \in 1..Len(plan)
  BY <1>1
<1>4. ~ \A i \in 1..Len(plan) : Plain(plan[i])
  BY <1>1, <1>3 DEF Plain
<1>5. Len(plan) = 1
  <2>1. CASE Registering
    <3>1. \A m \in Nat : m >= 1 /\ m # 1 => 1 \in 1..(m - 1)
      OBVIOUS
    <3> QED BY <1>1, <2>1, <3>1 DEF Registering
  <2>2. CASE Joining
    BY <1>1, <2>2 DEF Joining
  <2> QED BY <1>4, <2>1, <2>2 DEF Inv, PlanInv
<1>6. Tail(plan) = <<>> /\ Last(plan) = Head(plan)
  <2>1. \A q \in Seq(Calls) : Len(q) = 0 => q = <<>>
    OBVIOUS
  <2>2. Len(Tail(plan)) = 0 /\ plan[Len(plan)] = plan[1]
    BY <1>1, <1>5
  <2> QED BY <1>1, <2>1, <2>2
<1>7. Head(plan).v = 0 => Head(plan).amount <= Len(ids)
  <2>1. CASE Registering
    <3>1. Len(ids) \in Nat /\ Len(ids) + Len(plan) - 1 = Len(ids)
      BY <1>5 DEF Inv, Types
    <3> QED BY <1>6, <2>1, <3>1 DEF Registering
  <2>2. CASE Joining
    BY <1>6, <2>2 DEF Joining
  <2> QED BY <1>4, <2>1, <2>2 DEF Inv, PlanInv
<1> QED BY <1>2, <1>5, <1>6, <1>7

(* Validators that a node shows in the set, behind as it may be, are in it *)
(* unless they have gone.                                                  *)
LEMMA Checked ==
  ASSUME Inv, Ready, NEW n \in Nodes, Head(plan).op \in {"active", "joined"},
         missingValidators(Want(Head(plan)), View(n).active) = {}
  PROVE  \A i \in 1..Len(ids) : Served(Genesis + i) \/ Genesis + i \in left
<1>1. result = "running" /\ plan # <<>> /\ call = NoCall
  BY DEF Ready
<1>2. PICK c \in Calls : c = Head(plan)
  BY <1>1, PlanFacts DEF Inv
<1>3. Last(plan) = c /\ Creates = 0 /\ c.amount \in Nat /\ (c.v = 0 => c.amount <= Len(ids))
  BY <1>1, <1>2, CheckIsLast DEF Calls
<1>4. Want(c) \subseteq View(n).active
  BY <1>2 DEF missingValidators
<1>5. ASSUME NEW i \in 1..Len(ids), Fresh(i) PROVE Served(Genesis + i) \/ Genesis + i \in left
  <2>1. c.v = 0 /\ i > Len(ids) + 0 - c.amount /\ Len(ids) \in Nat
    BY <1>3, <1>5 DEF Fresh, Inv, Types
  <2>2. i \in (Len(ids) - c.amount + 1)..Len(ids)
    BY <1>3, <2>1
  <2>3. ids[i] \in Want(c)
    BY <2>1, <2>2 DEF Want
  <2>4. ids[i] = Genesis + i
    BY DEF Inv, CountInv
  <2>5. Served(Genesis + i) \/ Tip.self[Genesis + i] = 0
    BY <1>4, <2>3, <2>4, ViewFacts DEF Kept, Served
  <2>6. Tip.self[Genesis + i] > 0 \/ Genesis + i \in left
    BY <1>1, IdleFacts
  <2> QED BY <2>5, <2>6
<1> QED BY <1>1, <1>5, IdleFacts

(* ensureValidatorsActive: the validators are in the set, or the step goes *)
(* on to wait for them.                                                    *)
LEMMA EnsureInv ==
  ASSUME Inv, NEW n \in Nodes, ensureValidatorsActive(n)
  PROVE  Inv'
<1>1. PICK c : c = Head(plan)
  OBVIOUS
<1>2. /\ Ready /\ c.op = "active" /\ result = "running" /\ plan # <<>> /\ call = NoCall
      /\ chain' = chain /\ pool' = pool /\ seen' = seen /\ txs' = txs /\ result' = result
      /\ steps' = steps /\ call' = call /\ ids' = ids /\ left' = left
      /\ excused' = excused /\ expectedStakes' = expectedStakes
  BY <1>1 DEF ensureValidatorsActive, Ready, chainVars
<1>3. pool = {} /\ ~Pending("create")
  BY <1>2, Idle
<1>4. /\ \A k \in Pairs : expectedStakes[k] <= Tip.stake[k]
      /\ \A i \in 1..Len(ids) : Tip.self[Genesis + i] > 0 \/ Genesis + i \in left
      /\ \A i \in 1..Len(ids) : Served(Genesis + i) \/ Genesis + i \in left \/ Fresh(i)
      /\ Tip.last = Genesis + Len(ids)
  BY <1>2, IdleFacts
<1>s. \A v : Served(v) => Served(v)'
  BY <1>2, ServedOn
<1>5. held \subseteq Nodes /\ left \subseteq Ids /\ excused \subseteq Nat /\ expectedStakes \in [Pairs -> Nat]
  BY DEF Inv, Types
<1>6. CASE missingValidators(Want(c), View(n).active) = {}
  <2>1. plan' = Tail(plan) /\ held' = held
    BY <1>1, <1>6 DEF ensureValidatorsActive
  <2>2. \A i \in 1..Len(ids) : Served(Genesis + i) \/ Genesis + i \in left
    BY <1>1, <1>2, <1>6, Checked
  <2> QED BY <1>s, <1>1, <1>2, <1>3, <1>4, <1>5, <2>1, <2>2, CallEnds
<1>7. CASE missingValidators(Want(c), View(n).active) # {}
  <2>1. PICK a : a = Call("advance", NoOne, 0, 0)
    OBVIOUS
  <2>2. PICK j : j = [c EXCEPT !.op = "joined"]
    OBVIOUS
  <2>3. c \in Calls
    BY <1>1, <1>2, PlanFacts DEF Inv
  <2>4. a \in Calls /\ a.op = "advance"
    BY <2>1 DEF Call, Calls, Ops, Transactions
  <2>5. j \in Calls /\ j.op = "joined" /\ j.v = c.v /\ j.amount = c.amount
    BY <2>2, <2>3 DEF Calls, Ops, Readers
  <2>6. plan' = <<a, j>> /\ held' = {n}
    <3>1. plan' = <<a, j>> \o Tail(plan) /\ held' = {n}
      BY <1>1, <1>7, <2>1, <2>2 DEF ensureValidatorsActive
    <3>2. Tail(plan) = <<>>
      BY <1>1, <1>2, CheckIsLast
    <3>3. <<a, j>> \o <<>> = <<a, j>>
      BY <2>4, <2>5
    <3> QED BY <3>1, <3>2, <3>3
  <2>7. /\ plan' \in Seq(Calls) /\ plan' # <<>> /\ Len(plan') = 2 /\ Head(plan') = a
        /\ Last(plan') = j
    BY <2>4, <2>5, <2>6 DEF Last
  <2>8. Last(plan) = c /\ Creates = 0 /\ (c.v = 0 => c.amount <= Len(ids))
    BY <1>1, <1>2, CheckIsLast
  <2>9. PlanInv'
    BY <1>2, <2>4, <2>5, <2>7, <2>8 DEF PlanInv, Joining
  <2>10. Creates' = 0
    BY <2>4, <2>7 DEF Creates
  <2>11. \A i \in 1..Len(ids) : Fresh(i) => Fresh(i)'
    BY <1>2, <2>5, <2>7, <2>8, <2>10 DEF Fresh
  <2>12. /\ Tip' = Tip /\ HistoryInv' /\ chain' \in Seq(States) /\ Len(chain') >= 1
         /\ seen' \in [Nodes -> 1..Len(chain')]
    BY <1>2, SameChain
  <2>13. Types'
    BY <1>2, <2>6, <2>7, <2>12 DEF Inv, Types
  <2>14. PoolInv'
    BY <1>2, <1>3, <2>12 DEF Inv, PoolInv
  <2>15. /\ Tip.last \in Nat /\ Tip.last <= MaxIds
         /\ \A i \in 1..Len(ids) : ids[i] = Genesis + i
    BY TipState DEF Inv, CountInv, States
  <2>16. CallInv' /\ CountInv' /\ StakeInv' /\ SelfInv' /\ ActiveInv'
    BY <1>s, <1>2, <1>4, <2>11, <2>12, <2>15, IdleSuffices
  <2> QED BY <2>9, <2>12, <2>13, <2>14, <2>16 DEF Inv
<1> QED BY <1>6, <1>7

(* The validators have joined. *)
LEMMA JoinedInv == Inv /\ validatorsJoined => Inv'
<1> SUFFICES ASSUME Inv, validatorsJoined PROVE Inv'
  OBVIOUS
<1>1. PICK n \in held : missingValidators(Want(Head(plan)), View(n).active) = {}
  BY DEF validatorsJoined
<1>2. /\ Ready /\ Head(plan).op = "joined" /\ result = "running" /\ plan # <<>> /\ call = NoCall
      /\ plan' = Tail(plan) /\ held' = {}
      /\ chain' = chain /\ pool' = pool /\ seen' = seen /\ txs' = txs /\ result' = result
      /\ steps' = steps /\ call' = call /\ ids' = ids /\ left' = left
      /\ excused' = excused /\ expectedStakes' = expectedStakes
  BY DEF validatorsJoined, Ready, chainVars
<1>3. pool = {} /\ ~Pending("create")
  BY <1>2, Idle
<1>4. /\ \A k \in Pairs : expectedStakes[k] <= Tip.stake[k]
      /\ \A i \in 1..Len(ids) : Tip.self[Genesis + i] > 0 \/ Genesis + i \in left
  BY <1>2, IdleFacts
<1>s. \A v : Served(v) => Served(v)'
  BY <1>2, ServedOn
<1>5. n \in Nodes /\ left \subseteq Ids /\ excused \subseteq Nat /\ expectedStakes \in [Pairs -> Nat]
  BY DEF Inv, Types
<1>6. \A i \in 1..Len(ids) : Served(Genesis + i) \/ Genesis + i \in left
  BY <1>1, <1>2, <1>5, Checked
<1> QED BY <1>s, <1>2, <1>3, <1>4, <1>5, <1>6, CallEnds

(* Validators of a step marked as failing are left out: they are in the    *)
(* set when an epoch has ended since they were registered, and wait for    *)
(* the next seal otherwise.                                                *)
LEMMA SkipInv == Inv /\ skipActivation => Inv'
<1> SUFFICES ASSUME Inv, skipActivation PROVE Inv'
  OBVIOUS
<1>1. PICK c \in Calls : c = Head(plan) /\ c.op = "leftOut" /\ c.amount \in Nat /\ c.v \in Nat
  BY PlanFacts DEF Inv, skipActivation, Ready, Calls
<1>2. /\ result = "running" /\ plan # <<>> /\ call = NoCall
      /\ plan' = Tail(plan) /\ held' = held /\ excused' = excused \union Want(c)
      /\ chain' = chain /\ pool' = pool /\ seen' = seen /\ txs' = txs /\ result' = result
      /\ steps' = steps /\ call' = call /\ ids' = ids /\ left' = left
      /\ expectedStakes' = expectedStakes
  BY <1>1 DEF skipActivation, Ready, chainVars
<1>3. pool = {} /\ ~Pending("create")
  BY <1>2, Idle
<1>4. /\ \A k \in Pairs : expectedStakes[k] <= Tip.stake[k]
      /\ \A i \in 1..Len(ids) : Tip.self[Genesis + i] > 0 \/ Genesis + i \in left
      /\ \A i \in 1..Len(ids) : Served(Genesis + i) \/ Genesis + i \in left \/ Fresh(i)
      /\ Tip.last = Genesis + Len(ids)
  BY <1>2, IdleFacts
<1>5. /\ held \subseteq Nodes /\ left \subseteq Ids /\ excused \subseteq Nat
      /\ expectedStakes \in [Pairs -> Nat] /\ ids \in Seq(Nat) /\ Len(ids) \in Nat
  BY DEF Inv, Types
<1>6. Last(plan) = c /\ Creates = 0 /\ (c.v = 0 => c.amount <= Len(ids))
  BY <1>1, <1>2, CheckIsLast
<1>7. Want(c) \subseteq Nat
  <2>1. c.v = 0 => (Len(ids) - c.amount + 1)..Len(ids) \subseteq 1..Len(ids)
    BY <1>1, <1>5, <1>6
  <2>2. \A i \in 1..Len(ids) : ids[i] \in Nat
    BY <1>5
  <2> QED BY <1>1, <2>1, <2>2 DEF Want
<1>8. excused \subseteq excused' /\ excused' \subseteq Nat
  BY <1>2, <1>5, <1>7
<1>9. \A v : Served(v) => Served(v)'
  BY <1>2, <1>8, ServedOn
<1>10. ASSUME NEW i \in 1..Len(ids), Fresh(i), Genesis + i \notin left
       PROVE  Served(Genesis + i)'
  <2>1. c.v = 0 /\ i > Len(ids) + 0 - c.amount
    BY <1>6, <1>10 DEF Fresh
  <2>2. i \in (Len(ids) - c.amount + 1)..Len(ids)
    BY <1>1, <1>5, <2>1
  <2>3. ids[i] \in Want(c)
    BY <2>1, <2>2 DEF Want
  <2>4. ids[i] = Genesis + i
    BY DEF Inv, CountInv
  <2>5. (Genesis + i \in excused)'
    BY <1>2, <2>3, <2>4
  <2>6. Tip' = Tip
    BY <1>2, SameChain
  <2>7. CASE Sealed(Genesis + i)
    <3>1. PICK j \in DOMAIN chain : Genesis + i <= chain[j].last /\ chain[j].epoch < Tip.epoch
      BY <2>7 DEF Sealed
    <3>2. j \in 1..Len(chain) /\ chain[j] \in States /\ Kept(chain[j])
      BY <3>1 DEF Inv, Types, HistoryInv
    <3>3. Genesis + i \in 1..chain[j].last
      BY <3>1, <3>2, Constants DEF States
    <3>4. Genesis + i \in Tip.active \/ Tip.self[Genesis + i] = 0
      BY <3>1, <3>2, <3>3 DEF Kept
    <3>5. Tip.self[Genesis + i] > 0
      BY <1>4, <1>10
    <3> QED BY <2>6, <3>4, <3>5 DEF Served
  <2>8. CASE ~Sealed(Genesis + i)
    <3>1. ~Sealed(Genesis + i)'
      BY <1>2, <2>6, <2>8 DEF Sealed
    <3> QED BY <1>2, <2>5, <3>1 DEF Served, Waiting
  <2> QED BY <2>7, <2>8
<1>11. \A i \in 1..Len(ids) : Served(Genesis + i)' \/ Genesis + i \in left
  BY <1>4, <1>9, <1>10
<1> QED BY <1>1, <1>2, <1>3, <1>4, <1>5, <1>8, <1>11, CallEnds

(* Stakes that were found right stay so. *)
LEMMA VerifyInv ==
  ASSUME Inv, NEW at \in [Pairs -> Nodes], execVerifyStakes(at)
  PROVE  Inv'
<1>1. /\ Ready /\ Head(plan).op = "verifyStakes" /\ result = "running" /\ plan # <<>>
      /\ call = NoCall /\ plan' = Tail(plan) /\ held' = held
      /\ chain' = chain /\ pool' = pool /\ seen' = seen /\ txs' = txs /\ result' = result
      /\ steps' = steps /\ call' = call /\ ids' = ids /\ left' = left
      /\ excused' = excused /\ expectedStakes' = expectedStakes
  BY DEF execVerifyStakes, Ready, chainVars
<1>2. pool = {} /\ ~Pending("create")
  BY <1>1, Idle
<1>3. /\ \A k \in Pairs : expectedStakes[k] <= Tip.stake[k]
      /\ \A i \in 1..Len(ids) : Tip.self[Genesis + i] > 0 \/ Genesis + i \in left
      /\ \A i \in 1..Len(ids) : Served(Genesis + i) \/ Genesis + i \in left \/ Fresh(i)
  BY <1>1, IdleFacts
<1>s. \A v : Served(v) => Served(v)'
  BY <1>1, ServedOn
<1>4. held \subseteq Nodes /\ left \subseteq Ids /\ excused \subseteq Nat /\ expectedStakes \in [Pairs -> Nat]
  BY DEF Inv, Types
<1> QED BY <1>s, <1>1, <1>2, <1>3, <1>4, CallEnds

-----------------------------------------------------------------------------
(* Every step *)

(* Every step keeps the invariant. *)
LEMMA NextInv == Inv /\ [Next]_vars => Inv'
<1> SUFFICES ASSUME Inv, [Next]_vars PROVE Inv'
  OBVIOUS
<1>1. ASSUME UNCHANGED vars PROVE Inv'
  <2>1. /\ result' = result /\ plan' = plan /\ call' = call /\ held' = held
        /\ chain' = chain /\ pool' = pool /\ txs' = txs /\ seen' = seen
        /\ steps' = steps /\ ids' = ids /\ left' = left
        /\ excused' = excused /\ expectedStakes' = expectedStakes
    BY <1>1 DEF vars, chainVars, scenarioVars
  <2>2. Tip' = Tip
    BY <2>1 DEF Tip, Last
  <2> QED BY <2>1, <2>2, ZenonT(60) DEF Inv, Types, HistoryInv, Kept, CallInv, PlanInv, Registering,
        Joining, Creates, PoolInv, IsCalled, CountInv, StakeInv, Covered, Changing, Pending,
        SelfInv, ActiveInv, Gone, Fresh, Served, Waiting, Sealed
<1>2. ASSUME result = "running", Network PROVE Inv'
  BY <1>2, ProduceBlockInv, SealEpochInv, CatchUpInv DEF Network
<1>3. ASSUME Executor PROVE Inv'
  <2>1. ASSUME steps < Len(Steps), NEW s \in Steps[steps + 1], NextStep(s) PROVE Inv'
    BY <2>1, NextStepInv
  <2>2. ASSUME Complete PROVE Inv'
    BY <2>2, CompleteInv
  <2>3. ASSUME NEW n \in Nodes, BeginCall(n) \/ ensureValidatorsActive(n) \/ WaitForEpochChange(n)
        PROVE  Inv'
    BY <2>3, BeginCallInv, EnsureInv, WaitForEpochInv
  <2>4. ASSUME unknownTarget \/ SendFails \/ Reverted \/ CallTimesOut \/ activationTimesOut
        PROVE  Inv'
    <3>1. Error
      BY <2>4 DEF unknownTarget, SendFails, Reverted, CallTimesOut, activationTimesOut
    <3> QED BY <3>1, ErrorInv
  <2>5. ASSUME SendTransaction \/ WaitTransactionReceipt \/ AdvanceEpoch \/ validatorsJoined
               \/ skipActivation \/ EpochChanged
        PROVE  Inv'
    BY <2>5, SendInv, ReceiptInv, EpochInv, JoinedInv, SkipInv
  <2>6. ASSUME NEW at \in [Pairs -> Nodes], execVerifyStakes(at) \/ stakesMismatch(at)
        PROVE  Inv'
    BY <2>6, VerifyInv, ErrorInv DEF stakesMismatch
  <2> QED BY <1>3, <2>1, <2>2, <2>3, <2>4, <2>5, <2>6 DEF Executor
<1>4. CASE Ended
  BY <1>1, <1>4 DEF Ended
<1> QED BY <1>1, <1>2, <1>3, <1>4 DEF Next

(* The invariant holds in every reachable state. *)
LEMMA InvHolds == Spec => []Inv
BY InitInv, NextInv, PTL DEF Spec

-----------------------------------------------------------------------------
(* The theorems *)

(* The types of the variables are right, whatever the nodes show. *)
THEOREM TypeCorrect == Spec => []TypeOK
<1>1. Inv => TypeOK
  <2> SUFFICES ASSUME Inv PROVE TypeOK
    OBVIOUS
  <2>1. DOMAIN chain = 1..Len(chain)
    BY DEF Inv, Types
  <2>2. ASSUME NEW i \in 1..Len(chain)
        PROVE  /\ chain[i].active \subseteq 1..chain[i].last
               /\ chain[i].stake \in [Pairs -> Nat] /\ chain[i].self \in [Ids -> Nat]
               /\ chain[i].funds \in [Delegators -> Nat]
    <3>1. chain[i] \in States /\ Kept(chain[i])
      BY DEF Inv, Types, HistoryInv
    <3> QED BY <3>1 DEF States, Kept
  <2> QED BY <2>1, <2>2 DEF Inv, Types, TypeOK
<1> QED BY <1>1, InvHolds, PTL

(* Between two steps the stakes that are expected are on the chain, for    *)
(* any scenario, any number of delegators and nodes, and nodes that are    *)
(* behind by any number of blocks (runState.expectedStakes).               *)
THEOREM ExpectedStakesHold == Spec => []StakesAreCovered
<1>1. Inv => StakesAreCovered
  <2> SUFFICES ASSUME Inv, AtBoundary PROVE \A k \in Pairs : expectedStakes[k] <= Tip.stake[k]
    BY DEF StakesAreCovered
  <2>1. result = "running" /\ plan = <<>>
    BY DEF AtBoundary
  <2>2. call = NoCall
    BY <2>1 DEF Inv, CallInv
  <2> QED BY <2>1, <2>2, IdleFacts
<1> QED BY <1>1, InvHolds, PTL

(* A startNode step that has ended has made its validators active, also    *)
(* when the node that showed them in the set was behind                    *)
(* (ensureValidatorsActive); those of a step marked as failing are active  *)
(* from the first epoch on that ends after their registration              *)
(* (execStartNode).                                                        *)
THEOREM StartedValidatorsAreActive == Spec => []ValidatorsAreActive
<1>1. Inv => ValidatorsAreActive
  <2> SUFFICES ASSUME Inv, AtBoundary, NEW v \in Range(ids) \ left
               PROVE  v \in Tip.active \/ Waiting(v)
    BY DEF ValidatorsAreActive
  <2>1. result = "running" /\ plan = <<>>
    BY DEF AtBoundary
  <2>2. call = NoCall
    BY <2>1 DEF Inv, CallInv
  <2>3. \A i \in 1..Len(ids) : Served(Genesis + i) \/ Genesis + i \in left
    BY <2>1, <2>2, IdleFacts DEF Fresh
  <2>4. DOMAIN ids = 1..Len(ids) /\ \A i \in 1..Len(ids) : ids[i] = Genesis + i
    BY DEF Inv, Types, CountInv
  <2>5. PICK i \in 1..Len(ids) : v = Genesis + i
    BY <2>4 DEF Range
  <2> QED BY <2>3, <2>5 DEF Served
<1> QED BY <1>1, InvHolds, PTL

(* Every registration gets an ID of its own that is on the chain, although *)
(* the last one may be read from a node that is behind                     *)
(* (RegisterValidatorNode).                                                *)
THEOREM RegisteredIdsAreDistinct == Spec => []IdsAreDistinct
<1>1. Inv => IdsAreDistinct
  <2> SUFFICES ASSUME Inv PROVE IdsAreDistinct
    OBVIOUS
  <2>1. DOMAIN ids = 1..Len(ids) /\ Len(ids) \in Nat
    BY DEF Inv, Types
  <2>2. \A i \in 1..Len(ids) : ids[i] = Genesis + i
    BY DEF Inv, CountInv
  <2>3. Genesis + Len(ids) <= Tip.last /\ Tip.last \in Nat
    BY TipState DEF Inv, CountInv, States
  <2>4. \A i \in 1..Len(ids) : Genesis < ids[i] /\ ids[i] <= Tip.last
    BY <2>1, <2>2, <2>3, Constants
  <2>5. \A i, j \in 1..Len(ids) : ids[i] = ids[j] => i = j
    BY <2>2, Constants
  <2> QED BY <2>1, <2>4, <2>5 DEF IdsAreDistinct, IsInjective
<1> QED BY <1>1, InvHolds, PTL

=============================================================================
