----------------------------- MODULE LoadProofs ------------------------------
(***************************************************************************)
(* The load generation, for every number of users and nodes, every         *)
(* capacity, batch size and number of messages, every application and mix, *)
(* and every rate the parser accepts: the pipeline from the controller to  *)
(* the nodes (TypeOK, NoSendOnClosedChannel, EveryTxIsReported), and one   *)
(* application from its check to its load (AppTypeOK, SetupIsComplete,     *)
(* ReceivedAtMostSent, TriggersFollowShape).                               *)
(***************************************************************************)
EXTENDS LoadPipeline, LoadApps, SetLemmas, FiniteSetTheorems, SequenceTheorems, TLAPS

-----------------------------------------------------------------------------
(* The pipeline *)

(* Why Close may close the channel: the executor goroutine gets there only *)
(* past the wait for Run, which waits for the generators, and no           *)
(* application is started after that.                                      *)
ShutdownInv ==
  /\ gen \in [Users -> {"none", "wait", "send", "done"}]
  /\ ctl = "created" => \A u \in Users : gen[u] = "none"
  /\ ctl = "returned" => \A u \in Users : gen[u] = "done"
  /\ exec \in {"closePool", "waitPool", "down"} => ctl \in {"created", "returned"}
  /\ txsClosed => exec = "down"

(* The invariant holds initially. *)
LEMMA ShutdownInvInit == Init => ShutdownInv
  BY DEF Init, ShutdownInv

(* No step of the controller, of a generator, of a worker or of the        *)
(* executor goroutine breaks it.                                           *)
LEMMA ShutdownInvStep == ShutdownInv /\ [Next]_vars => ShutdownInv'
<1> SUFFICES ASSUME ShutdownInv, [Next]_vars PROVE ShutdownInv'
  OBVIOUS
<1>1. CASE Application
  <2>1. CASE Start
    BY <2>1 DEF Start, ShutdownInv, poolVars, execVars
  <2>2. CASE RunReturns
    BY <2>2 DEF RunReturns, ShutdownInv, poolVars, execVars
  <2>3. CASE Replenish \/ PushTrigger \/ SelectTimer \/ SelectDone
    BY <2>3 DEF Replenish, PushTrigger, SelectTimer, SelectDone, afterClose,
                ShutdownInv, poolVars, execVars
  <2>4. QED
    BY <1>1, <2>1, <2>2, <2>3 DEF Application
<1>2. CASE Waiting
  <2>1. CASE AppStopped
    BY <2>1 DEF AppStopped, appDone, ShutdownInv, appVars, poolVars
  <2>2. CASE NodeRemoved \/ ClosePool \/ PoolClosed
    BY <2>2 DEF NodeRemoved, ClosePool, PoolClosed, ShutdownInv, appVars
  <2>3. QED
    BY <1>2, <2>1, <2>2 DEF Waiting
<1>3. CASE CancelContext
  BY <1>3 DEF CancelContext, ShutdownInv, appVars, execVars
<1>4. CASE Stop("stopApp") \/ Stop("shutdown")
  BY <1>4 DEF Stop, ShutdownInv, appVars, poolVars
<1>5. ASSUME NEW u \in Users, Generator(u) PROVE ShutdownInv'
  <2>1. /\ gen[u] \in {"wait", "send"}
        /\ \E x \in {"wait", "send", "done"} : gen' = [gen EXCEPT ![u] = x]
        /\ UNCHANGED <<ctl, exec, txsClosed>>
    BY <1>5 DEF Generator, GenerateTx, SendTransaction, GeneratorEnds,
                ShutdownInv, appVars, poolVars, execVars
  <2>2. ctl \notin {"created", "returned"}
    BY <2>1 DEF ShutdownInv
  <2>3. QED
    BY <2>1, <2>2 DEF ShutdownInv
<1>6. ASSUME NEW n \in Nodes,
             Worker(n) \/ AfterNodeCreation(n) \/ BeforeNodeRemoval(n)
      PROVE ShutdownInv'
  BY <1>6 DEF Worker, Dial, Take, Sent, WorkerEnds, AfterNodeCreation,
              BeforeNodeRemoval, ShutdownInv, appVars, poolVars, execVars
<1>7. CASE UNCHANGED vars
  BY <1>7 DEF vars, appVars, poolVars, execVars, ShutdownInv
<1>8. QED
  BY <1>1, <1>2, <1>3, <1>4, <1>5, <1>6, <1>7 DEF Next

(* No generator sends on the closed channel of the pool: Shutdown stops    *)
(* the application, and waits for it, before Close closes the channel.     *)
THEOREM ChannelIsClosedLast == Spec => []NoSendOnClosedChannel
<1>1. ShutdownInv => NoSendOnClosedChannel
  BY DEF ShutdownInv, NoSendOnClosedChannel
<1>2. QED
  BY <1>1, ShutdownInvInit, ShutdownInvStep, PTL DEF Spec

-----------------------------------------------------------------------------
(* The initial values have their types. *)
LEMMA InitType == Init => TypeOK
<1> SUFFICES ASSUME Init PROVE TypeOK
  OBVIOUS
<1>1. target \in Nodes
  BY UsersAssumption DEF Init
<1>2. /\ budget \in 0 .. MaxMessages /\ pending \in 0 .. MaxMessages
      /\ trigger \in 0 .. TriggerCap /\ txs \in 0 .. TxsCap
      /\ generated \in Nat /\ reported \in Nat
  BY CapsAssumption DEF Init
<1>3. /\ triggerClosed => ctl \in {"wait", "returned"}
      /\ triggerClosed \in BOOLEAN /\ txsClosed \in BOOLEAN
  BY DEF Init
<1>4. QED
  BY <1>1, <1>2, <1>3 DEF Init, TypeOK

(* The controller keeps the types: it never fills trigger beyond its       *)
(* capacity, and has left its loop when trigger is closed.                 *)
LEMMA ApplicationType == TypeOK /\ Application => TypeOK'
<1> SUFFICES ASSUME TypeOK, Application PROVE TypeOK'
  OBVIOUS
<1> USE CapsAssumption DEF TypeOK, poolVars, execVars
<1>1. CASE Start
  BY <1>1 DEF Start
<1>2. CASE Replenish
  <2>1. PICK k \in 0 .. budget : pending' = k /\ budget' = budget - k
    BY <1>2 DEF Replenish
  <2>2. pending' \in 0 .. MaxMessages /\ budget' \in 0 .. MaxMessages
    BY <2>1
  <2>3. QED
    BY <1>2, <2>2 DEF Replenish
<1>3. CASE PushTrigger
  <2>1. trigger' \in 0 .. TriggerCap /\ pending' \in 0 .. MaxMessages
    BY <1>3 DEF PushTrigger
  <2>2. QED
    BY <1>3, <2>1 DEF PushTrigger
<1>4. CASE SelectTimer \/ RunReturns
  BY <1>4 DEF SelectTimer, RunReturns
<1>5. CASE SelectDone
  <2>1. triggerClosed' = TRUE /\ ctl' = "wait"
    BY <1>5 DEF SelectDone, afterClose, closeTrigger
  <2>2. QED
    BY <1>5, <2>1 DEF SelectDone
<1>6. QED
  BY <1>1, <1>2, <1>3, <1>4, <1>5 DEF Application

(* So do the generators: a place in the channel is waited for. *)
LEMMA GeneratorType ==
  ASSUME TypeOK, NEW u \in Users, Generator(u)
  PROVE  TypeOK'
<1> USE CapsAssumption DEF TypeOK, appVars, poolVars, execVars
<1>1. CASE GenerateTx(u)
  <2>1. trigger' \in 0 .. TriggerCap /\ generated' \in Nat
    BY <1>1 DEF GenerateTx
  <2>2. gen' \in [Users -> {"none", "wait", "send", "done"}]
    BY <1>1 DEF GenerateTx
  <2>3. QED
    BY <1>1, <2>1, <2>2 DEF GenerateTx
<1>2. CASE SendTransaction(u)
  <2>1. txs' \in 0 .. TxsCap
    BY <1>2 DEF SendTransaction
  <2>2. QED
    BY <1>2, <2>1 DEF SendTransaction
<1>3. CASE GeneratorEnds(u)
  BY <1>3 DEF GeneratorEnds
<1>4. QED
  BY <1>1, <1>2, <1>3 DEF Generator

(* So do the workers and the nodes that come and go. *)
LEMMA NodeType ==
  ASSUME TypeOK, NEW n \in Nodes,
         Worker(n) \/ AfterNodeCreation(n) \/ BeforeNodeRemoval(n)
  PROVE  TypeOK'
<1> USE CapsAssumption DEF TypeOK, appVars, poolVars, execVars
<1>1. CASE Dial(n) \/ WorkerEnds(n)
  BY <1>1 DEF Dial, WorkerEnds
<1>2. CASE Take(n)
  <2>1. txs' \in 0 .. TxsCap
    BY <1>2 DEF Take
  <2>2. QED
    BY <1>2, <2>1 DEF Take
<1>3. CASE Sent(n)
  BY <1>3 DEF Sent, reportedBy
<1>4. CASE AfterNodeCreation(n) \/ BeforeNodeRemoval(n)
  BY <1>4 DEF AfterNodeCreation, BeforeNodeRemoval
<1>5. QED
  BY <1>1, <1>2, <1>3, <1>4 DEF Worker

(* Every step keeps the types. *)
LEMMA StepType == TypeOK /\ [Next]_vars => TypeOK'
<1> SUFFICES ASSUME TypeOK, [Next]_vars PROVE TypeOK'
  OBVIOUS
<1>1. CASE Waiting \/ CancelContext \/ Stop("stopApp") \/ Stop("shutdown")
  <2> USE DEF TypeOK, appVars, poolVars, execVars
  <2>1. CASE NodeRemoved \/ AppStopped \/ ClosePool
    BY <2>1 DEF NodeRemoved, AppStopped, ClosePool
  <2>2. CASE PoolClosed
    BY <2>2 DEF PoolClosed
  <2>3. CASE CancelContext \/ Stop("stopApp") \/ Stop("shutdown")
    BY <2>3 DEF CancelContext, Stop
  <2>4. QED
    BY <1>1, <2>1, <2>2, <2>3 DEF Waiting
<1>2. CASE UNCHANGED vars
  BY <1>2 DEF vars, appVars, poolVars, execVars, TypeOK
<1>3. QED
  BY <1>1, <1>2, ApplicationType, GeneratorType, NodeType DEF Next

(* The queues of the pipeline stay within their capacities, and the        *)
(* channel of triggers is closed by a controller that has left its loop.   *)
THEOREM TypeCorrect == Spec => []TypeOK
  BY InitType, StepType, PTL DEF Spec

-----------------------------------------------------------------------------
(* How many of S are at v. *)
Count(S, f, v) == Cardinality({y \in S : f[y] = v})

(* One process that arrives at v is one more there, and one that leaves is *)
(* one less.                                                               *)
LEMMA OneMore ==
  ASSUME NEW S, IsFiniteSet(S), NEW f, NEW g, NEW v, NEW x \in S,
         f[x] # v, g[x] = v, \A y \in S \ {x} : g[y] = f[y]
  PROVE  /\ Count(S, f, v) \in Nat
         /\ Count(S, g, v) = Count(S, f, v) + 1
<1> DEFINE F == {y \in S : f[y] = v}
<1>1. {y \in S : g[y] = v} = F \cup {x}
  OBVIOUS
<1>2. IsFiniteSet(F)
  BY FS_Subset
<1>3. x \notin F
  OBVIOUS
<1>4. Cardinality(F \cup {x}) = Cardinality(F) + 1
  BY <1>2, <1>3, FS_AddElement
<1>5. Cardinality(F) \in Nat
  BY <1>2, FS_CardinalityType
<1>6. QED
  BY <1>1, <1>4, <1>5 DEF Count

(* One process that moves between other places changes nothing. *)
LEMMA SameNumber ==
  ASSUME NEW S, NEW f, NEW g, NEW v, \A y \in S : g[y] = v <=> f[y] = v
  PROVE  Count(S, g, v) = Count(S, f, v)
<1>1. {y \in S : g[y] = v} = {y \in S : f[y] = v}
  OBVIOUS
<1>2. QED
  BY <1>1 DEF Count

(* The workers of a node without a worker group have ended. *)
DetachedInv ==
  /\ \A n \in Nodes \ attached : worker[n] \in {"none", "done"}
  /\ exec = "removing" => target \in Nodes

(* A transaction is generated, passed on or reported, and it is in one of  *)
(* the places that EveryTxIsReported adds up; a generator that starts and  *)
(* a worker group that is attached hold none.                              *)
ReportInv == TypeOK /\ ShutdownInv /\ DetachedInv /\ EveryTxIsReported

(* The invariant holds initially. *)
LEMMA ReportInvInit == Init => ReportInv
<1> SUFFICES ASSUME Init PROVE ReportInv
  OBVIOUS
<1>1. {u \in Users : gen[u] = "send"} = {} /\ {n \in Nodes : worker[n] = "sending"} = {}
  BY DEF Init
<1>2. EveryTxIsReported
  BY <1>1, FS_EmptySet DEF Init, EveryTxIsReported
<1>3. DetachedInv
  BY DEF Init, DetachedInv
<1>4. QED
  BY <1>2, <1>3, InitType, ShutdownInvInit DEF ReportInv

(* The sum in terms of Count. *)
LEMMA SumOfPlaces ==
  /\ EveryTxIsReported <=>
       generated = reported + txs + Count(Users, gen, "send") + Count(Nodes, worker, "sending")
  /\ (EveryTxIsReported)' <=>
       generated' = reported' + txs' + Count(Users, gen', "send")
                    + Count(Nodes, worker', "sending")
  BY DEF EveryTxIsReported, Count

(* The number is a natural one. *)
LEMMA CountIsNat ==
  ASSUME NEW S, IsFiniteSet(S), NEW f, NEW v
  PROVE  Count(S, f, v) \in Nat
<1>1. IsFiniteSet({y \in S : f[y] = v})
  BY FS_Subset
<1>2. QED
  BY <1>1, FS_CardinalityType DEF Count

(* A step of a generator: a transaction is generated, or moves on to the   *)
(* channel.                                                                *)
LEMMA GeneratorReports ==
  ASSUME ReportInv, NEW u \in Users, Generator(u)
  PROVE  EveryTxIsReported'
<1> USE DEF ReportInv
<1>1. gen \in [Users -> {"none", "wait", "send", "done"}] /\ txs \in Nat /\ reported \in Nat
  BY CapsAssumption DEF TypeOK
<1>a. /\ Count(Users, gen, "send") \in Nat /\ Count(Users, gen', "send") \in Nat
      /\ Count(Nodes, worker, "sending") \in Nat
  BY UsersAssumption, CountIsNat
<1>2. worker' = worker /\ reported' = reported
  BY DEF Generator, GenerateTx, SendTransaction, GeneratorEnds
<1>3. CASE GenerateTx(u) /\ gen' = [gen EXCEPT ![u] = "send"]
  <2>1. Count(Users, gen', "send") = Count(Users, gen, "send") + 1
    <3>1. gen[u] # "send" /\ gen'[u] = "send" /\ \A y \in Users \ {u} : gen'[y] = gen[y]
      BY <1>1, <1>3 DEF GenerateTx
    <3>2. QED
      BY <3>1, UsersAssumption, OneMore
  <2>2. generated' = generated + 1 /\ txs' = txs
    BY <1>1, <1>3 DEF GenerateTx
  <2>3. QED
    BY <1>1, <1>a, <1>2, <2>1, <2>2, SumOfPlaces
<1>4. CASE SendTransaction(u)
  <2>1. Count(Users, gen, "send") = Count(Users, gen', "send") + 1
    <3>1. gen[u] = "send" /\ gen'[u] # "send" /\ \A y \in Users \ {u} : gen[y] = gen'[y]
      BY <1>1, <1>4 DEF SendTransaction
    <3>2. QED
      BY <3>1, UsersAssumption, OneMore
  <2>2. txs' = txs + 1 /\ generated' = generated
    BY <1>4 DEF SendTransaction
  <2>3. QED
    BY <1>1, <1>a, <1>2, <2>1, <2>2, SumOfPlaces
<1>5. CASE GeneratorEnds(u) \/ (GenerateTx(u) /\ gen' = gen /\ generated' = generated)
  <2>1. \A y \in Users : gen'[y] = "send" <=> gen[y] = "send"
    BY <1>1, <1>5 DEF GeneratorEnds, GenerateTx
  <2>2. Count(Users, gen', "send") = Count(Users, gen, "send")
    BY <2>1, SameNumber
  <2>3. UNCHANGED <<generated, txs>>
    BY <1>5 DEF GeneratorEnds, GenerateTx
  <2>4. QED
    BY <1>1, <1>2, <2>2, <2>3, SumOfPlaces
<1>6. CASE GenerateTx(u)
  BY <1>3, <1>5, <1>6 DEF GenerateTx
<1>7. QED
  BY <1>4, <1>5, <1>6 DEF Generator

(* A step of the workers of a node: a transaction is taken from the        *)
(* channel, or reported.                                                   *)
LEMMA WorkerReports ==
  ASSUME ReportInv, NEW n \in Nodes, Worker(n)
  PROVE  EveryTxIsReported'
<1> USE DEF ReportInv
<1>1. /\ worker \in [Nodes -> {"none", "dialing", "idle", "sending", "done"}]
      /\ txs \in Nat /\ reported \in Nat
  BY CapsAssumption DEF TypeOK
<1>2. /\ Count(Nodes, worker, "sending") \in Nat /\ Count(Nodes, worker', "sending") \in Nat
      /\ Count(Users, gen, "send") \in Nat
  BY UsersAssumption, CountIsNat
<1>3. gen' = gen /\ generated' = generated
  BY DEF Worker, Dial, Take, Sent, WorkerEnds
<1>4. CASE Take(n)
  <2>1. Count(Nodes, worker', "sending") = Count(Nodes, worker, "sending") + 1
    <3>1. /\ worker[n] # "sending" /\ worker'[n] = "sending"
          /\ \A y \in Nodes \ {n} : worker'[y] = worker[y]
      BY <1>1, <1>4 DEF Take
    <3>2. QED
      BY <3>1, UsersAssumption, OneMore
  <2>2. txs = txs' + 1 /\ txs' \in Nat /\ reported' = reported
    BY <1>1, <1>4 DEF Take
  <2>3. QED
    BY <1>1, <1>2, <1>3, <2>1, <2>2, SumOfPlaces
<1>5. CASE Sent(n)
  <2>1. Count(Nodes, worker, "sending") = Count(Nodes, worker', "sending") + 1
    <3>1. /\ worker[n] = "sending" /\ worker'[n] # "sending"
          /\ \A y \in Nodes \ {n} : worker[y] = worker'[y]
      BY <1>1, <1>5 DEF Sent
    <3>2. QED
      BY <3>1, UsersAssumption, OneMore
  <2>2. reported' = reported + 1 /\ txs' = txs
    BY <1>5 DEF Sent, reportedBy
  <2>3. QED
    BY <1>1, <1>2, <1>3, <2>1, <2>2, SumOfPlaces
<1>6. CASE Dial(n) \/ WorkerEnds(n)
  <2>1. \A y \in Nodes : worker'[y] = "sending" <=> worker[y] = "sending"
    BY <1>1, <1>6 DEF Dial, WorkerEnds
  <2>2. Count(Nodes, worker', "sending") = Count(Nodes, worker, "sending")
    BY <2>1, SameNumber
  <2>3. UNCHANGED <<reported, txs>>
    BY <1>6 DEF Dial, WorkerEnds
  <2>4. QED
    BY <1>1, <1>3, <2>2, <2>3, SumOfPlaces
<1>7. QED
  BY <1>4, <1>5, <1>6 DEF Worker

(* Every other step leaves the transactions where they are: generators     *)
(* that start were not there, and the workers that a new group replaces    *)
(* have ended.                                                             *)
LEMMA OthersReport ==
  ASSUME ReportInv,
         \/ Application \/ Waiting \/ CancelContext
         \/ Stop("stopApp") \/ Stop("shutdown")
         \/ \E n \in Nodes : AfterNodeCreation(n) \/ BeforeNodeRemoval(n)
         \/ UNCHANGED vars
  PROVE  EveryTxIsReported'
<1> USE SumOfPlaces DEF ReportInv
<1>1. UNCHANGED <<generated, reported, txs>>
  BY DEF Application, Start, Replenish, PushTrigger, SelectTimer, SelectDone,
         RunReturns, Waiting, NodeRemoved, AppStopped, ClosePool, PoolClosed,
         CancelContext, Stop, AfterNodeCreation, BeforeNodeRemoval, vars
<1>2. \A u \in Users : gen'[u] = "send" <=> gen[u] = "send"
  <2>1. CASE Start
    BY <2>1 DEF Start, ShutdownInv
  <2>2. CASE gen' = gen
    BY <2>2
  <2>3. QED
    BY <2>1, <2>2
    DEF Application, Replenish, PushTrigger, SelectTimer, SelectDone,
        RunReturns, Waiting, NodeRemoved, AppStopped, ClosePool, PoolClosed,
        CancelContext, Stop, AfterNodeCreation, BeforeNodeRemoval, vars
<1>3. \A n \in Nodes : worker'[n] = "sending" <=> worker[n] = "sending"
  <2>1. ASSUME NEW n \in Nodes, AfterNodeCreation(n)
        PROVE \A y \in Nodes : worker'[y] = "sending" <=> worker[y] = "sending"
    BY <2>1 DEF AfterNodeCreation, DetachedInv, TypeOK
  <2>2. CASE worker' = worker
    BY <2>2
  <2>3. QED
    BY <2>1, <2>2
    DEF Application, Start, Replenish, PushTrigger, SelectTimer, SelectDone,
        RunReturns, Waiting, NodeRemoved, AppStopped, ClosePool, PoolClosed,
        CancelContext, Stop, BeforeNodeRemoval, vars
<1>4. /\ Count(Users, gen', "send") = Count(Users, gen, "send")
      /\ Count(Nodes, worker', "sending") = Count(Nodes, worker, "sending")
  BY <1>2, <1>3, SameNumber
<1>5. QED
  BY <1>1, <1>4

(* A worker group is detached only after its workers ended, and workers    *)
(* that ended do not come back but in a new group.                         *)
LEMMA DetachedStep == TypeOK /\ DetachedInv /\ [Next]_vars => DetachedInv'
<1> SUFFICES ASSUME TypeOK, DetachedInv, [Next]_vars PROVE DetachedInv'
  OBVIOUS
<1> USE DEF DetachedInv, appVars, poolVars, execVars
<1>1. CASE Application
  BY <1>1 DEF Application, Start, Replenish, PushTrigger, SelectTimer, SelectDone,
              RunReturns
<1>2. CASE Waiting
  BY <1>2 DEF Waiting, NodeRemoved, AppStopped, ClosePool, PoolClosed
<1>3. CASE CancelContext \/ Stop("stopApp") \/ Stop("shutdown")
  BY <1>3 DEF CancelContext, Stop
<1>4. ASSUME NEW u \in Users, Generator(u) PROVE DetachedInv'
  BY <1>4 DEF Generator, GenerateTx, SendTransaction, GeneratorEnds
<1>5. ASSUME NEW n \in Nodes, Worker(n) PROVE DetachedInv'
  BY <1>5 DEF Worker, Dial, Take, Sent, WorkerEnds, TypeOK
<1>6. ASSUME NEW n \in Nodes, AfterNodeCreation(n) \/ BeforeNodeRemoval(n)
      PROVE DetachedInv'
  BY <1>6 DEF AfterNodeCreation, BeforeNodeRemoval, TypeOK
<1>7. CASE UNCHANGED vars
  BY <1>7 DEF vars
<1>8. QED
  BY <1>1, <1>2, <1>3, <1>4, <1>5, <1>6, <1>7 DEF Next

(* Every step keeps the invariant. *)
LEMMA ReportInvStep == ReportInv /\ [Next]_vars => ReportInv'
<1> SUFFICES ASSUME ReportInv, [Next]_vars PROVE ReportInv'
  OBVIOUS
<1>1. EveryTxIsReported'
  BY GeneratorReports, WorkerReports, OthersReport DEF Next
<1>2. QED
  BY <1>1, StepType, ShutdownInvStep, DetachedStep DEF ReportInv

(* No generated transaction is lost between the generators, the channel    *)
(* and the workers, whatever nodes are removed or resumed and however the  *)
(* application is stopped meanwhile: its submission is reported to the     *)
(* observers, or it is still on its way.                                   *)
THEOREM NoTxIsLost == Spec => []EveryTxIsReported
<1>1. ReportInv => EveryTxIsReported
  BY DEF ReportInv
<1>2. QED
  BY <1>1, ReportInvInit, ReportInvStep, PTL DEF Spec

-----------------------------------------------------------------------------
(* The applications *)

(* What a plan of an application has to do with its set-up: the accounts   *)
(* that pay are funded, the ones whose tokens are spent get some.          *)
PlanFits(plan, app) ==
  /\ plan.mode \in {"plain", "allOf", "oneOf"}
  /\ Len(plan.steps) \in 1 .. 3 /\ DOMAIN plan.steps = 1 .. Len(plan.steps)
  /\ \A i \in DOMAIN plan.steps :
       /\ plan.steps[i].acc \in app.accounts
       /\ plan.steps[i].nonce \in Nat
       /\ "gain" \in DOMAIN plan.steps[i] /\ plan.steps[i].gain \in {0, 1}
       /\ plan.steps[i].pays => plan.steps[i].acc \in app.funded
       /\ plan.steps[i].spends \subseteq app.minted

AppFits(app) ==
  /\ \A plan \in app.plans : PlanFits(plan, app)
  /\ app.funded \subseteq app.accounts /\ app.minted \subseteq app.accounts
  /\ IsFiniteSet(app.funded)
  /\ app.nonces = "local" => "A" \in app.accounts

(* A plan that adds at most one to what is counted as received: only one   *)
(* of its steps may succeed, or only one of them counts.                   *)
GainsOne(mode, steps) ==
  \/ mode = "oneOf"
  \/ \A i, j \in DOMAIN steps : steps[i].gain = 1 /\ steps[j].gain = 1 => i = j

AppGainsOne(app) == \A plan \in app.plans : GainsOne(plan.mode, plan.steps)

(* Sets of at most two accounts are finite. *)
LEMMA RolesAreFinite ==
  \A S : S \in {{}, {"A"}, {"B"}, {"A", "B"}} => IsFiniteSet(S)
<1>1. IsFiniteSet({}) /\ IsFiniteSet({"A"}) /\ IsFiniteSet({"B"})
  BY FS_EmptySet, FS_Singleton
<1>2. IsFiniteSet({"A"} \cup {"B"})
  BY <1>1, FS_AddElement
<1>3. {"A"} \cup {"B"} = {"A", "B"}
  OBVIOUS
<1> QED
  BY <1>1, <1>2, <1>3

(* An application whose users send plain transactions. *)
LEMMA PlainFits ==
  ASSUME NEW checked, NEW pays, NEW reverts, NEW f \in {{}, {"A"}}, NEW m \in {{}, {"A"}},
         pays => f = {"A"}
  PROVE  /\ AppFits(LocalApp(checked, f, m, Plain(pays, m, reverts)))
         /\ AppGainsOne(LocalApp(checked, f, m, Plain(pays, m, reverts)))
<1> DEFINE app == LocalApp(checked, f, m, Plain(pays, m, reverts))
           st == Step("A", 0, pays, m, 1, reverts)
<1>1. app.accounts = {"A"} /\ app.funded = f /\ app.minted = m
  BY DEF LocalApp
<1>2. app.plans = {[mode |-> "plain", steps |-> <<st>>]}
  BY DEF LocalApp, Plain
<1>3. /\ st.acc = "A" /\ st.nonce = 0 /\ st.gain = 1 /\ st.pays = pays /\ st.spends = m
      /\ "gain" \in DOMAIN st
  BY DEF Step
<1>4. IsFiniteSet(f)
  BY RolesAreFinite
<1> HIDE DEF st, app
<1>5. DOMAIN <<st>> = {1} /\ Len(<<st>>) = 1 /\ <<st>>[1] = st /\ 1 .. 1 = {1}
  OBVIOUS
<1>6. \A plan \in app.plans : PlanFits(plan, app) /\ GainsOne(plan.mode, plan.steps)
  BY <1>1, <1>2, <1>3, <1>5 DEF PlanFits, GainsOne
<1>7. "A" \in app.accounts /\ app.funded \subseteq app.accounts /\ app.minted \subseteq app.accounts
  BY <1>1
<1> QED
  BY <1>1, <1>4, <1>6, <1>7 DEF AppFits, AppGainsOne, app

(* The applications that keep the nonces of their accounts themselves. *)
LEMMA LocalAppsFit ==
  \A app \in {counter, store, transient, selfdestructoldcontract, selfdestructnewcontract,
              ecdsa, largecontract, smartaccount, subsidies, bls12add, erc20, uniswap} :
    AppFits(app) /\ AppGainsOne(app)
<1>1. AppFits(CallApp) /\ AppGainsOne(CallApp)
  BY PlainFits DEF CallApp
<1>2. AppFits(smartaccount) /\ AppGainsOne(smartaccount)
  BY PlainFits DEF smartaccount, SmartAccountUser
<1>3. AppFits(subsidies) /\ AppGainsOne(subsidies)
  BY PlainFits DEF subsidies
<1>4. AppFits(bls12add) /\ AppGainsOne(bls12add)
  BY PlainFits DEF bls12add
<1>5. AppFits(erc20) /\ AppGainsOne(erc20)
  BY PlainFits DEF erc20
<1>6. AppFits(uniswap) /\ AppGainsOne(uniswap)
  BY PlainFits DEF uniswap, UniswapUser
<1> QED
  BY <1>1, <1>2, <1>3, <1>4, <1>5, <1>6
     DEF counter, store, transient, selfdestructoldcontract, selfdestructnewcontract, ecdsa,
         largecontract

(* A plan of two steps. *)
LEMMA TwoStepsFit ==
  ASSUME NEW app, NEW mode \in {"allOf", "oneOf"}, NEW s, NEW t,
         \A st \in {s, t} :
           /\ st.acc \in app.accounts /\ st.nonce \in Nat
           /\ "gain" \in DOMAIN st /\ st.gain \in {0, 1}
           /\ st.pays => st.acc \in app.funded
           /\ st.spends \subseteq app.minted
  PROVE  /\ PlanFits([mode |-> mode, steps |-> <<s, t>>], app)
         /\ (mode = "oneOf" \/ s.gain = 0) => GainsOne(mode, <<s, t>>)
<1>1. /\ DOMAIN <<s, t>> = 1 .. 2 /\ Len(<<s, t>>) = 2 /\ <<s, t>>[1] = s /\ <<s, t>>[2] = t
      /\ 1 .. 2 = {1, 2}
  OBVIOUS
<1> DEFINE q == <<s, t>>
<1> HIDE DEF q
<1>2. \A i \in DOMAIN q : q[i] \in {s, t}
  BY <1>1 DEF q
<1>3. PlanFits([mode |-> mode, steps |-> q], app)
  BY <1>1, <1>2 DEF PlanFits, q
<1>4. (mode = "oneOf" \/ s.gain = 0) => GainsOne(mode, q)
  BY <1>1 DEF GainsOne, q
<1> QED
  BY <1>3, <1>4 DEF q

(* A plan of three steps. *)
LEMMA ThreeStepsFit ==
  ASSUME NEW app, NEW mode \in {"allOf", "oneOf"}, NEW s, NEW t, NEW u,
         \A st \in {s, t, u} :
           /\ st.acc \in app.accounts /\ st.nonce \in Nat
           /\ "gain" \in DOMAIN st /\ st.gain \in {0, 1}
           /\ st.pays => st.acc \in app.funded
           /\ st.spends \subseteq app.minted
  PROVE  /\ PlanFits([mode |-> mode, steps |-> <<s, t, u>>], app)
         /\ (s.gain = 0 /\ t.gain = 0) => GainsOne(mode, <<s, t, u>>)
<1>1. /\ DOMAIN <<s, t, u>> = 1 .. 3 /\ Len(<<s, t, u>>) = 3
      /\ <<s, t, u>>[1] = s /\ <<s, t, u>>[2] = t /\ <<s, t, u>>[3] = u
      /\ 1 .. 3 = {1, 2, 3}
  OBVIOUS
<1> DEFINE q == <<s, t, u>>
<1> HIDE DEF q
<1>2. \A i \in DOMAIN q : q[i] \in {s, t, u}
  BY <1>1 DEF q
<1>3. PlanFits([mode |-> mode, steps |-> q], app)
  BY <1>1, <1>2 DEF PlanFits, q
<1>4. (s.gain = 0 /\ t.gain = 0) => GainsOne(mode, q)
  BY <1>1 DEF GainsOne, q
<1> QED
  BY <1>3, <1>4 DEF q

(* The five applications that send bundles: A approves, B transfers. *)
LEMMA AllOfBundleFits == AppFits(allofbundle) /\ AppGainsOne(allofbundle)
<1> DEFINE s == Step("A", 0, TRUE, {}, 0, BOOLEAN)
           t == Step("B", 0, TRUE, {"A"}, 1, BOOLEAN)
<1>1. /\ allofbundle.accounts = {"A", "B"} /\ allofbundle.funded = {"A", "B"}
      /\ allofbundle.minted = {"A"} /\ allofbundle.nonces = "chain"
      /\ allofbundle.plans = {[mode |-> "allOf", steps |-> <<s, t>>]}
  BY DEF BundleApp, allofbundle, AllOfBundleUser
<1>2. /\ s.acc = "A" /\ s.nonce = 0 /\ s.pays /\ s.spends = {} /\ s.gain = 0
      /\ t.acc = "B" /\ t.nonce = 0 /\ t.pays /\ t.spends = {"A"} /\ t.gain = 1
      /\ "gain" \in DOMAIN s /\ "gain" \in DOMAIN t
  BY DEF Step
<1> HIDE DEF s, t
<1>3. /\ PlanFits([mode |-> "allOf", steps |-> <<s, t>>], allofbundle)
      /\ GainsOne("allOf", <<s, t>>)
  BY <1>1, <1>2, TwoStepsFit
<1> QED
  BY <1>1, <1>3, RolesAreFinite DEF AppFits, AppGainsOne

(* The transfer that succeeds and the one that exceeds the balance. *)
LEMMA OneOfBundleFits == AppFits(oneofbundle) /\ AppGainsOne(oneofbundle)
<1> DEFINE s == Step("A", 0, TRUE, {"A"}, 1, BOOLEAN)
           f == Step("A", 0, TRUE, {"A"}, 0, {TRUE})
           t == Step("A", 1, TRUE, {"A"}, 1, BOOLEAN)
<1>1. /\ oneofbundle.accounts = {"A"} /\ oneofbundle.funded = {"A"}
      /\ oneofbundle.minted = {"A"} /\ oneofbundle.nonces = "chain"
      /\ oneofbundle.plans = {[mode |-> "oneOf", steps |-> <<s, f>>],
                              [mode |-> "oneOf", steps |-> <<f, t>>]}
  BY DEF BundleApp, oneofbundle, OneOfBundleUser
<1>2. /\ s.acc = "A" /\ s.nonce = 0 /\ s.pays /\ s.spends = {"A"} /\ s.gain = 1
      /\ f.acc = "A" /\ f.nonce = 0 /\ f.pays /\ f.spends = {"A"} /\ f.gain = 0
      /\ t.acc = "A" /\ t.nonce = 1 /\ t.pays /\ t.spends = {"A"} /\ t.gain = 1
      /\ "gain" \in DOMAIN s /\ "gain" \in DOMAIN f /\ "gain" \in DOMAIN t
  BY DEF Step
<1> HIDE DEF s, f, t
<1>3. /\ PlanFits([mode |-> "oneOf", steps |-> <<s, f>>], oneofbundle)
      /\ GainsOne("oneOf", <<s, f>>)
  BY <1>1, <1>2, TwoStepsFit
<1>4. /\ PlanFits([mode |-> "oneOf", steps |-> <<f, t>>], oneofbundle)
      /\ GainsOne("oneOf", <<f, t>>)
  BY <1>1, <1>2, TwoStepsFit
<1> QED
  BY <1>1, <1>3, <1>4, RolesAreFinite DEF AppFits, AppGainsOne

(* Only the sponsor pays, and the approval counts nothing. *)
LEMMA SubsidizedBundleFits == AppFits(subsidizedbundle) /\ AppGainsOne(subsidizedbundle)
<1> DEFINE s == Step("B", 0, TRUE, {}, 0, BOOLEAN)
           t == Step("A", 0, FALSE, {}, 0, BOOLEAN)
           u == Step("B", 1, TRUE, {"A"}, 1, BOOLEAN)
<1>1. /\ subsidizedbundle.accounts = {"A", "B"} /\ subsidizedbundle.funded = {"B"}
      /\ subsidizedbundle.minted = {"A"} /\ subsidizedbundle.nonces = "chain"
      /\ subsidizedbundle.plans = {[mode |-> "allOf", steps |-> <<s, t, u>>]}
  BY DEF BundleApp, subsidizedbundle, SubsidizedBundleUser
<1>2. /\ s.acc = "B" /\ s.nonce = 0 /\ s.pays /\ s.spends = {} /\ s.gain = 0
      /\ t.acc = "A" /\ t.nonce = 0 /\ ~t.pays /\ t.spends = {} /\ t.gain = 0
      /\ u.acc = "B" /\ u.nonce = 1 /\ u.pays /\ u.spends = {"A"} /\ u.gain = 1
      /\ "gain" \in DOMAIN s /\ "gain" \in DOMAIN t /\ "gain" \in DOMAIN u
  BY DEF Step
<1> HIDE DEF s, t, u
<1>3. /\ PlanFits([mode |-> "allOf", steps |-> <<s, t, u>>], subsidizedbundle)
      /\ GainsOne("allOf", <<s, t, u>>)
  BY <1>1, <1>2, ThreeStepsFit
<1> QED
  BY <1>1, <1>3, RolesAreFinite DEF AppFits, AppGainsOne

(* Both calls count, so that an allOf counts twice. *)
LEMMA FailingBundleFits == AppFits(failingbundle)
<1> DEFINE s == Step("A", 0, TRUE, {}, 1, BOOLEAN)
           t == Step("B", 0, TRUE, {}, 1, BOOLEAN)
<1>1. /\ failingbundle.accounts = {"A", "B"} /\ failingbundle.funded = {"A", "B"}
      /\ failingbundle.minted = {} /\ failingbundle.nonces = "chain"
      /\ failingbundle.plans = {[mode |-> m, steps |-> <<s, t>>] : m \in {"allOf", "oneOf"}}
  BY DEF BundleApp, failingbundle, FailingBundleUser
<1>2. /\ s.acc = "A" /\ s.nonce = 0 /\ s.pays /\ s.spends = {} /\ s.gain = 1
      /\ t.acc = "B" /\ t.nonce = 0 /\ t.pays /\ t.spends = {} /\ t.gain = 1
      /\ "gain" \in DOMAIN s /\ "gain" \in DOMAIN t
  BY DEF Step
<1> HIDE DEF s, t
<1>3. \A m \in {"allOf", "oneOf"} : PlanFits([mode |-> m, steps |-> <<s, t>>], failingbundle)
  BY <1>1, <1>2, TwoStepsFit
<1> QED
  BY <1>1, <1>3, RolesAreFinite DEF AppFits

(* One transfer of two, or two of which one counts. *)
LEMMA DuplicatedBundleFits == AppFits(duplicatedbundle) /\ AppGainsOne(duplicatedbundle)
<1> DEFINE s == Step("A", 0, TRUE, {"A"}, 1, BOOLEAN)
           t == Step("B", 0, TRUE, {"B"}, 1, BOOLEAN)
           f == Step("A", 0, TRUE, {"A"}, 0, BOOLEAN)
<1>1. /\ duplicatedbundle.accounts = {"A", "B"} /\ duplicatedbundle.funded = {"A", "B"}
      /\ duplicatedbundle.minted = {"A", "B"} /\ duplicatedbundle.nonces = "chain"
      /\ duplicatedbundle.plans = {[mode |-> "oneOf", steps |-> <<s, t>>],
                                   [mode |-> "allOf", steps |-> <<f, t>>]}
  BY DEF BundleApp, duplicatedbundle
<1>2. /\ s.acc = "A" /\ s.nonce = 0 /\ s.pays /\ s.spends = {"A"} /\ s.gain = 1
      /\ t.acc = "B" /\ t.nonce = 0 /\ t.pays /\ t.spends = {"B"} /\ t.gain = 1
      /\ f.acc = "A" /\ f.nonce = 0 /\ f.pays /\ f.spends = {"A"} /\ f.gain = 0
      /\ "gain" \in DOMAIN s /\ "gain" \in DOMAIN f /\ "gain" \in DOMAIN t
  BY DEF Step
<1> HIDE DEF s, f, t
<1>3. /\ PlanFits([mode |-> "oneOf", steps |-> <<s, t>>], duplicatedbundle)
      /\ GainsOne("oneOf", <<s, t>>)
  BY <1>1, <1>2, TwoStepsFit
<1>4. /\ PlanFits([mode |-> "allOf", steps |-> <<f, t>>], duplicatedbundle)
      /\ GainsOne("allOf", <<f, t>>)
  BY <1>1, <1>2, TwoStepsFit
<1> QED
  BY <1>1, <1>3, <1>4, RolesAreFinite DEF AppFits, AppGainsOne

(* Every application of the factory. *)
LEMMA AppsFit ==
  \A k \in DOMAIN Apps :
    AppFits(Apps[k]) /\ (k # "failingbundle" => AppGainsOne(Apps[k]))
<1>1. ASSUME NEW k \in DOMAIN Apps
      PROVE  \/ Apps[k] \in {counter, store, transient, selfdestructoldcontract,
                             selfdestructnewcontract, ecdsa, largecontract, smartaccount,
                             subsidies, bls12add, erc20, uniswap}
             \/ Apps[k] \in {allofbundle, oneofbundle, subsidizedbundle, duplicatedbundle}
             \/ k = "failingbundle" /\ Apps[k] = failingbundle
  BY <1>1 DEF Apps
<1> QED
  BY <1>1, LocalAppsFit, AllOfBundleFits, OneOfBundleFits, SubsidizedBundleFits,
     FailingBundleFits, DuplicatedBundleFits

-----------------------------------------------------------------------------
(* The set-up *)

(* The accounts of the users of a type are finitely many. *)
LEMMA AccountsAreFinite ==
  ASSUME NEW k, NEW roles, IsFiniteSet(roles)
  PROVE  IsFiniteSet(AccountsOf(k, roles))
<1> DEFINE D == AppUsers \X roles
           f == [p \in D |-> <<k, p[1], p[2]>>]
<1>1. IsFiniteSet(D)
  BY LoadAssumption, FS_Product
<1>2. f \in Surjection(D, AccountsOf(k, roles))
  <2>1. \A p \in D : f[p] \in AccountsOf(k, roles)
    BY DEF AccountsOf
  <2>2. \A a \in AccountsOf(k, roles) : \E p \in D : f[p] = a
    <3> TAKE a \in AccountsOf(k, roles)
    <3>1. PICK u \in AppUsers, r \in roles : a = <<k, u, r>>
      BY DEF AccountsOf
    <3>2. <<u, r>> \in D /\ f[<<u, r>>] = a
      BY <3>1
    <3> QED
      BY <3>2
  <2> QED
    BY <2>1, <2>2 DEF Surjection
<1> QED
  BY <1>1, <1>2, FS_Surjection

(* A finite set put in order. *)
LEMMA SetInOrder ==
  ASSUME NEW S, IsFiniteSet(S)
  PROVE  SetToSeq(S) \in Seq(S) /\ Range(SetToSeq(S)) = S
<1> DEFINE n == Cardinality(S)
           s == SetToSeq(S)
<1>1. n \in Nat /\ ExistsBijection(1 .. n, S)
  BY FS_CardinalityType
<1>2. \E f \in [1 .. n -> S] : IsInjective(f)
  BY <1>1 DEF ExistsBijection, Bijection, Injection
<1>3. s \in [1 .. n -> S] /\ IsInjective(s)
  BY <1>2 DEF SetToSeq
<1> HIDE DEF s
<1>4. s \in Seq(S)
  BY <1>1, <1>3, SeqDef
<1>5. s \in Injection(1 .. n, S)
  BY <1>3 DEF Injection
<1>6. Cardinality(1 .. n) = Cardinality(S)
  BY <1>1, FS_Interval
<1>7. s \in Surjection(1 .. n, S)
  BY <1>5, <1>6, FS_Injection
<1> QED
  BY <1>3, <1>4, <1>7 DEF Surjection, Range, s

(* The batch of accounts and what is left of them make up all of them. *)
LEMMA BatchIsPrefix ==
  ASSUME NEW S, NEW s \in Seq(S), s # <<>>
  PROVE  /\ NextBatch(s).rest \in Seq(S)
         /\ Range(s) = NextBatch(s).batch \cup Range(NextBatch(s).rest)
<1> DEFINE n == Len(s)
           m == Min({BatchSize, n})
           pre == SubSeq(s, 1, m)
           rest == SubSeq(s, BatchSize + 1, n)
<1>1. n \in Nat /\ n >= 1 /\ DOMAIN s = 1 .. n /\ \A i \in 1 .. n : s[i] \in S
  BY LenProperties, EmptySeq
<1>2. BatchSize \in Nat /\ BatchSize >= 1
  BY LoadAssumption
<1> HIDE DEF n
<1>3. m \in {BatchSize, n} /\ m <= BatchSize /\ m <= n
  <2>1. IsFiniteSet({BatchSize, n}) /\ {BatchSize, n} \subseteq Int /\ {BatchSize, n} # {}
    <3>1. IsFiniteSet({BatchSize} \cup {n}) /\ {BatchSize} \cup {n} = {BatchSize, n}
      BY FS_Singleton, FS_AddElement
    <3> QED
      BY <1>1, <1>2, <3>1
  <2> QED
    BY <2>1, MinOfFinite
<1>4. m \in 1 .. n
  BY <1>1, <1>2, <1>3
<1> HIDE DEF m
<1>5. /\ pre \in Seq(S) /\ Len(pre) = m
      /\ \A i \in 1 .. m : pre[i] = s[i]
  BY <1>1, <1>4, SubSeqProperties DEF n
<1>6. Range(pre) = {s[i] : i \in 1 .. m}
  <2>1. Range(pre) = {pre[i] : i \in 1 .. m}
    BY <1>5, RangeEquality
  <2> QED
    BY <1>5, <2>1
<1>7. CASE BatchSize >= n
  <2>1. m = n /\ rest = <<>>
    BY <1>1, <1>2, <1>3, <1>7
  <2>2. Range(s) = {s[i] : i \in 1 .. n}
    BY <1>1, RangeEquality DEF n
  <2>3. rest \in Seq(S) /\ Range(rest) = {}
    <3>1. <<>> \in Seq(S) /\ Range(<<>>) = {}
      BY DEF Range
    <3> QED
      BY <2>1, <3>1
  <2> QED
    BY <1>6, <2>1, <2>2, <2>3 DEF NextBatch, m, n
<1>8. CASE BatchSize < n
  <2>1. m = BatchSize
    BY <1>1, <1>2, <1>3, <1>8
  <2>2. /\ rest \in Seq(S) /\ Len(rest) = n - BatchSize
        /\ \A i \in 1 .. n - BatchSize : rest[i] = s[BatchSize + i]
    <3>1. BatchSize + 1 \in 1 .. n + 1 /\ n \in BatchSize .. n
      BY <1>1, <1>2, <1>8
    <3>2. \A i \in BatchSize + 1 .. n : s[i] \in S
      BY <1>1, <1>2
    <3>3. /\ rest \in Seq(S)
          /\ Len(rest) = IF BatchSize + 1 <= n THEN n - (BatchSize + 1) + 1 ELSE 0
          /\ \A i \in 1 .. (n - (BatchSize + 1) + 1) : rest[i] = s[BatchSize + 1 + i - 1]
      BY <1>1, <1>2, <3>1, <3>2, SubSeqProperties DEF n
    <3> QED
      BY <1>1, <1>2, <1>8, <3>3
  <2> HIDE DEF rest
  <2>3. Range(rest) = {rest[i] : i \in 1 .. n - BatchSize}
    BY <2>2, RangeEquality
  <2>4. Range(s) = {s[i] : i \in 1 .. n}
    BY <1>1, RangeEquality DEF n
  <2>5. \A i \in 1 .. n : i > BatchSize =>
          i - BatchSize \in 1 .. n - BatchSize /\ rest[i - BatchSize] = s[i]
    BY <1>1, <1>2, <2>2
  <2>6. \A i \in 1 .. n - BatchSize : BatchSize + i \in 1 .. n
    BY <1>1, <1>2
  <2>7. Range(s) \subseteq Range(pre) \cup Range(rest)
    <3> SUFFICES ASSUME NEW i \in 1 .. n PROVE s[i] \in Range(pre) \cup Range(rest)
      BY <2>4
    <3>1. CASE i <= BatchSize
      BY <1>2, <1>6, <2>1, <3>1
    <3>2. CASE i > BatchSize
      BY <2>3, <2>5, <3>2
    <3> QED
      BY <1>2, <3>1, <3>2
  <2>8. Range(pre) \subseteq Range(s) /\ Range(rest) \subseteq Range(s)
    <3>1. \A i \in 1 .. m : s[i] \in Range(s)
      BY <1>1, <1>4, <2>4
    <3>2. \A i \in 1 .. n - BatchSize : rest[i] \in Range(s)
      BY <2>2, <2>4, <2>6
    <3> QED
      BY <1>6, <2>3, <3>1, <3>2
  <2>9. Range(s) = Range(pre) \cup Range(rest)
    BY <2>7, <2>8
  <2> QED
    BY <2>2, <2>9 DEF NextBatch, m, n, rest
<1> QED
  BY <1>1, <1>2, <1>7, <1>8

(* The accounts of a type that are to be funded, or to get tokens. *)
ToFund(k) == AccountsOf(k, Apps[k].funded)
ToMint(k) == AccountsOf(k, Apps[k].minted)

IsReady(k) == ToFund(k) \subseteq funded /\ ToMint(k) \subseteq minted
IsDeployed(k) == Apps[k].checked => k \in deployed

(* Where the set-up of the types is, in each of its phases: the types that *)
(* are no longer left were dealt with, and the accounts of the current one *)
(* are funded or still in line.                                            *)
SetupInv ==
  /\ types \subseteq DOMAIN Apps
  /\ phase = "deploy" => \A k \in types \ left : IsDeployed(k)
  /\ phase \in {"users", "fund", "run"} => \A k \in types : IsDeployed(k)
  /\ phase = "users" => \A k \in types \ left : IsReady(k)
  /\ phase = "fund" =>
       /\ current \in types /\ unfunded \in Seq(ToFund(current))
       /\ ToFund(current) \subseteq funded \cup Range(unfunded)
       /\ \A k \in types \ left : k # current => IsReady(k)
  /\ phase = "run" => \A k \in types : IsReady(k)

(* Nothing is set up in the beginning. *)
LEMMA SetupInit == AppInit => SetupInv
  BY CasesAssumption DEF AppInit, SetupInv

(* The check of the rate starts the deployments, or rejects. *)
LEMMA CheckRateSetup == ASSUME SetupInv, CheckRate PROVE SetupInv'
  BY DEF SetupInv, CheckRate, caseVars, IsDeployed, IsReady

(* A deployment that goes on left the type deployed or is not looked at. *)
LEMMA DeploySetup == ASSUME SetupInv, NEW k \in types, Deploy(k) PROVE SetupInv'
<1>1. /\ phase = "deploy" /\ left' = left \ {k} /\ deployed \subseteq deployed'
      /\ UNCHANGED types /\ phase' \in {"deploy", "failed"}
      /\ phase' = "deploy" /\ Apps[k].checked => k \in deployed'
  BY DEF Deploy, caseVars
<1>2. \A j \in types \ left : IsDeployed(j)
  BY <1>1 DEF SetupInv
<1>3. phase' = "deploy" => \A j \in types' \ left' : IsDeployed(j)'
  BY <1>1, <1>2 DEF IsDeployed
<1> QED
  BY <1>1, <1>3 DEF SetupInv

(* All types are deployed once none is left. *)
LEMMA NewAppControllerSetup == ASSUME SetupInv, NewAppController PROVE SetupInv'
<1>1. /\ phase = "deploy" /\ left = {} /\ phase' = "users" /\ left' = types
      /\ UNCHANGED <<types, deployed, funded, minted>>
  BY DEF NewAppController, caseVars
<1>2. \A j \in types : IsDeployed(j)
  BY <1>1 DEF SetupInv
<1> QED
  BY <1>1, <1>2 DEF SetupInv, IsDeployed, IsReady

(* The accounts of the type to be funded are all put in line. *)
LEMMA CreateUsersSetup == ASSUME SetupInv, NEW k \in types, CreateUsers(k) PROVE SetupInv'
<1>1. /\ phase = "users" /\ unfunded' = SetToSeq(ToFund(k)) /\ left' = left \ {k}
      /\ current' = k /\ phase' = "fund" /\ UNCHANGED <<types, deployed, funded, minted>>
  BY DEF CreateUsers, caseVars, ToFund
<1>2. IsFiniteSet(ToFund(k))
  BY AppsFit, AccountsAreFinite DEF SetupInv, AppFits, ToFund
<1>3. unfunded' \in Seq(ToFund(k)) /\ Range(unfunded') = ToFund(k)
  BY <1>1, <1>2, SetInOrder
<1>4. /\ \A j \in types : IsDeployed(j)
      /\ \A j \in types \ left : IsReady(j)
  BY <1>1 DEF SetupInv
<1>5. ToFund(current)' = ToFund(k)
  BY <1>1 DEF ToFund, AccountsOf
<1>6. /\ \A j \in types' : IsDeployed(j)'
      /\ \A j \in types' \ left' : j # current' => IsReady(j)'
  BY <1>1, <1>4 DEF IsDeployed, IsReady, ToFund, ToMint, AccountsOf
<1> QED
  BY <1>1, <1>3, <1>5, <1>6 DEF SetupInv

(* A batch takes accounts out of the line and funds them. *)
LEMMA FundAccountsSetup == ASSUME SetupInv, FundAccounts PROVE SetupInv'
<1>1. /\ phase = "fund" /\ unfunded # <<>>
      /\ UNCHANGED <<types, left, current, deployed, minted>>
      /\ \/ /\ funded' = funded \cup NextBatch(unfunded).batch
            /\ unfunded' = NextBatch(unfunded).rest
            /\ phase' = phase
         \/ phase' = "failed"
  BY DEF FundAccounts, caseVars
<1>2. CASE phase' = "failed"
  BY <1>1, <1>2 DEF SetupInv
<1>3. CASE phase' = phase
  <2>1. /\ current \in types /\ unfunded \in Seq(ToFund(current))
        /\ ToFund(current) \subseteq funded \cup Range(unfunded)
        /\ \A k \in types \ left : k # current => IsReady(k)
        /\ \A k \in types : IsDeployed(k)
    BY <1>1 DEF SetupInv
  <2>2. /\ unfunded' \in Seq(ToFund(current))
        /\ Range(unfunded) = NextBatch(unfunded).batch \cup Range(unfunded')
        /\ funded' = funded \cup NextBatch(unfunded).batch
    BY <1>1, <1>3, <2>1, BatchIsPrefix
  <2>3. ToFund(current)' = ToFund(current)
    BY <1>1 DEF ToFund, AccountsOf
  <2>4. /\ \A k \in types' : IsDeployed(k)'
        /\ \A k \in types' \ left' : k # current' => IsReady(k)'
    BY <1>1, <2>1, <2>2 DEF IsDeployed, IsReady, ToFund, ToMint, AccountsOf
  <2>5. ToFund(current)' \subseteq funded' \cup Range(unfunded)'
    BY <2>1, <2>2, <2>3
  <2> QED
    BY <1>1, <1>3, <2>1, <2>2, <2>3, <2>4, <2>5 DEF SetupInv
<1> QED
  BY <1>1, <1>2, <1>3

(* With the line empty and the tokens minted, the type is ready. *)
LEMMA MintForAllSetup == ASSUME SetupInv, MintForAll PROVE SetupInv'
<1>1. /\ phase = "fund" /\ unfunded = <<>>
      /\ UNCHANGED <<types, left, current, deployed, funded>>
      /\ \/ /\ minted' = minted \cup ToMint(current)
            /\ phase' = IF left = {} THEN "run" ELSE "users"
         \/ phase' = "failed"
  BY DEF MintForAll, caseVars, ToMint
<1>2. CASE phase' = "failed"
  BY <1>1, <1>2 DEF SetupInv
<1>3. CASE phase' # "failed"
  <2>1. /\ current \in types /\ ToFund(current) \subseteq funded \cup Range(unfunded)
        /\ \A k \in types \ left : k # current => IsReady(k)
        /\ \A k \in types : IsDeployed(k)
    BY <1>1 DEF SetupInv
  <2>2. Range(unfunded) = {}
    BY <1>1 DEF Range
  <2>3. ToFund(current) \subseteq funded
    BY <2>1, <2>2
  <2>4. minted' = minted \cup ToMint(current) /\ phase' = IF left = {} THEN "run" ELSE "users"
    BY <1>1, <1>3
  <2>5. \A k \in types \ left : IsReady(k)'
    BY <1>1, <2>1, <2>3, <2>4 DEF IsReady, ToFund, ToMint, AccountsOf
  <2>6. \A k \in types' : IsDeployed(k)'
    BY <1>1, <2>1 DEF IsDeployed
  <2> QED
    BY <1>1, <2>4, <2>5, <2>6 DEF SetupInv
<1> QED
  BY <1>2, <1>3

(* Once the application runs, or where its set-up ended, it stays. *)
LEMMA SetupStep == SetupInv /\ [AppNext]_loadVars => SetupInv'
<1> SUFFICES ASSUME SetupInv, [AppNext]_loadVars PROVE SetupInv'
  OBVIOUS
<1>1. CASE Setup
  BY <1>1, CheckRateSetup, DeploySetup, NewAppControllerSetup, CreateUsersSetup,
     FundAccountsSetup, MintForAllSetup DEF Setup
<1>2. CASE UNCHANGED <<types, setupVars>>
  BY <1>2 DEF SetupInv, setupVars, IsDeployed, IsReady, ToFund, ToMint, AccountsOf
<1>3. UNCHANGED loadVars => UNCHANGED <<types, setupVars>>
  BY DEF loadVars, caseVars
<1>4. /\ ReadSent => UNCHANGED <<types, setupVars>>
      /\ ReadReceived => UNCHANGED <<types, setupVars>>
      /\ \A n \in 1 .. 2 : Loop(n) => UNCHANGED <<types, setupVars>>
      /\ \A u \in AppUsers : UserGenerateTx(u) => UNCHANGED <<types, setupVars>>
      /\ \A tx \in net : Execute(tx) \/ Lose(tx) => UNCHANGED <<types, setupVars>>
  BY DEF ReadSent, ReadReceived, Loop, UserGenerateTx, Execute, Lose, caseVars
<1> QED
  BY <1>1, <1>2, <1>3, <1>4 DEF AppNext

(* The set-up that the invariant describes is complete for the plans of    *)
(* every application.                                                      *)
LEMMA ReadyIsComplete == SetupInv => SetupIsComplete
<1> SUFFICES ASSUME SetupInv, phase = "run", NEW k \in types,
                    NEW plan \in Apps[k].plans, NEW i \in DOMAIN plan.steps
             PROVE  /\ Apps[k].checked => k \in deployed
                    /\ plan.steps[i].pays => AccountsOf(k, {plan.steps[i].acc}) \subseteq funded
                    /\ AccountsOf(k, plan.steps[i].spends) \subseteq minted
  <2>1. SetupInv /\ phase = "run" =>
          \A k \in types : Apps[k].checked => k \in deployed
    BY DEF SetupInv, IsDeployed
  <2> QED
    BY <2>1 DEF SetupIsComplete
<1>1. IsReady(k) /\ IsDeployed(k) /\ k \in DOMAIN Apps
  BY DEF SetupInv
<1>2. PlanFits(plan, Apps[k])
  BY <1>1, AppsFit DEF AppFits
<1>3. /\ plan.steps[i].pays => plan.steps[i].acc \in Apps[k].funded
      /\ plan.steps[i].spends \subseteq Apps[k].minted
  BY <1>2 DEF PlanFits
<1>4. /\ plan.steps[i].pays => AccountsOf(k, {plan.steps[i].acc}) \subseteq ToFund(k)
      /\ AccountsOf(k, plan.steps[i].spends) \subseteq ToMint(k)
  BY <1>3 DEF AccountsOf, ToFund, ToMint
<1> QED
  BY <1>1, <1>4 DEF IsReady, IsDeployed

(* An application runs only with every paying account funded, every token  *)
(* in place and its contract deployed, for every number of users, batch    *)
(* size and mix of types.                                                  *)
THEOREM SetupsAreComplete == AppSpec => []SetupIsComplete
<1>1. AppSpec => []SetupInv
  BY SetupInit, SetupStep, PTL DEF AppSpec
<1> QED
  BY <1>1, ReadyIsComplete, PTL

-----------------------------------------------------------------------------
(* What is sent and received *)

(* The state of the execution of a transaction. *)
Performed == [nonces : [Accounts -> Nat], gain : Nat, good : Nat, over : BOOLEAN]

(* A nonce is taken. *)
LEMMA TakeNonce ==
  ASSUME NEW S, NEW f \in [S -> Nat], NEW a
  PROVE  [f EXCEPT ![a] = @ + 1] \in [S -> Nat]
<1>1. CASE a \in S
  BY <1>1
<1>2. CASE a \notin S
  BY <1>2
<1> QED
  BY <1>1, <1>2

(* One step adds what it counts, or nothing. *)
LEMMA PerformOne ==
  ASSUME NEW tx, NEW bad, NEW acc \in Performed, NEW st, st.gain \in Nat
  PROVE  /\ Perform(tx, bad, acc, st) \in Performed
         /\ \/ Perform(tx, bad, acc, st).gain = acc.gain
            \/ /\ ~acc.over /\ Perform(tx, bad, acc, st).gain = acc.gain + st.gain
               /\ (tx.mode = "oneOf" => Perform(tx, bad, acc, st).over)
         /\ acc.over => Perform(tx, bad, acc, st) = acc
<1>1. CASE acc.over
  BY <1>1 DEF Perform
<1>2. CASE ~acc.over /\ acc.nonces[st.acc] # st.nonce
  BY <1>2 DEF Perform, Performed
<1>3. CASE ~acc.over /\ acc.nonces[st.acc] = st.nonce
  <2> DEFINE ns == [acc.nonces EXCEPT ![st.acc] = @ + 1]
             g == acc.gain + (IF st \in bad THEN 0 ELSE st.gain)
             n == acc.good + (IF st \in bad THEN 0 ELSE 1)
             o == IF st \in bad THEN tx.mode = "allOf" ELSE tx.mode = "oneOf"
  <2>1. Perform(tx, bad, acc, st) = [nonces |-> ns, gain |-> g, good |-> n, over |-> o]
    BY <1>3 DEF Perform
  <2>0. acc.nonces \in [Accounts -> Nat] /\ acc.gain \in Nat /\ acc.good \in Nat
    BY DEF Performed
  <2>2. ns \in [Accounts -> Nat] /\ g \in Nat /\ n \in Nat /\ o \in BOOLEAN
    <3>1. ns \in [Accounts -> Nat]
      BY <2>0, TakeNonce
    <3>2. g \in Nat /\ n \in Nat
      <4>1. CASE st \in bad
        BY <2>0, <4>1
      <4>2. CASE st \notin bad
        BY <2>0, <4>2
      <4> QED
        BY <4>1, <4>2
    <3>3. o \in BOOLEAN
      OBVIOUS
    <3> QED
      BY <3>1, <3>2, <3>3
  <2>3. g = acc.gain \/ (g = acc.gain + st.gain /\ (tx.mode = "oneOf" => o))
    BY <2>0
  <2> HIDE DEF ns, g, n, o
  <2> QED
    BY <1>3, <2>1, <2>2, <2>3 DEF Performed
<1> QED
  BY <1>1, <1>2, <1>3

(* The execution of up to three steps, one after the other. *)
Started == [nonces |-> chain, gain |-> 0, good |-> 0, over |-> FALSE]
Performed1(tx, bad) == Perform(tx, bad, Started, tx.steps[1])
Performed2(tx, bad) == Perform(tx, bad, Performed1(tx, bad), tx.steps[2])
Performed3(tx, bad) == Perform(tx, bad, Performed2(tx, bad), tx.steps[3])

(* The outcome is the last state of the execution. *)
LEMMA OutcomeInSteps ==
  ASSUME NEW tx, NEW bad, Len(tx.steps) \in 1 .. 3
  PROVE  \/ Len(tx.steps) = 1 /\ Outcome(tx, bad) = Performed1(tx, bad)
         \/ Len(tx.steps) = 2 /\ Outcome(tx, bad) = Performed2(tx, bad)
         \/ Len(tx.steps) = 3 /\ Outcome(tx, bad) = Performed3(tx, bad)
<1> DEFINE n == Len(tx.steps)
           Is(f) == f = [i \in 0 .. n |-> IF i = 0 THEN Started
                                          ELSE Perform(tx, bad, f[i - 1], tx.steps[i])]
           w == [i \in 0 .. n |-> IF i = 0 THEN Started
                                  ELSE IF i = 1 THEN Performed1(tx, bad)
                                  ELSE IF i = 2 THEN Performed2(tx, bad)
                                  ELSE Performed3(tx, bad)]
           a == CHOOSE f : Is(f)
<1>1. Outcome(tx, bad) = a[n]
  BY DEF Outcome, Started
<1>2. n \in 1 .. 3
  OBVIOUS
<1> HIDE DEF n
<1>3. Is(w)
  <2>1. \A i \in 0 .. n : w[i] = IF i = 0 THEN Started
                                 ELSE Perform(tx, bad, w[i - 1], tx.steps[i])
    <3> TAKE i \in 0 .. n
    <3>1. i \in {0, 1, 2, 3} /\ (i # 0 => i - 1 \in 0 .. n)
      BY <1>2
    <3>2. CASE i = 0
      BY <3>2
    <3>3. CASE i = 1
      BY <3>1, <3>3 DEF Performed1
    <3>4. CASE i = 2
      BY <3>1, <3>4 DEF Performed2
    <3>5. CASE i = 3
      BY <3>1, <3>5 DEF Performed3
    <3> QED
      BY <3>1, <3>2, <3>3, <3>4, <3>5
  <2> HIDE DEF Performed1, Performed2, Performed3, Started
  <2>2. w = [i \in 0 .. n |-> w[i]]
    OBVIOUS
  <2> DEFINE v == w
  <2> HIDE DEF v
  <2>3. v = [i \in 0 .. n |-> IF i = 0 THEN Started
                              ELSE Perform(tx, bad, v[i - 1], tx.steps[i])]
    BY <2>1, <2>2 DEF v
  <2> QED
    BY <2>3 DEF v
<1>4. Is(a)
  BY <1>3
<1> HIDE DEF a
<1>5. /\ a[0] = Started
      /\ a[1] = Performed1(tx, bad)
      /\ n >= 2 => a[2] = Performed2(tx, bad)
      /\ n >= 3 => a[3] = Performed3(tx, bad)
  <2>1. \A i \in 0 .. n : a[i] = IF i = 0 THEN Started
                                 ELSE Perform(tx, bad, a[i - 1], tx.steps[i])
    BY <1>4
  <2>2. a[0] = Started
    BY <1>2, <2>1
  <2>3. a[1] = Performed1(tx, bad)
    BY <1>2, <2>1, <2>2 DEF Performed1
  <2>4. n >= 2 => a[2] = Performed2(tx, bad)
    BY <1>2, <2>1, <2>3 DEF Performed2
  <2>5. n >= 3 => a[3] = Performed3(tx, bad)
    BY <1>2, <2>1, <2>4 DEF Performed3
  <2> QED
    BY <2>2, <2>3, <2>4, <2>5
<1>6. n \in {1, 2, 3}
  BY <1>2
<1> HIDE DEF Performed1, Performed2, Performed3
<1>7. \/ n = 1 /\ Outcome(tx, bad) = Performed1(tx, bad)
      \/ n = 2 /\ Outcome(tx, bad) = Performed2(tx, bad)
      \/ n = 3 /\ Outcome(tx, bad) = Performed3(tx, bad)
  BY <1>1, <1>5, <1>6
<1> QED
  BY <1>7 DEF n

(* What can be sent of an application: its plans, which gain one at most,  *)
(* or are the two calls of a failing bundle.                               *)
IsSteps(tx) ==
  /\ Len(tx.steps) \in 1 .. 3 /\ DOMAIN tx.steps = 1 .. Len(tx.steps)
  /\ \A i \in DOMAIN tx.steps : tx.steps[i].gain \in {0, 1}
  /\ GainsOne(tx.mode, tx.steps) \/ Len(tx.steps) = 2

(* A plan that gains one adds at most one, whichever steps revert, and two *)
(* steps add at most two.                                                  *)
LEMMA OutcomeGain ==
  ASSUME NEW tx, IsSteps(tx), NEW bad, chain \in [Accounts -> Nat]
  PROVE  /\ Outcome(tx, bad) \in Performed
         /\ Outcome(tx, bad).gain <= 2
         /\ GainsOne(tx.mode, tx.steps) => Outcome(tx, bad).gain <= 1
<1> DEFINE n == Len(tx.steps)
           g(i) == tx.steps[i].gain
           s1 == Performed1(tx, bad)
           s2 == Performed2(tx, bad)
           s3 == Performed3(tx, bad)
<1>1. n \in 1 .. 3 /\ \A i \in 1 .. n : g(i) \in {0, 1}
  BY DEF IsSteps
<1>2. Started \in Performed /\ Started.gain = 0 /\ ~Started.over
  BY DEF Started, Performed
<1>3. /\ s1 \in Performed
      /\ \/ s1.gain = 0
         \/ s1.gain = g(1) /\ (tx.mode = "oneOf" => s1.over)
  <2>1. g(1) \in {0, 1} /\ g(1) \in Nat
    BY <1>1
  <2>2. /\ s1 \in Performed
        /\ \/ s1.gain = Started.gain
           \/ s1.gain = Started.gain + g(1) /\ (tx.mode = "oneOf" => s1.over)
    BY <1>2, <2>1, PerformOne DEF Performed1
  <2> HIDE DEF s1, g
  <2>3. CASE s1.gain = Started.gain
    BY <1>2, <2>2, <2>3
  <2>4. CASE s1.gain = Started.gain + g(1) /\ (tx.mode = "oneOf" => s1.over)
    <3>1. Started.gain + g(1) = g(1)
      BY <1>2, <2>1
    <3> QED
      BY <2>2, <2>4, <3>1
  <2> QED
    BY <2>2, <2>3, <2>4
<1>4. n >= 2 => /\ s2 \in Performed
                /\ \/ s2.gain = s1.gain
                   \/ ~s1.over /\ s2.gain = s1.gain + g(2) /\ (tx.mode = "oneOf" => s2.over)
                /\ s1.over => s2 = s1
  BY <1>1, <1>3, PerformOne DEF Performed2
<1>5. n >= 3 => /\ s3 \in Performed
                /\ \/ s3.gain = s2.gain
                   \/ ~s2.over /\ s3.gain = s2.gain + g(3) /\ (tx.mode = "oneOf" => s3.over)
                /\ s2.over => s3 = s2
  BY <1>1, <1>4, PerformOne DEF Performed3
<1>6. /\ s1.gain \in Nat /\ s1.over \in BOOLEAN
      /\ n >= 2 => s2.gain \in Nat /\ s2.over \in BOOLEAN
      /\ n >= 3 => s3.gain \in Nat /\ s3.over \in BOOLEAN
  BY <1>3, <1>4, <1>5 DEF Performed
<1>7. \/ n = 1 /\ Outcome(tx, bad) = s1
      \/ n = 2 /\ Outcome(tx, bad) = s2
      \/ n = 3 /\ Outcome(tx, bad) = s3
  BY <1>1, OutcomeInSteps
<1>8. Outcome(tx, bad) \in Performed
  <2> HIDE DEF s1, s2, s3, n
  <2> QED
    BY <1>3, <1>4, <1>5, <1>7
<1> HIDE DEF s1, s2, s3, n, g
<1>9. ASSUME tx.mode = "oneOf" PROVE Outcome(tx, bad).gain <= 1
  <2>1. s1.gain \in {0, 1} /\ (s1.gain = 1 => s1.over)
    BY <1>1, <1>3, <1>9
  <2>2. n >= 2 => s2.gain \in {0, 1} /\ (s2.gain = 1 => s2.over)
    BY <1>1, <1>4, <1>9, <2>1
  <2>3. n >= 3 => s3.gain \in {0, 1}
    BY <1>1, <1>5, <1>9, <2>2
  <2> QED
    BY <1>7, <2>1, <2>2, <2>3
<1>10. ASSUME \A i, j \in DOMAIN tx.steps : g(i) = 1 /\ g(j) = 1 => i = j
       PROVE  Outcome(tx, bad).gain <= 1
  <2>1. DOMAIN tx.steps = 1 .. n
    BY DEF IsSteps, n
  <2>2. \A i, j \in 1 .. n : g(i) = 1 /\ g(j) = 1 => i = j
    BY <1>10, <2>1
  <2>3. s1.gain <= g(1)
    BY <1>1, <1>3
  <2>4. n >= 2 => s2.gain <= g(1) + g(2) /\ g(1) + g(2) <= 1
    BY <1>1, <1>3, <1>4, <1>6, <2>2, <2>3
  <2>5. n >= 3 => s3.gain <= g(1) + g(2) + g(3) /\ g(1) + g(2) + g(3) <= 1
    BY <1>1, <1>5, <1>6, <2>2, <2>4
  <2> QED
    BY <1>1, <1>6, <1>7, <2>3, <2>4, <2>5
<1>11. GainsOne(tx.mode, tx.steps) => Outcome(tx, bad).gain <= 1
  BY <1>9, <1>10 DEF GainsOne, g
<1>12. ASSUME n = 2 PROVE Outcome(tx, bad).gain <= 2
  <2>1. s1.gain <= 1
    BY <1>1, <1>3
  <2>2. s2.gain <= 2
    BY <1>1, <1>4, <1>6, <1>12, <2>1
  <2> QED
    BY <1>7, <1>12, <2>2
<1>13. Outcome(tx, bad).gain \in Nat
  BY <1>8 DEF Performed
<1>14. Outcome(tx, bad).gain <= 2
  BY <1>11, <1>12, <1>13 DEF IsSteps, n
<1> QED
  BY <1>8, <1>11, <1>14

(* A transaction carries one of the plans built so far, which gains one    *)
(* unless it is a failing bundle.                                          *)
IsTx(tx) == /\ tx.plan \in 1 .. plans /\ IsSteps(tx)
            /\ tx.plan \notin failing => GainsOne(tx.mode, tx.steps)

(* Every plan executed was built, every plan built was counted as sent by  *)
(* its user, and what is received is counted once per executed plan, twice *)
(* for a failing bundle.                                                   *)
CountInv ==
  /\ types \subseteq DOMAIN Apps
  /\ sent \in [AppUsers -> Nat] /\ {plans, received} \subseteq Nat
  /\ chain \in [Accounts -> Nat]
  /\ executed \subseteq 1 .. plans
  /\ failing \subseteq 1 .. plans
  /\ received <= Cardinality(executed) + Cardinality(executed \cap failing)
  /\ plans <= GetSentTransactions
  /\ \A tx \in net : IsTx(tx)
  /\ DOMAIN saved = AppUsers
  /\ \A u \in AppUsers : /\ DOMAIN saved[u] = {"tx", "used"}
                         /\ saved[u].tx = NoPlan \/ IsTx(saved[u].tx)

(* Nothing is sent in the beginning. *)
LEMMA CountInit == AppInit => CountInv
<1> SUFFICES ASSUME AppInit PROVE CountInv
  OBVIOUS
<1>1. types \subseteq DOMAIN Apps
  BY CasesAssumption DEF AppInit
<1>2. sent \in [AppUsers -> Nat] /\ \A u \in AppUsers : sent[u] = 0
  BY DEF AppInit
<1>3. SumOf(sent, AppUsers) = 0
  BY <1>2, LoadAssumption, SumZero
<1>4. Cardinality({}) = 0
  BY FS_EmptySet
<1>5. chain \in [Accounts -> Nat]
  BY DEF AppInit
<1>6. /\ DOMAIN saved = AppUsers
      /\ \A u \in AppUsers : DOMAIN saved[u] = {"tx", "used"} /\ saved[u].tx = NoPlan
  BY DEF AppInit
<1>7. plans = 0 /\ received = 0 /\ executed = {} /\ failing = {} /\ net = {}
  BY DEF AppInit
<1>8. plans <= GetSentTransactions
  BY <1>3, <1>7 DEF GetSentTransactions
<1>9. received <= Cardinality(executed) + Cardinality(executed \cap failing)
  <2>1. executed \cap failing = {}
    BY <1>7
  <2> QED
    BY <1>4, <1>7, <2>1
<1> QED
  BY <1>1, <1>2, <1>5, <1>6, <1>7, <1>8, <1>9 DEF CountInv

(* A failing bundle has two steps. *)
LEMMA FailingBundleHasTwo ==
  ASSUME NEW plan \in Apps["failingbundle"].plans
  PROVE  Len(plan.steps) = 2
<1>1. Apps["failingbundle"] = failingbundle
  BY DEF Apps
<1>2. plan \in FailingBundleUser
  BY <1>1 DEF failingbundle, BundleApp
<1>3. PICK m \in {"allOf", "oneOf"} :
        plan = [mode |-> m, steps |-> <<Step("A", 0, TRUE, {}, 1, BOOLEAN),
                                        Step("B", 0, TRUE, {}, 1, BOOLEAN)>>]
  BY <1>2 DEF FailingBundleUser
<1> QED
  BY <1>3

(* What a user builds from a plan of its application. *)
LEMMA BuildIsTx ==
  ASSUME CountInv, NEW k \in types, NEW u, NEW plan \in Apps[k].plans
  PROVE  /\ Build(k, u, plan).plan = plans + 1 /\ IsSteps(Build(k, u, plan))
         /\ k # "failingbundle" => GainsOne(Build(k, u, plan).mode, Build(k, u, plan).steps)
<1> DEFINE tx == Build(k, u, plan)
           s == [i \in DOMAIN plan.steps |->
                  LET a == <<k, u, plan.steps[i].acc>>
                  IN [plan.steps[i] EXCEPT !.acc = a, !.nonce = BaseNonce(k, a) + @]]
<1>1. k \in DOMAIN Apps
  BY DEF CountInv
<1>2. /\ PlanFits(plan, Apps[k])
      /\ k # "failingbundle" => GainsOne(plan.mode, plan.steps)
      /\ k = "failingbundle" => Len(plan.steps) = 2
  BY <1>1, AppsFit, FailingBundleHasTwo DEF AppFits, AppGainsOne
<1>3. tx.plan = plans + 1 /\ tx.mode = plan.mode /\ tx.steps = s
  BY DEF Build
<1>4. /\ DOMAIN plan.steps = 1 .. Len(plan.steps) /\ Len(plan.steps) \in 1 .. 3
      /\ \A i \in DOMAIN plan.steps :
           "gain" \in DOMAIN plan.steps[i] /\ plan.steps[i].gain \in {0, 1}
  BY <1>2 DEF PlanFits
<1>5. DOMAIN s = DOMAIN plan.steps /\ \A i \in DOMAIN s : s[i].gain = plan.steps[i].gain
  BY <1>4
<1>6. Len(s) = Len(plan.steps)
  BY <1>4
<1> HIDE DEF s, tx
<1>7. GainsOne(plan.mode, plan.steps) => GainsOne(tx.mode, tx.steps)
  BY <1>3, <1>5 DEF GainsOne
<1>8. IsSteps(tx)
  BY <1>2, <1>3, <1>4, <1>5, <1>6, <1>7 DEF IsSteps
<1> QED
  BY <1>2, <1>3, <1>7, <1>8 DEF tx

(* A user sends more than before. *)
LEMMA SentGrows ==
  ASSUME sent \in [AppUsers -> Nat], NEW u \in AppUsers, sent' = [sent EXCEPT ![u] = @ + 1]
  PROVE  sent' \in [AppUsers -> Nat] /\ GetSentTransactions' = GetSentTransactions + 1
<1>1. sent' \in [AppUsers -> Nat]
  OBVIOUS
<1>2. \A v \in AppUsers : sent[v] \in Nat /\ sent'[v] \in Nat
  BY <1>1
<1>3. sent'[u] = sent[u] + 1 /\ \A v \in AppUsers \ {u} : sent'[v] = sent[v]
  OBVIOUS
<1>4. SumOf(sent', AppUsers) = SumOf(sent, AppUsers) - sent[u] + sent'[u]
  <2> DEFINE g == sent'
  <2>1. /\ IsFiniteSet(AppUsers) /\ \A v \in AppUsers : sent[v] \in Nat /\ g[v] \in Nat
        /\ \A v \in AppUsers \ {u} : g[v] = sent[v]
    BY <1>2, <1>3, LoadAssumption
  <2> HIDE DEF g
  <2>2. SumOf(g, AppUsers) = SumOf(sent, AppUsers) - sent[u] + g[u]
    BY <2>1, SumChange
  <2> QED
    BY <2>2 DEF g
<1>5. SumOf(sent, AppUsers) \in Nat
  BY <1>2, LoadAssumption, SumType
<1> QED
  BY <1>1, <1>2, <1>3, <1>4, <1>5 DEF GetSentTransactions

(* The steps that leave what is sent and received alone. *)
LEMMA CountUnchanged ==
  ASSUME CountInv, UNCHANGED <<types, sent, plans, failing, saved, chain, received, executed>>,
         net' \subseteq net
  PROVE  CountInv'
<1>1. \A tx : IsTx(tx) => IsTx(tx)'
  BY DEF IsTx, IsSteps
<1>2. Accounts' = Accounts /\ GetSentTransactions' = GetSentTransactions
  BY DEF Accounts, AccountsOf, GetSentTransactions
<1>3. \A tx \in net' : IsTx(tx)'
  BY <1>1 DEF CountInv
<1>4. \A u \in AppUsers : /\ DOMAIN saved'[u] = {"tx", "used"}
                          /\ saved'[u].tx = NoPlan \/ IsTx(saved[u].tx)'
  BY <1>1 DEF CountInv, IsTx, IsSteps
<1> QED
  BY <1>1, <1>2, <1>3, <1>4 DEF CountInv

(* A user builds a transaction from a plan, and counts it. *)
LEMMA NewBundleCounts ==
  ASSUME CountInv, NEW k \in types, NEW u \in AppUsers, newBundle(k, u, 1),
         UNCHANGED <<types, chain, received, executed>>
  PROVE  CountInv'
<1>1. PICK plan \in Apps[k].plans :
        /\ net' = net \cup {Build(k, u, plan)} /\ plans' = plans + 1
        /\ failing' = IF k = "failingbundle"
                      THEN failing \cup {Build(k, u, plan).plan} ELSE failing
        /\ sent' = [sent EXCEPT ![u] = @ + 1]
        /\ saved' = IF k = "duplicatedbundle"
                    THEN [saved EXCEPT ![u] = [tx |-> Build(k, u, plan), used |-> 1]]
                    ELSE saved
  BY DEF newBundle
<1> DEFINE new == Build(k, u, plan)
<1>2. /\ new.plan = plans + 1 /\ IsSteps(new)
      /\ k # "failingbundle" => GainsOne(new.mode, new.steps)
  BY BuildIsTx
<1>2a. /\ failing' = failing \cup {new.plan} \/ (failing' = failing /\ k # "failingbundle")
       /\ failing \subseteq failing'
       /\ new.plan \notin failing' => GainsOne(new.mode, new.steps)
  BY <1>1, <1>2
<1> HIDE DEF new
<1>3. plans \in Nat /\ plans' \in Nat /\ received \in Nat
  BY <1>1 DEF CountInv
<1> DEFINE Fits(tx) == /\ tx.plan \in 1 .. plans' /\ IsSteps(tx)
                       /\ tx.plan \notin failing' => GainsOne(tx.mode, tx.steps)
<1>4. \A tx : IsTx(tx) \/ tx = new => Fits(tx)
  BY <1>1, <1>2, <1>2a, <1>3 DEF IsTx
<1>5. \A tx : Fits(tx) => IsTx(tx)'
  BY DEF IsTx, IsSteps
<1>6. \A tx \in net' : IsTx(tx)'
  <2>1. \A tx \in net' : IsTx(tx) \/ tx = new
    BY <1>1 DEF CountInv, new
  <2> QED
    BY <1>4, <1>5, <2>1
<1>7. /\ DOMAIN saved' = AppUsers
      /\ \A v \in AppUsers : /\ DOMAIN saved'[v] = {"tx", "used"}
                             /\ saved'[v].tx = NoPlan \/ IsTx(saved'[v].tx) \/ saved'[v].tx = new
  <2>1. saved' = saved \/ saved' = [saved EXCEPT ![u] = [tx |-> new, used |-> 1]]
    BY <1>1 DEF new
  <2>2. DOMAIN saved' = AppUsers
    BY <2>1 DEF CountInv
  <2>3. ASSUME NEW v \in AppUsers
        PROVE  /\ DOMAIN saved'[v] = {"tx", "used"}
               /\ saved'[v].tx = NoPlan \/ IsTx(saved'[v].tx) \/ saved'[v].tx = new
    <3>1. CASE saved'[v] = saved[v]
      BY <3>1 DEF CountInv
    <3>2. CASE saved'[v] = [tx |-> new, used |-> 1]
      BY <3>2
    <3> QED
      BY <2>1, <3>1, <3>2 DEF CountInv
  <2> QED
    BY <2>2, <2>3
<1>8. \A v \in AppUsers : saved'[v].tx = NoPlan
                            \/ Fits(saved'[v].tx)
  BY <1>4, <1>7
<1>9. \A v \in AppUsers : (saved[v].tx = NoPlan \/ IsTx(saved[v].tx))'
  BY <1>8 DEF IsTx, IsSteps, NoPlan
<1>10. sent' \in [AppUsers -> Nat] /\ GetSentTransactions' = GetSentTransactions + 1
  BY <1>1, SentGrows DEF CountInv
<1>11. Accounts' = Accounts
  BY DEF Accounts, AccountsOf
<1>12. /\ executed' \subseteq 1 .. plans' /\ failing' \subseteq 1 .. plans'
       /\ executed' \cap failing' = executed \cap failing
       /\ plans' <= GetSentTransactions'
  <2>1. GetSentTransactions \in Nat
    BY LoadAssumption, SumType DEF CountInv, GetSentTransactions
  <2>2. plans <= GetSentTransactions /\ executed \subseteq 1 .. plans
    BY DEF CountInv
  <2>3. plans' <= GetSentTransactions'
    BY <1>1, <1>3, <1>10, <2>1, <2>2
  <2>4. 1 .. plans \subseteq 1 .. plans' /\ new.plan \in 1 .. plans' /\ new.plan \notin executed
    BY <1>1, <1>2, <1>3, <2>2
  <2>5. failing \subseteq 1 .. plans
    BY DEF CountInv
  <2>6. failing' \subseteq 1 .. plans' /\ executed' \cap failing' = executed \cap failing
    BY <1>2a, <2>4, <2>5
  <2> QED
    BY <2>2, <2>3, <2>4, <2>6
<1>13. /\ types' \subseteq DOMAIN Apps /\ chain' \in [Accounts' -> Nat]
       /\ received' <= Cardinality(executed') + Cardinality(executed' \cap failing')
  BY <1>11, <1>12 DEF CountInv
<1>14. {plans', received'} \subseteq Nat
  BY <1>3
<1> QED
  BY <1>6, <1>7, <1>9, <1>10, <1>12, <1>13, <1>14 DEF CountInv

(* The same plan in another envelope: nothing new, though a mix counts it. *)
LEMMA NewEnvelopeCounts ==
  ASSUME CountInv, NEW k, NEW u \in AppUsers, ReusesPlan(k, u), newEnvelope(k, u),
         UNCHANGED <<types, chain, received, executed>>
  PROVE  CountInv'
<1>1. /\ net' = net \cup {saved[u].tx}
      /\ saved' = [saved EXCEPT ![u].used = @ + 1]
      /\ sent' = [sent EXCEPT ![u] = @ + 1] \/ sent' = sent
      /\ plans' = plans /\ failing' = failing
  BY DEF newEnvelope
<1>2. saved[u].tx # NoPlan
  BY DEF ReusesPlan
<1>3. \A tx : IsTx(tx) => IsTx(tx)'
  BY <1>1 DEF IsTx, IsSteps
<1>4. \A tx \in net' : IsTx(tx)'
  <2>1. \A tx \in net' : IsTx(tx)
    BY <1>1, <1>2 DEF CountInv
  <2> QED
    BY <1>3, <2>1
<1>5. DOMAIN saved' = AppUsers
  BY <1>1 DEF CountInv
<1>6. \A v \in AppUsers : DOMAIN saved'[v] = {"tx", "used"} /\ saved'[v].tx = saved[v].tx
  BY <1>1 DEF CountInv
<1>7. \A v \in AppUsers : saved'[v].tx = NoPlan \/ IsTx(saved'[v].tx)
  BY <1>6 DEF CountInv
<1>8. \A v \in AppUsers : (saved[v].tx = NoPlan \/ IsTx(saved[v].tx))'
  BY <1>1, <1>7 DEF IsTx, IsSteps, NoPlan
<1>9. /\ sent' \in [AppUsers -> Nat] /\ GetSentTransactions' \in Nat
      /\ GetSentTransactions <= GetSentTransactions' /\ GetSentTransactions \in Nat
  <2>1. GetSentTransactions \in Nat /\ sent \in [AppUsers -> Nat]
    BY LoadAssumption, SumType DEF CountInv, GetSentTransactions
  <2>2. CASE sent' = sent
    BY <2>1, <2>2 DEF GetSentTransactions
  <2>3. CASE sent' = [sent EXCEPT ![u] = @ + 1]
    <3>1. sent' \in [AppUsers -> Nat] /\ GetSentTransactions' = GetSentTransactions + 1
      BY <2>1, <2>3, SentGrows
    <3> QED
      BY <2>1, <3>1
  <2> QED
    BY <1>1, <2>2, <2>3
<1>10. Accounts' = Accounts
  BY DEF Accounts, AccountsOf
<1>11. plans' <= GetSentTransactions'
  BY <1>1, <1>9 DEF CountInv
<1>12. /\ types' \subseteq DOMAIN Apps /\ chain' \in [Accounts' -> Nat]
       /\ received' <= Cardinality(executed') + Cardinality(executed' \cap failing')
       /\ {plans', received'} \subseteq Nat /\ executed' \subseteq 1 .. plans'
       /\ failing' \subseteq 1 .. plans'
  BY <1>1, <1>10 DEF CountInv
<1> QED
  BY <1>4, <1>5, <1>6, <1>8, <1>9, <1>11, <1>12 DEF CountInv

(* The chain executes a plan at most once. *)
LEMMA ExecuteCounts ==
  ASSUME CountInv, NEW tx \in net, Execute(tx)
  PROVE  CountInv'
<1>1. net' \subseteq net /\ UNCHANGED <<types, sent, plans, failing, saved>>
  BY DEF Execute, userVars, caseVars
<1>2. CASE UNCHANGED <<chain, received, executed>>
  BY <1>1, <1>2, CountUnchanged
<1>3. CASE ~UNCHANGED <<chain, received, executed>>
  <2>1. PICK bad \in SUBSET StepsOf(tx) :
          /\ chain' = Outcome(tx, bad).nonces
          /\ received' = received + Outcome(tx, bad).gain
          /\ executed' = executed \cup {tx.plan} /\ tx.plan \notin executed
    BY <1>3 DEF Execute
  <2>2. IsTx(tx) /\ chain \in [Accounts -> Nat]
    BY DEF CountInv
  <2>3. /\ Outcome(tx, bad) \in Performed
        /\ Outcome(tx, bad).gain <= 2
        /\ tx.plan \notin failing => Outcome(tx, bad).gain <= 1
    BY <2>2, OutcomeGain DEF IsTx
  <2>4. chain' \in [Accounts -> Nat] /\ received' \in Nat /\ Outcome(tx, bad).gain \in Nat
    BY <2>1, <2>3 DEF CountInv, Performed
  <2>5. executed' \subseteq 1 .. plans
    BY <2>1, <2>2 DEF CountInv, IsTx
  <2>6. /\ Cardinality(executed') = Cardinality(executed) + 1
        /\ Cardinality(executed) \in Nat
    <3>1. IsFiniteSet(1 .. plans) /\ executed \subseteq 1 .. plans
      BY FS_Interval DEF CountInv
    <3>2. IsFiniteSet(executed)
      BY <3>1, FS_Subset
    <3> QED
      BY <2>1, <3>2, FS_AddElement, FS_CardinalityType
  <2> DEFINE both == executed \cap failing
  <2>a. /\ Cardinality(both) \in Nat /\ IsFiniteSet(both)
    <3>1. IsFiniteSet(1 .. plans) /\ both \subseteq 1 .. plans
      BY FS_Interval DEF CountInv
    <3> QED
      BY <3>1, FS_Subset, FS_CardinalityType
  <2>b. /\ tx.plan \in failing => Cardinality(executed' \cap failing') = Cardinality(both) + 1
        /\ tx.plan \notin failing => Cardinality(executed' \cap failing') = Cardinality(both)
    <3>1. CASE tx.plan \in failing
      <4>1. executed' \cap failing' = both \cup {tx.plan} /\ tx.plan \notin both
        BY <1>1, <2>1, <3>1
      <4> QED
        BY <2>a, <3>1, <4>1, FS_AddElement
    <3>2. CASE tx.plan \notin failing
      <4>1. executed' \cap failing' = both
        BY <1>1, <2>1, <3>2
      <4> QED
        BY <3>2, <4>1
    <3> QED
      BY <3>1, <3>2
  <2>7. received' <= Cardinality(executed') + Cardinality(executed' \cap failing')
    <3>1. received <= Cardinality(executed) + Cardinality(both) /\ received \in Nat
      BY DEF CountInv
    <3> HIDE DEF both
    <3> QED
      BY <2>1, <2>3, <2>4, <2>6, <2>a, <2>b, <3>1
  <2>8. \A t : IsTx(t) => IsTx(t)'
    BY <1>1 DEF IsTx, IsSteps
  <2>c. failing' \subseteq 1 .. plans'
    BY <1>1 DEF CountInv
  <2>9. Accounts' = Accounts /\ GetSentTransactions' = GetSentTransactions
    BY <1>1 DEF Accounts, AccountsOf, GetSentTransactions
  <2>10. \A t \in net' : IsTx(t)'
    BY <1>1, <2>8 DEF CountInv
  <2>11. \A u \in AppUsers : (saved[u].tx = NoPlan \/ IsTx(saved[u].tx))'
    BY <1>1 DEF CountInv, IsTx, IsSteps, NoPlan
  <2>12. chain' \in [Accounts' -> Nat] /\ {plans', received'} \subseteq Nat
    BY <1>1, <2>4, <2>9 DEF CountInv
  <2> QED
    BY <1>1, <2>5, <2>7, <2>c, <2>9, <2>10, <2>11, <2>12 DEF CountInv
<1> QED
  BY <1>2, <1>3

(* Every step keeps the counters in order. *)
LEMMA CountStep == CountInv /\ [AppNext]_loadVars => CountInv'
<1> SUFFICES ASSUME CountInv, [AppNext]_loadVars PROVE CountInv'
  OBVIOUS
<1>1. CASE UNCHANGED <<types, userVars, chainVars>>
  BY <1>1, CountUnchanged DEF userVars, chainVars
<1>2. ASSUME NEW u \in AppUsers, UserGenerateTx(u) PROVE CountInv'
  <2>1. UNCHANGED <<types, chain, received, executed>>
    BY <1>2 DEF UserGenerateTx, caseVars
  <2>2. PICK k \in types : \/ newBundle(k, u, 1)
                           \/ ReusesPlan(k, u) /\ newEnvelope(k, u)
                           \/ UNCHANGED <<userVars, net>>
    BY <1>2 DEF UserGenerateTx
  <2>3. CASE UNCHANGED <<userVars, net>>
    BY <2>1, <2>3, CountUnchanged DEF userVars
  <2> QED
    BY <2>1, <2>2, <2>3, NewBundleCounts, NewEnvelopeCounts
<1>3. ASSUME NEW tx \in net, Lose(tx) PROVE CountInv'
  BY <1>3, CountUnchanged DEF Lose, userVars, caseVars
<1>4. UNCHANGED loadVars \/ Setup => UNCHANGED <<types, userVars, chainVars>>
  BY DEF loadVars, caseVars, Setup, CheckRate, NewAppController, FundAccounts, MintForAll,
         Deploy, CreateUsers
<1>5. /\ ReadSent => UNCHANGED <<types, userVars, chainVars>>
      /\ ReadReceived => UNCHANGED <<types, userVars, chainVars>>
      /\ \A n \in 1 .. 2 : Loop(n) => UNCHANGED <<types, userVars, chainVars>>
  BY DEF ReadSent, ReadReceived, Loop, caseVars
<1> QED
  BY <1>1, <1>2, <1>3, <1>4, <1>5, ExecuteCounts DEF AppNext

(* An application never counts more as received than its users count as    *)
(* sent, and once more for a failing bundle, for every number of users and *)
(* every order in which the chain executes, reverts or loses their         *)
(* transactions, in a mix too: received <= plans executed <= plans built   *)
(* <= sent, where an executed failing bundle counts twice.                 *)
THEOREM NoMoreThanSent == AppSpec => []ReceivedAtMostSent
<1>1. CountInv => ReceivedAtMostSent
  <2> SUFFICES ASSUME CountInv
               PROVE  received <= GetSentTransactions + Cardinality(failing)
    BY DEF ReceivedAtMostSent
  <2>1. plans \in Nat /\ received \in Nat /\ GetSentTransactions \in Nat
    BY LoadAssumption, SumType DEF CountInv, GetSentTransactions
  <2>2. /\ executed \subseteq 1 .. plans /\ failing \subseteq 1 .. plans
        /\ received <= Cardinality(executed) + Cardinality(executed \cap failing)
    BY DEF CountInv
  <2>3. /\ IsFiniteSet(1 .. plans) /\ Cardinality(1 .. plans) <= plans
    BY <2>1, FS_Interval
  <2>4. Cardinality(executed) <= Cardinality(1 .. plans) /\ Cardinality(executed) \in Nat
        /\ Cardinality(1 .. plans) \in Nat
    BY <2>2, <2>3, FS_Subset, FS_CardinalityType
  <2>5. plans <= GetSentTransactions
    BY DEF CountInv
  <2>6. /\ Cardinality(executed \cap failing) <= Cardinality(failing)
        /\ Cardinality(failing) \in Nat /\ Cardinality(executed \cap failing) \in Nat
    <3>1. IsFiniteSet(failing)
      BY <2>2, <2>3, FS_Subset
    <3>2. executed \cap failing \subseteq failing
      OBVIOUS
    <3> QED
      BY <3>1, <3>2, FS_Subset, FS_CardinalityType
  <2> QED
    BY <2>1, <2>2, <2>3, <2>4, <2>5, <2>6
<1>2. AppSpec => []CountInv
  BY CountInit, CountStep, PTL DEF AppSpec
<1> QED
  BY <1>1, <1>2, PTL

-----------------------------------------------------------------------------
(* Arithmetic of the shapers *)

(* The larger and the smaller of two numbers. *)
LEMMA MaxOfTwo ==
  ASSUME NEW a \in Int, NEW b \in Int
  PROVE  /\ Max({a, b}) = IF a >= b THEN a ELSE b
         /\ Min({a, b}) = IF a <= b THEN a ELSE b
<1> DEFINE S == {a, b}
<1>1. S \subseteq Int /\ S # {} /\ a \in S /\ b \in S /\ \A x \in S : x = a \/ x = b
  OBVIOUS
<1>2. IsFiniteSet(S)
  <2>1. IsFiniteSet({a}) /\ IsFiniteSet({a} \cup {b}) /\ {a} \cup {b} = S
    BY FS_Singleton, FS_AddElement
  <2> QED
    BY <2>1
<1> HIDE DEF S
<1>3. Max(S) \in S /\ (\A y \in S : y <= Max(S)) /\ Min(S) \in S /\ \A y \in S : Min(S) <= y
  BY <1>1, <1>2, MaxOfFinite, MinOfFinite
<1> QED
  BY <1>1, <1>3 DEF S

(* The product of integers is one. *)
LEMMA ProductType == \A a, b \in Int : a * b \in Int
  OBVIOUS

(* The product of natural numbers is one. *)
LEMMA ProductSign == \A a, b \in Int : a >= 0 /\ b >= 0 => a * b >= 0
  OBVIOUS

(* The quotient and the remainder. *)
LEMMA Quotient ==
  ASSUME NEW x \in Int, NEW d \in Nat \ {0}
  PROVE  /\ x \div d \in Int
         /\ d * (x \div d) <= x /\ x < d * (x \div d) + d
<1>1. x \div d \in Int /\ x % d \in 0 .. d - 1
  OBVIOUS
<1>2. x = d * (x \div d) + (x % d)
  OBVIOUS
<1> QED
  BY <1>1, <1>2

(* Multiples of a number that are less than the number apart are equal. *)
LEMMA MultiplesApart ==
  ASSUME NEW m \in Int, NEW n \in Int, NEW d \in Nat \ {0}, m < n
  PROVE  d * m + d <= d * n
<1>1. n - m - 1 >= 0
  OBVIOUS
<1>2. d * (n - m - 1) >= 0
  BY <1>1, ProductSign
<1>3. d * (n - m - 1) = d * n - d * m - d
  OBVIOUS
<1> QED
  BY <1>2, <1>3, ProductType

(* A checked and parsed rate. *)
IsShape(s) ==
  \/ s.shape = "constant" /\ s.frequency \in Nat
  \/ s.shape = "slope" /\ s.start \in Nat /\ s.increment \in Int
  \/ /\ s.shape = "wave" /\ s.min \in Nat /\ s.max \in Nat /\ s.min <= s.max
     /\ s.period \in Nat \ {0}
  \/ s.shape = "auto" /\ s.increase \in Nat /\ s.decrease \in 0 .. 2

(* The check of the parser lets only these through. *)
LEMMA ParsedIsShape ==
  ASSUME NEW r, IsRate(r), RateCheck(r)
  PROVE  IsShape(ParseRate(r))
<1>1. IsFiniteSet(DOMAIN r)
  <2>1. IsFiniteSet({"constant"} \cup {"slope"} \cup {"wave"} \cup {"auto"})
    <3>1. IsFiniteSet({"constant"})
      BY FS_Singleton
    <3>2. IsFiniteSet({"constant"} \cup {"slope"})
      BY <3>1, FS_AddElement
    <3>3. IsFiniteSet({"constant"} \cup {"slope"} \cup {"wave"})
      BY <3>2, FS_AddElement
    <3> QED
      BY <3>3, FS_AddElement
  <2>2. DOMAIN r \in SUBSET ({"constant"} \cup {"slope"} \cup {"wave"} \cup {"auto"})
    BY DEF IsRate
  <2> QED
    BY <2>1, <2>2, FS_Subset
<1>2. PICK x : DOMAIN r = {x}
  BY <1>1, FS_Singleton DEF RateCheck
<1>3. x \in {"constant", "slope", "wave", "auto"}
  BY <1>2 DEF IsRate
<1>4. CASE x = "constant"
  BY <1>2, <1>4 DEF IsRate, RateCheck, ParseRate, IsShape
<1>5. CASE x = "slope"
  BY <1>2, <1>5 DEF IsRate, RateCheck, ParseRate, IsShape, SlopeCheck
<1>6. CASE x = "wave"
  BY <1>2, <1>6 DEF IsRate, RateCheck, ParseRate, IsShape, WaveCheck
<1>7. CASE x = "auto"
  BY <1>2, <1>7 DEF IsRate, RateCheck, ParseRate, IsShape, AutoCheck
<1> QED
  BY <1>3, <1>4, <1>5, <1>6, <1>7

(* The unit in which messages are counted is positive. *)
LEMMA ScaleType ==
  ASSUME NEW s, IsShape(s)
  PROVE  Scale(s) \in Nat \ {0}
<1>1. TicksPerSecond \in Nat \ {0} /\ RateUnit \in Nat \ {0}
  BY ShaperAssumption
<1>2. \A a, b \in Nat \ {0} : a * b \in Nat \ {0}
  OBVIOUS
<1>3. CASE s.shape = "constant"
  BY <1>1, <1>3 DEF Scale
<1>4. CASE s.shape = "slope"
  <2>1. s.increment \in Int /\ Abs(s.increment) \in Nat
    BY <1>4 DEF IsShape, Abs
  <2>2. Max({1, Abs(s.increment)}) \in Nat \ {0}
    BY <2>1, MaxOfTwo
  <2>3. 2 * TicksPerSecond * TicksPerSecond \in Nat \ {0}
    BY <1>1, <1>2
  <2>4. Scale(s) = 2 * TicksPerSecond * TicksPerSecond * Max({1, Abs(s.increment)})
    BY <1>4 DEF Scale
  <2> QED
    BY <1>2, <2>2, <2>3, <2>4
<1>5. CASE s.shape = "wave"
  BY <1>5 DEF Scale
<1>6. CASE s.shape = "auto"
  BY <1>1, <1>2, <1>6 DEF Scale
<1> QED
  BY <1>3, <1>4, <1>5, <1>6 DEF IsShape

(* The slope in each of its three cases. *)
LEMMA SlopeRises ==
  ASSUME NEW s, s.start \in Nat, s.increment \in Nat \ {0}, NEW a \in Nat, NEW b \in Nat
  PROVE  LET k == s.increment
             d == s.start * TicksPerSecond
         IN SlopeMessages(s, a, b)
              = ((k * b) * (k * b) - (k * a) * (k * a)) + 2 * d * (k * b - k * a)
<1> DEFINE k == s.increment
           d == s.start * TicksPerSecond
           clip(x) == IF k > 0 THEN Max({-d, k * x}) ELSE Min({d, -k * x})
<1>1. d \in Nat
  BY ShaperAssumption
<1>2. \A x \in Nat : k * x \in Nat
  OBVIOUS
<1> HIDE DEF d
<1>3. \A x \in Nat : Max({-d, k * x}) = k * x
  <2> TAKE x \in Nat
  <2> DEFINE y == k * x
             m == -d
  <2>1. y \in Int /\ m \in Int /\ y >= m
    BY <1>1, <1>2
  <2> HIDE DEF y, m
  <2>2. Max({m, y}) = y
    BY <2>1, MaxOfTwo
  <2> QED
    BY <2>2 DEF y, m
<1>4. clip(a) = k * a /\ clip(b) = k * b
  BY <1>3
<1>5. SlopeMessages(s, a, b)
        = 1 * (clip(b) * clip(b) - clip(a) * clip(a)) + 2 * d * (clip(b) - clip(a))
  BY DEF SlopeMessages, d
<1> HIDE DEF clip, k
<1> QED
  BY <1>1, <1>2, <1>4, <1>5 DEF d, k

(* A slope that falls ends where its frequency reaches zero. *)
Fallen(s, x) == IF s.start * TicksPerSecond <= -(s.increment * x)
                THEN s.start * TicksPerSecond ELSE -(s.increment * x)

(* The slope is cut off at its zero point. *)
LEMMA SlopeFalls ==
  ASSUME NEW s, s.start \in Nat, s.increment \in Int, s.increment < 0,
         NEW a \in Nat, NEW b \in Nat
  PROVE  LET d == s.start * TicksPerSecond
         IN SlopeMessages(s, a, b)
              = 2 * d * (Fallen(s, b) - Fallen(s, a))
                  - (Fallen(s, b) * Fallen(s, b) - Fallen(s, a) * Fallen(s, a))
<1> DEFINE k == s.increment
           d == s.start * TicksPerSecond
           clip(x) == IF k > 0 THEN Max({-d, k * x}) ELSE Min({d, -k * x})
           from == Fallen(s, a)
           to == Fallen(s, b)
<1>1. d \in Nat
  BY ShaperAssumption
<1>2. \A x \in Nat : -k * x = -(k * x) /\ -k * x \in Nat
  OBVIOUS
<1>3. \A x \in Nat : clip(x) = Fallen(s, x) /\ Fallen(s, x) \in Int
  <2> TAKE x \in Nat
  <2> DEFINE y == -k * x
  <2>1. y \in Int /\ y = -(k * x) /\ d \in Int
    BY <1>1, <1>2
  <2> HIDE DEF y, d
  <2>2. Min({d, y}) = IF d <= y THEN d ELSE y
    BY <2>1, MaxOfTwo
  <2>3. clip(x) = Min({d, y})
    BY DEF y
  <2>4. Fallen(s, x) = IF d <= y THEN d ELSE y
    BY <2>1 DEF Fallen, d
  <2> QED
    BY <1>1, <2>1, <2>2, <2>3, <2>4
<1>4. SlopeMessages(s, a, b)
        = (-1) * (clip(b) * clip(b) - clip(a) * clip(a)) + 2 * d * (clip(b) - clip(a))
  BY DEF SlopeMessages, d
<1>5. clip(b) = to /\ clip(a) = from /\ to \in Int /\ from \in Int
  BY <1>3
<1> HIDE DEF clip, to, from
<1>6. SlopeMessages(s, a, b) = (-1) * (to * to - from * from) + 2 * d * (to - from)
  BY <1>4, <1>5
<1> HIDE DEF d
<1>7. SlopeMessages(s, a, b) = 2 * d * (to - from) - (to * to - from * from)
  BY <1>1, <1>5, <1>6
<1> QED
  BY <1>7 DEF d, to, from

(* What a slope asks for from the start to tick t. *)
SlopeTotal(s, t) ==
  LET k == s.increment
      d == s.start * TicksPerSecond
  IN IF k = 0 THEN 2 * d * t
     ELSE IF k > 0 THEN (k * t) * (k * t) + 2 * d * (k * t)
     ELSE 2 * d * Fallen(s, t) - Fallen(s, t) * Fallen(s, t)

(* Two points on a falling slope. *)
LEMMA FallenRises ==
  ASSUME NEW s, s.start \in Nat, s.increment \in Int, s.increment < 0,
         NEW a \in Nat, NEW b \in Nat, a <= b
  PROVE  /\ Fallen(s, a) \in Nat /\ Fallen(s, b) \in Nat
         /\ Fallen(s, a) <= Fallen(s, b) /\ Fallen(s, b) <= s.start * TicksPerSecond
<1> DEFINE d == s.start * TicksPerSecond
           x == -(s.increment * a)
           y == -(s.increment * b)
<1>1. d \in Nat
  BY ShaperAssumption
<1>2. x \in Nat /\ y \in Nat
  <2>1. 0 - s.increment \in Nat
    OBVIOUS
  <2>2. (0 - s.increment) * a \in Nat /\ (0 - s.increment) * b \in Nat
    BY <2>1
  <2>3. x = (0 - s.increment) * a /\ y = (0 - s.increment) * b
    OBVIOUS
  <2> QED
    BY <2>2, <2>3
<1>3. x <= y
  <2>1. (0 - s.increment) * (b - a) >= 0
    BY ProductSign
  <2>2. (0 - s.increment) * (b - a) = y - x
    OBVIOUS
  <2> HIDE DEF x, y
  <2> QED
    BY <1>2, <2>1, <2>2
<1>4. Fallen(s, a) = (IF d <= x THEN d ELSE x) /\ Fallen(s, b) = IF d <= y THEN d ELSE y
  BY DEF Fallen
<1> HIDE DEF d, x, y
<1>5. /\ Fallen(s, a) \in Nat /\ Fallen(s, b) \in Nat
      /\ Fallen(s, a) <= Fallen(s, b) /\ Fallen(s, b) <= d
  BY <1>1, <1>2, <1>3, <1>4
<1> QED
  BY <1>5 DEF d

(* The sum of a rising slope is monotonic. *)
LEMMA RisingPolynomial ==
  ASSUME NEW d \in Nat, NEW x \in Nat, NEW y \in Nat, x <= y
  PROVE  /\ (y * y - x * x) + 2 * d * (y - x) = (y * y + 2 * d * y) - (x * x + 2 * d * x)
         /\ (y * y - x * x) + 2 * d * (y - x) >= 0
<1>1. (y - x) * (y + x + 2 * d) >= 0
  BY ProductSign
<1>2. (y - x) * (y + x + 2 * d) = (y * y - x * x) + 2 * d * (y - x)
  OBVIOUS
<1> QED
  BY <1>1, <1>2

(* So is that of a falling one, up to its zero point. *)
LEMMA FallingPolynomial ==
  ASSUME NEW d \in Nat, NEW x \in Nat, NEW y \in Nat, x <= y, y <= d
  PROVE  /\ 2 * d * (y - x) - (y * y - x * x) = (2 * d * y - y * y) - (2 * d * x - x * x)
         /\ 2 * d * (y - x) - (y * y - x * x) >= 0
<1>1. (y - x) * (2 * d - y - x) >= 0
  BY ProductSign
<1>2. (y - x) * (2 * d - y - x) = 2 * d * (y - x) - (y * y - x * x)
  OBVIOUS
<1> QED
  BY <1>1, <1>2

(* The intervals of a slope add up, and never count below zero. *)
LEMMA SlopeAdds ==
  ASSUME NEW s, s.start \in Nat, s.increment \in Int, NEW a \in Nat, NEW b \in Nat, a <= b
  PROVE  /\ SlopeMessages(s, a, b) = SlopeTotal(s, b) - SlopeTotal(s, a)
         /\ SlopeMessages(s, a, b) \in Nat
         /\ SlopeTotal(s, a) \in Int /\ SlopeTotal(s, b) \in Int
<1> DEFINE k == s.increment
           d == s.start * TicksPerSecond
<1>1. d \in Nat
  BY ShaperAssumption
<1> HIDE DEF d
<1>2. CASE k = 0
  <2>1. SlopeMessages(s, a, b) = 2 * d * (b - a)
    BY <1>2 DEF SlopeMessages, d
  <2>2. SlopeTotal(s, a) = 2 * d * a /\ SlopeTotal(s, b) = 2 * d * b
    BY <1>2 DEF SlopeTotal, d
  <2>3. 2 * d * (b - a) = 2 * d * b - 2 * d * a
    BY <1>1
  <2>4. 2 * d * (b - a) >= 0
    BY <1>1, ProductSign
  <2>5. 2 * d * (b - a) \in Int /\ 2 * d * a \in Int /\ 2 * d * b \in Int
    BY <1>1
  <2> QED
    BY <2>1, <2>2, <2>3, <2>4, <2>5
<1>3. CASE k > 0
  <2> DEFINE x == k * a
             y == k * b
  <2>1. x \in Nat /\ y \in Nat
    BY <1>3
  <2>2. x <= y
    <3>1. k * (b - a) >= 0 /\ k * (b - a) = y - x
      BY <1>3, ProductSign
    <3> HIDE DEF x, y
    <3> QED
      BY <2>1, <3>1
  <2>3. SlopeMessages(s, a, b) = (y * y - x * x) + 2 * d * (y - x)
    BY <1>3, SlopeRises DEF d
  <2>4. SlopeTotal(s, a) = x * x + 2 * d * x /\ SlopeTotal(s, b) = y * y + 2 * d * y
    BY <1>3 DEF SlopeTotal, d
  <2> HIDE DEF x, y
  <2>5. /\ (y * y - x * x) + 2 * d * (y - x) = (y * y + 2 * d * y) - (x * x + 2 * d * x)
        /\ (y * y - x * x) + 2 * d * (y - x) >= 0
    BY <1>1, <2>1, <2>2, RisingPolynomial
  <2>6. /\ (y * y - x * x) + 2 * d * (y - x) \in Int
        /\ x * x + 2 * d * x \in Int /\ y * y + 2 * d * y \in Int
    BY <1>1, <2>1
  <2> QED
    BY <2>3, <2>4, <2>5, <2>6
<1>4. CASE k < 0
  <2> DEFINE x == Fallen(s, a)
             y == Fallen(s, b)
  <2>1. x \in Nat /\ y \in Nat /\ x <= y /\ y <= d
    BY <1>4, FallenRises DEF d
  <2>2. SlopeMessages(s, a, b) = 2 * d * (y - x) - (y * y - x * x)
    BY <1>4, SlopeFalls DEF d
  <2>3. SlopeTotal(s, a) = 2 * d * x - x * x /\ SlopeTotal(s, b) = 2 * d * y - y * y
    BY <1>4 DEF SlopeTotal, d
  <2> HIDE DEF x, y
  <2>4. /\ 2 * d * (y - x) - (y * y - x * x) = (2 * d * y - y * y) - (2 * d * x - x * x)
        /\ 2 * d * (y - x) - (y * y - x * x) >= 0
    BY <1>1, <2>1, FallingPolynomial
  <2>5. /\ 2 * d * (y - x) - (y * y - x * x) \in Int
        /\ 2 * d * x - x * x \in Int /\ 2 * d * y - y * y \in Int
    BY <1>1, <2>1
  <2> QED
    BY <2>2, <2>3, <2>4, <2>5
<1> QED
  BY <1>2, <1>3, <1>4

(* What a slope asks for is the area below it: a trapezoid, or the         *)
(* triangle before the zero point.                                         *)
LEMMA SlopeArea ==
  ASSUME NEW s, s.shape = "slope", s.start \in Nat, s.increment \in Int, NEW t \in Nat
  PROVE  SlopeTotal(s, t) = Area(s, t) /\ SlopeTotal(s, 0) = 0
<1> DEFINE k == s.increment
           d == s.start * TicksPerSecond
           f == d + k * t
           area == IF f >= 0 THEN Max({1, Abs(k)}) * t * (d + f) ELSE d * d
<1>1. d \in Nat
  BY ShaperAssumption
<1>2. Area(s, t) = area
  BY DEF Area
<1>3. Abs(k) \in Nat /\ Max({1, Abs(k)}) = IF k = 0 THEN 1 ELSE Abs(k)
  <2>1. Abs(k) \in Int /\ Abs(k) \in Nat /\ (k # 0 => Abs(k) >= 1) /\ (k = 0 => Abs(k) = 0)
    BY DEF Abs
  <2>2. Max({1, Abs(k)}) = IF 1 >= Abs(k) THEN 1 ELSE Abs(k)
    BY <2>1, MaxOfTwo
  <2> QED
    BY <2>1, <2>2
<1> HIDE DEF d
<1>4. CASE k = 0
  <2>1. f = d /\ area = 1 * t * (d + d)
    BY <1>1, <1>3, <1>4
  <2>2. SlopeTotal(s, t) = 2 * d * t /\ SlopeTotal(s, 0) = 2 * d * 0
    BY <1>4 DEF SlopeTotal, d
  <2> QED
    BY <1>1, <1>2, <2>1, <2>2
<1>5. CASE k > 0
  <2>1. Abs(k) = k /\ f >= 0
    BY <1>1, <1>5 DEF Abs
  <2>2. area = k * t * (d + (d + k * t))
    BY <1>3, <1>5, <2>1
  <2>3. /\ SlopeTotal(s, t) = (k * t) * (k * t) + 2 * d * (k * t)
        /\ SlopeTotal(s, 0) = (k * 0) * (k * 0) + 2 * d * (k * 0)
    BY <1>5 DEF SlopeTotal, d
  <2>4. k * t * (d + (d + k * t)) = (k * t) * (k * t) + 2 * d * (k * t)
    BY <1>1
  <2>5. (k * 0) * (k * 0) + 2 * d * (k * 0) = 0
    BY <1>1
  <2> QED
    BY <1>2, <2>2, <2>3, <2>4, <2>5
<1>6. CASE k < 0
  <2>1. Abs(k) = -k
    BY <1>6 DEF Abs
  <2>2. SlopeTotal(s, t) = 2 * d * Fallen(s, t) - Fallen(s, t) * Fallen(s, t)
    BY <1>6 DEF SlopeTotal, d
  <2>3. SlopeTotal(s, 0) = 0
    <3>1. Fallen(s, 0) = 0
      BY <1>1 DEF Fallen, d
    <3>2. SlopeTotal(s, 0) = 2 * d * Fallen(s, 0) - Fallen(s, 0) * Fallen(s, 0)
      BY <1>6 DEF SlopeTotal, d
    <3> QED
      BY <1>1, <3>1, <3>2
  <2>4. CASE f >= 0
    <3>1. d >= -(k * t)
      BY <1>1, <2>4
    <3>2. Fallen(s, t) = -(k * t)
      <4>1. Fallen(s, t) = IF d <= -(k * t) THEN d ELSE -(k * t)
        BY DEF Fallen, d
      <4>2. -(k * t) \in Int
        OBVIOUS
      <4> QED
        BY <1>1, <3>1, <4>1, <4>2
    <3>3. area = (-k) * t * (d + (d + k * t))
      BY <1>3, <1>6, <2>1, <2>4
    <3>4. (-k) * t * (d + (d + k * t)) = 2 * d * (-(k * t)) - (-(k * t)) * (-(k * t))
      BY <1>1
    <3> QED
      BY <1>2, <2>2, <2>3, <3>2, <3>3, <3>4
  <2>5. CASE f < 0
    <3>1. Fallen(s, t) = d
      <4>1. Fallen(s, t) = IF d <= -(k * t) THEN d ELSE -(k * t)
        BY DEF Fallen, d
      <4>2. d <= -(k * t)
        BY <1>1, <2>5
      <4> QED
        BY <4>1, <4>2
    <3>2. area = d * d
      BY <1>1, <2>5
    <3>3. 2 * d * d - d * d = d * d
      BY <1>1
    <3> QED
      BY <1>2, <2>2, <2>3, <3>1, <3>2, <3>3
  <2> QED
    BY <1>1, <2>4, <2>5
<1> QED
  BY <1>4, <1>5, <1>6

(* The sine of a wave rises by at most one per quarter of a period. *)
LEMMA SineRises ==
  ASSUME NEW a \in Nat, NEW b \in Nat, a < b
  PROVE  Sine(a) \in -1 .. 1 /\ Sine(b) \in -1 .. 1 /\ Sine(b) - Sine(a) <= b - a
<1>1. \A q \in Nat : Sine(q) = IF q % 4 = 1 THEN 1 ELSE IF q % 4 = 3 THEN -1 ELSE 0
  BY DEF Sine
<1>2. Sine(a) \in -1 .. 1 /\ Sine(b) \in -1 .. 1
  BY <1>1
<1>3. CASE b >= a + 2
  BY <1>2, <1>3
<1>4. CASE b = a + 1
  <2>1. a % 4 = 3 => b % 4 # 1
    BY <1>4
  <2> QED
    BY <1>1, <1>4, <2>1
<1> QED
  BY <1>2, <1>3, <1>4

(* A wave that stays above zero. *)
LEMMA WaveAdds ==
  ASSUME NEW s, s.min \in Nat, s.max \in Nat, s.min <= s.max, s.period \in Nat \ {0},
         NEW a \in Nat, NEW b \in Nat, a < b
  PROVE  /\ WaveIntegral(s, a) \in Int /\ WaveIntegral(s, b) \in Int
         /\ WaveMessages(s, a, b) \in Nat
<1> DEFINE u == Sine(a)
           v == Sine(b)
           m == s.min + s.max
           w == s.max - s.min
           n == b - a
           pa == 355 * a * m - 226 * w * u
           pb == 355 * b * m - 226 * w * v
<1>1. u \in Int /\ v \in Int /\ v - u <= n
  BY SineRises
<1>2. m \in Nat /\ w \in Nat /\ w <= m /\ n \in Nat
  OBVIOUS
<1> HIDE DEF u, v
<1>3. WaveIntegral(s, a) = s.period * pa /\ WaveIntegral(s, b) = s.period * pb
  <2>1. /\ WaveIntegral(s, a) = s.period * (355 * a * m + 226 * (s.min - s.max) * u)
        /\ WaveIntegral(s, b) = s.period * (355 * b * m + 226 * (s.min - s.max) * v)
    BY DEF WaveIntegral, u, v
  <2>2. /\ 226 * (s.min - s.max) * u = 0 - 226 * w * u
        /\ 226 * (s.min - s.max) * v = 0 - 226 * w * v
    BY <1>1
  <2>3. /\ 355 * a * m + 226 * (s.min - s.max) * u = pa
        /\ 355 * b * m + 226 * (s.min - s.max) * v = pb
    BY <1>1, <1>2, <2>2
  <2> QED
    BY <2>1, <2>3
<1>4. pa \in Int /\ pb \in Int
  BY <1>1, <1>2
<1>5. pb - pa >= 0
  <2>1. w * (n - (v - u)) >= 0 /\ (m - w) * n >= 0 /\ m * n >= 0
    BY <1>1, <1>2, ProductSign
  <2>2. pb - pa = 355 * (m * n) - 226 * (w * (v - u))
    BY <1>1, <1>2
  <2>3. w * (n - (v - u)) = w * n - w * (v - u) /\ (m - w) * n = m * n - w * n
    BY <1>1, <1>2
  <2>4. m * n \in Int /\ w * n \in Int /\ w * (v - u) \in Int
    BY <1>1, <1>2
  <2>5. m * n >= w * (v - u)
    BY <2>1, <2>3, <2>4
  <2> QED
    BY <2>1, <2>2, <2>4, <2>5
<1> HIDE DEF pa, pb
<1>6. s.period * (pb - pa) >= 0 /\ s.period * (pb - pa) = s.period * pb - s.period * pa
  BY <1>4, <1>5, ProductSign
<1>7. s.period * pa \in Int /\ s.period * pb \in Int
  BY <1>4
<1> QED
  BY <1>3, <1>6, <1>7 DEF WaveMessages

(* The area below a wave, at full and half periods. *)
LEMMA WaveArea ==
  ASSUME NEW s, s.shape = "wave", s.min \in Nat, s.max \in Nat, s.period \in Nat \ {0},
         NEW t \in Nat
  PROVE  /\ WaveIntegral(s, 0) = 0
         /\ t % 2 = 0 => WaveIntegral(s, t) = Area(s, t)
<1>1. ASSUME NEW q \in Nat, q % 2 = 0
      PROVE  WaveIntegral(s, q) = s.period * 355 * q * (s.min + s.max)
  <2>1. Sine(q) = 0
    BY <1>1 DEF Sine
  <2>2. WaveIntegral(s, q) = s.period * (355 * q * (s.min + s.max) + 226 * (s.min - s.max) * 0)
    BY <2>1 DEF WaveIntegral
  <2>3. s.period * (355 * q * (s.min + s.max) + 226 * (s.min - s.max) * 0)
          = s.period * 355 * q * (s.min + s.max)
    OBVIOUS
  <2> QED
    BY <2>2, <2>3
<1>2. WaveIntegral(s, 0) = 0
  <2>1. s.period * 355 * 0 * (s.min + s.max) = 0
    OBVIOUS
  <2> QED
    BY <1>1, <2>1
<1>3. t % 2 = 0 => WaveIntegral(s, t) = Area(s, t)
  BY <1>1 DEF Area
<1> QED
  BY <1>2, <1>3

(* What a shape asks for from the start to tick t. *)
Total(s, t) ==
  CASE s.shape = "constant" -> s.frequency * t
    [] s.shape = "slope" -> SlopeTotal(s, t)
    [] s.shape = "wave" -> WaveIntegral(s, t)

(* The messages of adjacent intervals add up, whatever the shape. *)
LEMMA MessagesAddUp ==
  ASSUME NEW s, IsShape(s), s.shape # "auto", NEW r, NEW a \in Nat, NEW b \in Nat, a < b
  PROVE  /\ Messages(s, r, a, b) \in Nat
         /\ Total(s, a) + Messages(s, r, a, b) = Total(s, b)
<1>1. CASE s.shape = "constant"
  <2>1. s.frequency \in Nat
    BY <1>1 DEF IsShape
  <2> DEFINE m == (b - a) * s.frequency
  <2>2. m \in Nat /\ s.frequency * a + m = s.frequency * b
    BY <2>1
  <2> HIDE DEF m
  <2>3. Max({m, 0}) = m
    BY <2>2, MaxOfTwo
  <2>4. Messages(s, r, a, b) = m
    BY <1>1, <2>3 DEF Messages, ConstantMessages, m
  <2>5. Total(s, a) = s.frequency * a /\ Total(s, b) = s.frequency * b
    BY <1>1 DEF Total
  <2> QED
    BY <2>2, <2>4, <2>5
<1>2. CASE s.shape = "slope"
  <2>1. s.start \in Nat /\ s.increment \in Int
    BY <1>2 DEF IsShape
  <2>2. Messages(s, r, a, b) = SlopeMessages(s, a, b)
    BY <1>2 DEF Messages
  <2>3. Total(s, a) = SlopeTotal(s, a) /\ Total(s, b) = SlopeTotal(s, b)
    BY <1>2 DEF Total
  <2>4. /\ SlopeMessages(s, a, b) = SlopeTotal(s, b) - SlopeTotal(s, a)
        /\ SlopeMessages(s, a, b) \in Nat
        /\ SlopeTotal(s, a) \in Int /\ SlopeTotal(s, b) \in Int
    BY <2>1, SlopeAdds
  <2> QED
    BY <2>2, <2>3, <2>4
<1>3. CASE s.shape = "wave"
  <2>1. s.min \in Nat /\ s.max \in Nat /\ s.min <= s.max /\ s.period \in Nat \ {0}
    BY <1>3 DEF IsShape
  <2>2. Messages(s, r, a, b) = WaveMessages(s, a, b)
    BY <1>3 DEF Messages
  <2>3. Total(s, a) = WaveIntegral(s, a) /\ Total(s, b) = WaveIntegral(s, b)
    BY <1>3 DEF Total
  <2>4. /\ WaveIntegral(s, a) \in Int /\ WaveIntegral(s, b) \in Int
        /\ WaveMessages(s, a, b) \in Nat
    BY <2>1, WaveAdds
  <2>5. WaveMessages(s, a, b) = WaveIntegral(s, b) - WaveIntegral(s, a)
    BY DEF WaveMessages
  <2> QED
    BY <2>2, <2>3, <2>4, <2>5
<1> QED
  BY <1>1, <1>2, <1>3 DEF IsShape

(* Their sum is the area below the curve of the shape. *)
LEMMA TotalIsArea ==
  ASSUME NEW s, IsShape(s), s.shape # "auto", NEW t \in Nat
  PROVE  /\ Total(s, 0) = 0
         /\ AreaIsKnown(s, t) => Total(s, t) = Area(s, t)
<1>1. CASE s.shape = "constant"
  BY <1>1 DEF IsShape, Total, Area
<1>2. CASE s.shape = "slope"
  BY <1>2, SlopeArea DEF IsShape, Total
<1>3. CASE s.shape = "wave"
  BY <1>3, WaveArea DEF IsShape, Total, AreaIsKnown
<1> QED
  BY <1>1, <1>2, <1>3 DEF IsShape

(* Run triggers whole messages until nothing is pending. *)
LEMMA DueRounds ==
  ASSUME NEW d \in Nat \ {0}, NEW p \in Int, -d < p
  PROVE  /\ Due(p, d) \in Nat
         /\ -d < p - Due(p, d) * d /\ p - Due(p, d) * d <= 0
<1>1. CASE p > 0
  <2> DEFINE x == p + d - 1
             q == x \div d
  <2>1. x \in Int /\ Due(p, d) = q
    BY <1>1 DEF Due
  <2> HIDE DEF x
  <2>2. q \in Int /\ d * q <= x /\ x < d * q + d
    BY <2>1, Quotient
  <2> HIDE DEF q
  <2>3. d * q \in Int /\ d * q = q * d
    BY <2>2
  <2>4. d * q > 0 - d
    BY <1>1, <2>2, <2>3 DEF x
  <2>5. q >= 0
    <3> SUFFICES ASSUME q < 0 PROVE FALSE
      BY <2>2
    <3>1. d * q + d <= d * 0
      BY <2>2, MultiplesApart
    <3> QED
      BY <2>3, <2>4, <3>1
  <2> QED
    BY <2>1, <2>2, <2>3, <2>5 DEF x
<1>2. CASE p <= 0
  BY <1>2 DEF Due
<1> QED
  BY <1>1, <1>2

(* A multiple that is less than one message above a number is that number  *)
(* rounded up.                                                             *)
LEMMA RoundedUp ==
  ASSUME NEW d \in Nat \ {0}, NEW p \in Nat, NEW m \in Int, -d < p - m * d, p - m * d <= 0
  PROVE  Due(p, d) = m
<1> DEFINE n == Due(p, d)
<1>1. n \in Nat /\ -d < p - n * d /\ p - n * d <= 0
  BY DueRounds
<1> HIDE DEF n
<1>2. d * m = m * d /\ d * n = n * d /\ d * m \in Int /\ d * n \in Int
  BY <1>1
<1>3. ~(m < n)
  <2> SUFFICES ASSUME m < n PROVE FALSE
    OBVIOUS
  <2>1. d * m + d <= d * n
    BY <1>1, MultiplesApart
  <2> QED
    BY <1>1, <1>2, <2>1
<1>4. ~(n < m)
  <2> SUFFICES ASSUME n < m PROVE FALSE
    OBVIOUS
  <2>1. d * n + d <= d * m
    BY <1>1, MultiplesApart
  <2> QED
    BY <1>1, <1>2, <2>1
<1> QED
  BY <1>1, <1>3, <1>4 DEF n

-----------------------------------------------------------------------------
(* The pace of the load *)

(* Once Run is underway, what it asked the shaper for is the total of the  *)
(* shape up to now, and what it triggered is that, rounded up.             *)
ShapeInv ==
  /\ {clock, horizon, asked, todo, rate} \subseteq Nat
  /\ pendingParts \in Int /\ gapRead \in Nat \cup {-1}
  /\ phase = "check" => IsRate(shaper)
  /\ phase \in {"deploy", "users", "fund", "run"} => IsShape(shaper)
  /\ phase # "run" => clock = 0 /\ asked = 0 /\ pendingParts = 0 /\ gapRead = -1
  /\ phase = "run" =>
       /\ -Scale(shaper) < pendingParts /\ pendingParts <= 0
       /\ \E m \in Int : asked - pendingParts = m * Scale(shaper)
       /\ shaper.shape # "auto" => gapRead = -1 /\ asked = Total(shaper, clock)

(* Nothing is asked for in the beginning. *)
LEMMA ShapeInit == AppInit => ShapeInv
<1> SUFFICES ASSUME AppInit PROVE ShapeInv
  OBVIOUS
<1>1. IsRate(shaper) /\ horizon \in Nat
  BY CasesAssumption DEF AppInit
<1>2. phase = "check"
  BY DEF AppInit
<1>3. clock = 0 /\ asked = 0 /\ pendingParts = 0 /\ gapRead = -1 /\ todo = 0 /\ rate = 0
  BY DEF AppInit
<1> QED
  BY <1>1, <1>2, <1>3 DEF ShapeInv

(* Nothing is asked for before the set-up is over. *)
LEMMA SetupShape == ASSUME ShapeInv, Setup PROVE ShapeInv'
<1>1. UNCHANGED <<horizon, clock, asked, pendingParts, rate, gapRead, todo>>
  BY DEF Setup, CheckRate, NewAppController, FundAccounts, MintForAll, Deploy, CreateUsers,
         shaperVars, caseVars
<1>2. /\ phase \in {"check", "deploy", "users", "fund"}
      /\ clock = 0 /\ asked = 0 /\ pendingParts = 0 /\ gapRead = -1
  BY DEF Setup, CheckRate, NewAppController, FundAccounts, MintForAll, Deploy, CreateUsers,
         ShapeInv
<1>3. CASE phase = "check"
  <2>1. CheckRate
    BY <1>3 DEF Setup, NewAppController, FundAccounts, MintForAll, Deploy, CreateUsers
  <2>2. \/ phase' = "rejected"
        \/ phase' = "deploy" /\ RateCheck(shaper) /\ shaper' = ParseRate(shaper)
    BY <2>1 DEF CheckRate
  <2>3. phase' = "deploy" => IsShape(shaper')
    BY <1>3, <2>2, ParsedIsShape DEF ShapeInv
  <2>4. IsShape(shaper') => IsShape(shaper)'
    BY DEF IsShape
  <2> QED
    BY <1>1, <1>2, <2>2, <2>3, <2>4 DEF ShapeInv
<1>4. CASE phase # "check"
  <2>1. UNCHANGED shaper /\ phase' \in {"deploy", "users", "fund", "run", "failed"}
    BY <1>2, <1>4 DEF Setup, CheckRate, NewAppController, FundAccounts, MintForAll, Deploy,
                      CreateUsers
  <2>2. IsShape(shaper) /\ IsShape(shaper)'
    BY <1>2, <1>4, <2>1 DEF ShapeInv, IsShape
  <2>3. Scale(shaper) \in Nat \ {0} /\ Scale(shaper)' = Scale(shaper)
    BY <2>1, <2>2, ScaleType DEF Scale
  <2>4. /\ -Scale(shaper)' < pendingParts' /\ pendingParts' <= 0
        /\ asked' - pendingParts' = 0 * Scale(shaper)'
    BY <1>1, <1>2, <2>3
  <2>5. shaper.shape # "auto" => asked' = Total(shaper, clock)'
    <3>1. shaper.shape # "auto" => Total(shaper, 0) = 0
      BY <2>2, TotalIsArea
    <3>2. Total(shaper, clock)' = Total(shaper, 0)
      BY <1>1, <1>2, <2>1 DEF Total
    <3> QED
      BY <1>1, <1>2, <3>1, <3>2
  <2> QED
    BY <1>1, <1>2, <2>1, <2>2, <2>4, <2>5 DEF ShapeInv
<1> QED
  BY <1>3, <1>4

(* An interval of the loop. *)
LEMMA ReplenishShape ==
  ASSUME ShapeInv, phase = "run", NEW to \in Nat, clock < to, rate' \in Nat,
         ReplenishTo(pendingParts, to), UNCHANGED <<shaper, phase, horizon>>, gapRead' = -1
  PROVE  ShapeInv'
<1> DEFINE more == Messages(shaper, rate', clock, to)
           d == Scale(shaper)
           p == pendingParts + more
           n == Due(p, d)
<1>1. /\ clock' = to /\ asked' = asked + more /\ todo' = todo + n
      /\ pendingParts' = pendingParts + (more - n * d)
  BY DEF ReplenishTo
<1>2. IsShape(shaper) /\ d \in Nat \ {0}
  BY ScaleType DEF ShapeInv
<1>3. more \in Nat
  <2>1. CASE shaper.shape = "auto"
    <3>1. more = rate' * (to - clock)
      BY <2>1 DEF Messages, AutoMessages
    <3>2. rate' \in Nat /\ to - clock \in Nat
      BY DEF ShapeInv
    <3>3. \A x, y \in Nat : x * y \in Nat
      OBVIOUS
    <3> HIDE DEF more
    <3> QED
      BY <3>1, <3>2, <3>3
  <2>2. CASE shaper.shape # "auto"
    <3>1. clock \in Nat
      BY DEF ShapeInv
    <3> QED
      BY <1>2, <2>2, <3>1, MessagesAddUp
  <2> QED
    BY <2>1, <2>2
<1>4. /\ pendingParts \in Int /\ asked \in Nat /\ todo \in Nat /\ clock \in Nat
      /\ -d < pendingParts /\ pendingParts <= 0 /\ horizon \in Nat
  BY DEF ShapeInv
<1>5. PICK m \in Int : asked - pendingParts = m * d
  BY DEF ShapeInv
<1> HIDE DEF more, n, d
<1>6. p \in Int /\ -d < p
  BY <1>2, <1>3, <1>4
<1> HIDE DEF p
<1>7. n \in Nat /\ -d < p - n * d /\ p - n * d <= 0
  BY <1>2, <1>6, DueRounds DEF n
<1>8. n * d \in Int /\ m * d \in Int /\ (m + n) * d = m * d + n * d
  BY <1>2, <1>7
<1>9. pendingParts' = p - n * d
  BY <1>1, <1>3, <1>4, <1>8 DEF p
<1>10. asked' - pendingParts' = (m + n) * d
  BY <1>1, <1>3, <1>4, <1>5, <1>8, <1>9 DEF p
<1>11. Scale(shaper)' = d
  BY DEF Scale, d
<1>12. shaper.shape # "auto" => asked' = Total(shaper, clock)'
  <2> SUFFICES ASSUME shaper.shape # "auto" PROVE asked' = Total(shaper, clock)'
    OBVIOUS
  <2>1. asked = Total(shaper, clock)
    BY DEF ShapeInv
  <2>2. Total(shaper, clock) + more = Total(shaper, to)
    BY <1>2, <1>4, MessagesAddUp DEF more
  <2>3. Total(shaper, clock)' = Total(shaper, to)
    BY <1>1 DEF Total, SlopeTotal, Fallen, WaveIntegral, Sine
  <2> QED
    BY <1>1, <2>1, <2>2, <2>3
<1>13. {clock', horizon', asked', todo', rate'} \subseteq Nat /\ pendingParts' \in Int
  BY <1>1, <1>3, <1>4, <1>6, <1>7, <1>8, <1>9
<1>14. IsShape(shaper)'
  BY <1>2 DEF IsShape
<1>15. m + n \in Int
  BY <1>7
<1> QED
  BY <1>7, <1>9, <1>10, <1>11, <1>12, <1>13, <1>14, <1>15 DEF ShapeInv

(* The auto shaper does not take its rate below zero. *)
LEMMA AdjustedType ==
  ASSUME IsShape(shaper), shaper.shape = "auto", rate \in Nat, NEW gap
  PROVE  Adjusted(gap) \in Nat
<1>1. shaper.increase \in Nat /\ shaper.decrease \in 0 .. 2 /\ RateUnit \in Nat
  BY ShaperAssumption DEF IsShape
<1>2. shaper.increase * RateUnit \in Nat
  BY <1>1
<1>3. 2 - shaper.decrease \in Nat
  BY <1>1
<1> DEFINE x == rate * (2 - shaper.decrease)
<1>4. x \in Nat
  BY <1>3
<1> HIDE DEF x
<1>5. x \div 2 \in Nat
  BY <1>4
<1> QED
  BY <1>2, <1>5 DEF Adjusted, x

(* Every step keeps to the shape. *)
LEMMA ShapeStep == CountInv /\ ShapeInv /\ [AppNext]_loadVars => ShapeInv'
<1> SUFFICES ASSUME CountInv, ShapeInv, [AppNext]_loadVars PROVE ShapeInv'
  OBVIOUS
<1>1. CASE UNCHANGED <<shaper, horizon, phase, shaperVars>> /\ todo' \in Nat
  <2>1. UNCHANGED <<shaper, horizon, phase, clock, asked, pendingParts, rate, gapRead>>
    BY <1>1 DEF shaperVars
  <2>2. /\ Scale(shaper)' = Scale(shaper) /\ Total(shaper, clock)' = Total(shaper, clock)
        /\ IsShape(shaper)' <=> IsShape(shaper)
        /\ IsRate(shaper)' <=> IsRate(shaper)
    BY <2>1 DEF Scale, Total, SlopeTotal, Fallen, WaveIntegral, Sine, IsShape, IsRate
  <2> QED
    BY <1>1, <2>1, <2>2 DEF ShapeInv
<1>2. CASE UNCHANGED loadVars
  BY <1>1, <1>2 DEF loadVars, caseVars, setupVars, ShapeInv
<1>3. ASSUME NEW u \in AppUsers, UserGenerateTx(u) PROVE ShapeInv'
  BY <1>1, <1>3 DEF UserGenerateTx, caseVars, setupVars, ShapeInv
<1>4. ASSUME NEW tx \in net, Execute(tx) \/ Lose(tx) PROVE ShapeInv'
  BY <1>1, <1>4 DEF Execute, Lose, caseVars, setupVars, ShapeInv
<1>5. ASSUME NEW n \in 1 .. 2, Loop(n) PROVE ShapeInv'
  <2>1. /\ phase = "run" /\ gapRead' = -1 /\ rate' = rate
        /\ UNCHANGED <<shaper, phase, horizon>> /\ ReplenishTo(pendingParts, clock + n)
    BY <1>5 DEF Loop, caseVars, setupVars
  <2>2. clock + n \in Nat /\ clock < clock + n /\ rate' \in Nat
    BY <2>1 DEF ShapeInv
  <2> QED
    BY <2>1, <2>2, ReplenishShape
<1>6. ASSUME ReadSent PROVE ShapeInv'
  <2>1. /\ phase = "run" /\ gapRead' = GetSentTransactions /\ shaper.shape = "auto"
        /\ UNCHANGED <<shaper, phase, horizon, clock, asked, pendingParts, rate, todo>>
    BY <1>6 DEF ReadSent, OverflowCheckIsDue, caseVars, setupVars
  <2>2. gapRead' \in Nat
    BY <2>1, LoadAssumption, SumType DEF CountInv, GetSentTransactions
  <2>3. Scale(shaper)' = Scale(shaper) /\ (IsShape(shaper)' <=> IsShape(shaper))
    BY <2>1 DEF Scale, IsShape
  <2> QED
    BY <2>1, <2>2, <2>3 DEF ShapeInv
<1>7. ASSUME ReadReceived PROVE ShapeInv'
  <2>1. /\ gapRead >= 0 /\ gapRead' = -1 /\ UNCHANGED <<shaper, phase, horizon>>
        /\ \E gap : rate' = Adjusted(gap)
    BY <1>7 DEF ReadReceived, caseVars, setupVars
  <2>2. PICK n \in 1 .. (horizon - clock) : ReplenishTo(pendingParts, clock + n)
    BY <1>7 DEF ReadReceived
  <2>3. phase = "run" /\ shaper.shape = "auto"
    BY <2>1 DEF ShapeInv
  <2>4. IsShape(shaper) /\ rate \in Nat
    BY <2>3 DEF ShapeInv
  <2>5. rate' \in Nat
    BY <2>1, <2>3, <2>4, AdjustedType
  <2>6. clock + n \in Nat /\ clock < clock + n
    BY <2>2 DEF ShapeInv
  <2> QED
    BY <2>1, <2>2, <2>3, <2>5, <2>6, ReplenishShape
<1> QED
  BY <1>2, <1>3, <1>4, <1>5, <1>6, <1>7, SetupShape DEF AppNext

(* The messages Run triggers follow the shape: they are the area below its *)
(* curve, rounded up to whole messages, for every shape that the parser    *)
(* accepts and however the time is cut into intervals.                     *)
THEOREM LoadFollowsShape == AppSpec => []TriggersFollowShape
<1>1. ShapeInv => TriggersFollowShape
  <2> SUFFICES ASSUME ShapeInv, phase = "run", shaper.shape # "auto",
                      AreaIsKnown(shaper, clock)
               PROVE  /\ asked = Area(shaper, clock)
                      /\ asked - pendingParts
                           = Due(Area(shaper, clock), Scale(shaper)) * Scale(shaper)
    BY DEF TriggersFollowShape
  <2> DEFINE d == Scale(shaper)
  <2>1. IsShape(shaper) /\ clock \in Nat /\ asked \in Nat /\ pendingParts \in Int
    BY DEF ShapeInv
  <2>2. asked = Area(shaper, clock)
    BY <2>1, TotalIsArea DEF ShapeInv
  <2>3. d \in Nat \ {0}
    BY <2>1, ScaleType
  <2>4. PICK m \in Int : asked - pendingParts = m * d
    BY DEF ShapeInv
  <2>5. -d < pendingParts /\ pendingParts <= 0
    BY DEF ShapeInv
  <2> HIDE DEF d
  <2>6. m * d \in Int
    BY <2>3
  <2>7. -d < asked - m * d /\ asked - m * d <= 0
    BY <2>1, <2>3, <2>4, <2>5, <2>6
  <2>8. Due(asked, d) = m
    BY <2>1, <2>3, <2>7, RoundedUp
  <2> QED
    BY <2>2, <2>4, <2>8 DEF d
<1>2. AppSpec => [](CountInv /\ ShapeInv)
  <2>1. AppInit => CountInv /\ ShapeInv
    BY CountInit, ShapeInit
  <2>2. CountInv /\ ShapeInv /\ [AppNext]_loadVars => (CountInv /\ ShapeInv)'
    BY CountStep, ShapeStep
  <2> QED
    BY <2>1, <2>2, PTL DEF AppSpec
<1> QED
  BY <1>1, <1>2, PTL

-----------------------------------------------------------------------------
(* Types *)

PlacesInv ==
  /\ deployed \subseteq types
  /\ phase \in {"check", "rejected", "deploy", "users", "fund", "run", "failed"}
  /\ funded \subseteq Accounts /\ minted \subseteq Accounts
  /\ nonce \in [Accounts -> Nat] /\ lost \in Nat

(* The accounts that are funded, or get tokens, are accounts. *)
LEMMA AccountsOfType ==
  ASSUME types \subseteq DOMAIN Apps, NEW k \in types
  PROVE  ToFund(k) \subseteq Accounts /\ ToMint(k) \subseteq Accounts
<1>1. Apps[k].funded \subseteq Apps[k].accounts /\ Apps[k].minted \subseteq Apps[k].accounts
  BY AppsFit DEF AppFits
<1>2. /\ ToFund(k) \subseteq AccountsOf(k, Apps[k].accounts)
      /\ ToMint(k) \subseteq AccountsOf(k, Apps[k].accounts)
  BY <1>1 DEF ToFund, ToMint, AccountsOf
<1>3. AccountsOf(k, Apps[k].accounts) \subseteq Accounts
  BY DEF Accounts
<1> QED
  BY <1>2, <1>3

(* The initial values have their types. *)
LEMMA PlacesInit == AppInit => PlacesInv
<1> SUFFICES ASSUME AppInit PROVE PlacesInv
  OBVIOUS
<1>1. nonce = [a \in Accounts |-> 0] /\ phase = "check"
  BY DEF AppInit
<1>2. deployed = {} /\ funded = {} /\ minted = {} /\ lost = 0
  BY DEF AppInit
<1>3. nonce \in [Accounts -> Nat]
  BY <1>1
<1> QED
  BY <1>1, <1>2, <1>3 DEF PlacesInv

(* The set-up. *)
LEMMA SetupPlaces == ASSUME SetupInv, PlacesInv, Setup PROVE PlacesInv'
<1>1. UNCHANGED <<types, nonce, lost>>
  BY DEF Setup, CheckRate, NewAppController, FundAccounts, MintForAll, Deploy, CreateUsers,
         caseVars, userVars, chainVars
<1>2. Accounts' = Accounts
  BY <1>1 DEF Accounts, AccountsOf
<1>3. CASE CheckRate \/ NewAppController \/ \E k \in types : CreateUsers(k)
  <2>1. /\ UNCHANGED <<deployed, funded, minted>>
        /\ phase' \in {"deploy", "rejected", "users", "fund"}
    BY <1>3 DEF CheckRate, NewAppController, CreateUsers
  <2> QED
    BY <1>1, <1>2, <2>1 DEF PlacesInv
<1>4. CASE \E k \in types : Deploy(k)
  <2>1. /\ UNCHANGED <<funded, minted>> /\ deployed' \subseteq types
        /\ phase' \in {"deploy", "failed"}
    BY <1>4 DEF Deploy, PlacesInv
  <2> QED
    BY <1>1, <1>2, <2>1 DEF PlacesInv
<1>5. CASE FundAccounts
  <2>1. /\ phase = "fund" /\ unfunded # <<>> /\ UNCHANGED <<deployed, minted>>
        /\ phase' \in {"fund", "failed"}
        /\ funded' \subseteq funded \cup NextBatch(unfunded).batch
    BY <1>5 DEF FundAccounts
  <2>2. current \in types /\ unfunded \in Seq(ToFund(current)) /\ types \subseteq DOMAIN Apps
    BY <2>1 DEF SetupInv
  <2>3. NextBatch(unfunded).batch \subseteq Range(unfunded)
    BY <2>1, <2>2, BatchIsPrefix
  <2>4. Range(unfunded) \subseteq ToFund(current)
    <3> DEFINE S == ToFund(current)
    <3> HIDE DEF S
    <3>1. unfunded \in Seq(S)
      BY <2>2 DEF S
    <3>2. \A i \in DOMAIN unfunded : unfunded[i] \in S
      BY <3>1
    <3> QED
      BY <3>2 DEF Range, S
  <2>5. ToFund(current) \subseteq Accounts
    BY <2>2, AccountsOfType
  <2>6. funded' \subseteq Accounts
    BY <2>1, <2>3, <2>4, <2>5 DEF PlacesInv
  <2> QED
    BY <1>1, <1>2, <2>1, <2>6 DEF PlacesInv
<1>6. CASE MintForAll
  <2>1. /\ phase = "fund" /\ UNCHANGED <<deployed, funded>>
        /\ phase' \in {"run", "users", "failed"}
        /\ minted' \subseteq minted \cup ToMint(current)
    BY <1>6 DEF MintForAll, ToMint
  <2>2. ToMint(current) \subseteq Accounts
    BY <2>1, AccountsOfType DEF SetupInv
  <2>3. minted' \subseteq Accounts
    BY <2>1, <2>2 DEF PlacesInv
  <2> QED
    BY <1>1, <1>2, <2>1, <2>3 DEF PlacesInv
<1> QED
  BY <1>3, <1>4, <1>5, <1>6 DEF Setup

(* Every step keeps the types. *)
LEMMA PlacesStep == SetupInv /\ PlacesInv /\ [AppNext]_loadVars => PlacesInv'
<1> SUFFICES ASSUME SetupInv, PlacesInv, [AppNext]_loadVars PROVE PlacesInv'
  OBVIOUS
<1>1. ASSUME UNCHANGED <<types, setupVars>>, nonce' \in [Accounts -> Nat], lost' \in Nat
      PROVE  PlacesInv'
  <2>1. Accounts' = Accounts
    BY <1>1 DEF Accounts, AccountsOf
  <2>2. UNCHANGED <<phase, deployed, funded, minted>>
    BY <1>1 DEF setupVars
  <2> QED
    BY <1>1, <2>1, <2>2 DEF PlacesInv
<1>2. nonce \in [Accounts -> Nat] /\ lost \in Nat
  BY DEF PlacesInv
<1>3. CASE UNCHANGED loadVars
  BY <1>1, <1>2, <1>3 DEF loadVars, caseVars, userVars, chainVars
<1>4. CASE ReadSent \/ ReadReceived \/ \E n \in 1 .. 2 : Loop(n)
  BY <1>1, <1>2, <1>4 DEF ReadSent, ReadReceived, Loop, caseVars, userVars, chainVars
<1>5. ASSUME NEW u \in AppUsers, UserGenerateTx(u) PROVE PlacesInv'
  <2>1. UNCHANGED <<types, setupVars, lost>>
    BY <1>5 DEF UserGenerateTx, caseVars
  <2>2. nonce' = nonce \/ \E a : nonce' = [nonce EXCEPT ![a] = @ + 1]
    BY <1>5 DEF UserGenerateTx, newBundle, newEnvelope, userVars
  <2>3. nonce' \in [Accounts -> Nat]
    BY <1>2, <2>2, TakeNonce
  <2> QED
    BY <1>1, <1>2, <2>1, <2>3
<1>6. ASSUME NEW tx \in net, Execute(tx) \/ Lose(tx) PROVE PlacesInv'
  BY <1>1, <1>2, <1>6 DEF Execute, Lose, caseVars, userVars
<1> QED
  BY <1>3, <1>4, <1>5, <1>6, SetupPlaces DEF AppNext

(* Every variable of an application stays within its type: funded and      *)
(* provided with tokens are only accounts of its users, and no counter     *)
(* falls below zero, the rate of the auto shaper included.                 *)
THEOREM AppTypeCorrect == AppSpec => []AppTypeOK
<1> DEFINE Inv == SetupInv /\ CountInv /\ ShapeInv /\ PlacesInv
<1>1. AppInit => Inv
  BY SetupInit, CountInit, ShapeInit, PlacesInit
<1>2. Inv /\ [AppNext]_loadVars => Inv'
  BY SetupStep, CountStep, ShapeStep, PlacesStep
<1>3. Inv => AppTypeOK
  BY DEF SetupInv, CountInv, ShapeInv, PlacesInv, AppTypeOK
<1> QED
  BY <1>1, <1>2, <1>3, PTL DEF AppSpec
==============================================================================
