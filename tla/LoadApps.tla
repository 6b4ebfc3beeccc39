------------------------------ MODULE LoadApps -------------------------------
(***************************************************************************)
(* One load application from its static check to its load: the contracts   *)
(* it deploys, the accounts it creates, funds and provides with tokens,    *)
(* the transactions and bundles its users generate, the counters the       *)
(* controller reports, and the shaper that sets the pace (load/app,        *)
(* load/controller, load/shaper).                                          *)
(*                                                                         *)
(* An application is described by a record: whether it looks at the        *)
(* receipt of its deployment, the accounts of a user it funds and mints    *)
(* tokens for, and the steps its users put into a transaction. A step is   *)
(* sent from an account with a nonce, may pay for its gas, spends tokens   *)
(* of an account, and adds to what the application counts as received.     *)
(* The chain is external: it executes what is sent in any order, a call    *)
(* may revert, and a transaction may get lost.                             *)
(***************************************************************************)
EXTENDS Shapers, Sums, Sequences, SequencesExt

CONSTANTS
  AppUsers,      \* the users of the application
  Cases,      \* the applications to run: the rate, the types, a bound on the clock
  BatchSize,  \* accounts funded by one transaction
  MaxTxs,     \* bound on the transactions generated
  MaxLost,    \* bound on the transactions lost
  UintMod     \* wraps unsigned integers around; above any count reached

ASSUME LoadAssumption ==
  /\ IsFiniteSet(AppUsers)
  /\ BatchSize \in Nat \ {0} /\ {MaxTxs, MaxLost} \subseteq Nat /\ UintMod \in Nat \ {0}

-----------------------------------------------------------------------------
(* The applications *)

Step(acc, nonce, pays, spends, gain, reverts) ==
  [acc |-> acc, nonce |-> nonce, pays |-> pays, spends |-> spends,
   gain |-> gain, reverts |-> reverts]

(* createTx, with the next nonce the account keeps itself *)
Plain(pays, spends, reverts) ==
  {[mode |-> "plain", steps |-> <<Step("A", 0, pays, spends, 1, reverts)>>]}

LocalApp(checked, funded, minted, plans) ==
  [nonces |-> "local", checked |-> checked, accounts |-> {"A"}, funded |-> funded,
   minted |-> minted, plans |-> plans]

BundleApp(accounts, funded, minted, plans) ==
  [nonces |-> "chain", checked |-> TRUE, accounts |-> accounts, funded |-> funded,
   minted |-> minted, plans |-> plans]

CallApp == LocalApp(TRUE, {"A"}, {}, Plain(TRUE, {}, BOOLEAN))

counter == CallApp
store == CallApp
transient == CallApp
selfdestructoldcontract == CallApp
selfdestructnewcontract == CallApp
ecdsa == CallApp
largecontract == CallApp

(* The accounts that sign the authorizations send nothing themselves. *)
SmartAccountUser == Plain(TRUE, {}, BOOLEAN)
smartaccount == LocalApp(TRUE, {"A"}, {}, SmartAccountUser)

(* The users' gas is paid by the fund that the sponsor account filled. *)
subsidies == LocalApp(TRUE, {}, {}, Plain(FALSE, {}, BOOLEAN))

(* No contract is deployed, and nonces are counted: a revert counts, too. *)
bls12add == LocalApp(TRUE, {"A"}, {}, Plain(TRUE, {}, {FALSE}))

(* The status of the receipt of the deployment is not looked at. *)
erc20 == LocalApp(FALSE, {"A"}, {"A"}, Plain(TRUE, {"A"}, BOOLEAN))

UniswapUser == Plain(TRUE, {"A"}, BOOLEAN)
uniswap == LocalApp(TRUE, {"A"}, {"A"}, UniswapUser)

(* A approves what B transfers to itself. *)
AllOfBundleUser ==
  {[mode |-> "allOf", steps |-> <<Step("A", 0, TRUE, {}, 0, BOOLEAN),
                                  Step("B", 0, TRUE, {"A"}, 1, BOOLEAN)>>]}
allofbundle == BundleApp({"A", "B"}, {"A", "B"}, {"A"}, AllOfBundleUser)

(* One transfer succeeds and one exceeds the balance, in either order; the *)
(* nonce of the step that comes second depends on which it is.             *)
OneOfBundleUser ==
  {[mode |-> "oneOf", steps |-> <<Step("A", 0, TRUE, {"A"}, 1, BOOLEAN),
                                  Step("A", 0, TRUE, {"A"}, 0, {TRUE})>>],
   [mode |-> "oneOf", steps |-> <<Step("A", 0, TRUE, {"A"}, 0, {TRUE}),
                                  Step("A", 1, TRUE, {"A"}, 1, BOOLEAN)>>]}
oneofbundle == BundleApp({"A"}, {"A"}, {"A"}, OneOfBundleUser)

(* The sponsor B funds the approval of the user A, and transfers. *)
SubsidizedBundleUser ==
  {[mode |-> "allOf", steps |-> <<Step("B", 0, TRUE, {}, 0, BOOLEAN),
                                  Step("A", 0, FALSE, {}, 0, BOOLEAN),
                                  Step("B", 1, TRUE, {"A"}, 1, BOOLEAN)>>]}
subsidizedbundle == BundleApp({"A", "B"}, {"B"}, {"A"}, SubsidizedBundleUser)

FailingBundleUser ==
  {[mode |-> m, steps |-> <<Step("A", 0, TRUE, {}, 1, BOOLEAN),
                            Step("B", 0, TRUE, {}, 1, BOOLEAN)>>] : m \in {"allOf", "oneOf"}}
failingbundle == BundleApp({"A", "B"}, {"A", "B"}, {}, FailingBundleUser)

(* Of a oneOf, either sender pays the target whose balance is counted. Of  *)
(* an allOf, A pays B and B pays the target, which receives one token, not *)
(* the two that the comment of GetReceivedTransactions promises.           *)
duplicatedbundle == BundleApp({"A", "B"}, {"A", "B"}, {"A", "B"},
  {[mode |-> "oneOf", steps |-> <<Step("A", 0, TRUE, {"A"}, 1, BOOLEAN),
                                  Step("B", 0, TRUE, {"B"}, 1, BOOLEAN)>>],
   [mode |-> "allOf", steps |-> <<Step("A", 0, TRUE, {"A"}, 0, BOOLEAN),
                                  Step("B", 0, TRUE, {"B"}, 1, BOOLEAN)>>]})

(* getFactory *)
Apps ==
  [counter |-> counter, store |-> store, transient |-> transient,
   selfdestructoldcontract |-> selfdestructoldcontract,
   selfdestructnewcontract |-> selfdestructnewcontract, ecdsa |-> ecdsa,
   largecontract |-> largecontract, smartaccount |-> smartaccount,
   subsidies |-> subsidies, bls12add |-> bls12add, erc20 |-> erc20,
   uniswap |-> uniswap, allofbundle |-> allofbundle, oneofbundle |-> oneofbundle,
   subsidizedbundle |-> subsidizedbundle, failingbundle |-> failingbundle,
   duplicatedbundle |-> duplicatedbundle]

(* The types of a mix application, in the order of their deployment *)
mixAppTypes ==
  <<"erc20", "counter", "store", "uniswap", "smartaccount", "subsidies", "transient",
    "selfdestructoldcontract", "selfdestructnewcontract", "ecdsa", "largecontract",
    "allofbundle", "oneofbundle", "subsidizedbundle", "failingbundle", "duplicatedbundle">>

(* A case is a rate, the application by its type or the types of the mix,  *)
(* and a bound on the clock.                                               *)
ASSUME CasesAssumption ==
  \A c \in Cases : /\ IsRate(c[1]) /\ c[3] \in Nat
                   /\ c[2] \subseteq DOMAIN Apps
                   /\ (\E k \in DOMAIN Apps : c[2] = {k}) \/ c[2] = Range(mixAppTypes)

-----------------------------------------------------------------------------
VARIABLES
  shaper,    \* the shape of the traffic, and the types of the application:
  types,     \*   one, or the ones a mix application is made of
  horizon,   \* bound on the clock
  phase,     \* where the set-up is: "check", "deploy", "users", "fund", "run",
             \*   or how it ended: "rejected", "failed"
  left,      \* types that are still to be deployed, or to get their users
  current,   \* the type whose users are created
  unfunded,  \* accounts FundAccounts has still to fund, in order
  deployed,  \* types whose contract is on the chain
  funded,    \* accounts with native currency
  minted,    \* accounts with tokens
  clock,     \* ticks since Run started
  asked,     \* messages the shaper asked for, in parts of 1 / Scale
  pendingParts,   \* the local variable of Run, in parts of 1 / Scale
  todo,      \* messages triggered and not taken by a user yet
  rate, lastOverflowCheck,  \* of the auto shaper
  gapRead,   \* getProcessingGap: no call, or what it read as sent
  nonce,     \* next nonce the application uses for each account
  sent,      \* transactions each user reports as sent
  saved,     \* savedEnvelope and usedCount of a user's duplicated bundle
  net,       \* transactions sent and neither executed nor lost
  chain,     \* nonce of each account on the chain
  received,  \* what the application counts as received
  plans, executed,  \* plans built so far, and the ones that were executed
  failing,   \* the plans that FailingBundleUser built
  lost       \* transactions lost so far

caseVars == <<types, horizon>>
setupVars == <<phase, left, current, unfunded, deployed, funded, minted>>
shaperVars == <<clock, asked, pendingParts, rate, lastOverflowCheck, gapRead>>
userVars == <<nonce, sent, saved, plans, failing>>
chainVars == <<net, chain, received, executed, lost>>
loadVars == <<shaper, caseVars, setupVars, shaperVars, todo, userVars, chainVars>>

IsMix == types = Range(mixAppTypes)

(* NewMixApplication and CreateUsers of a mix go through its types in      *)
(* order.                                                                  *)
Place(k) == CHOOSE i \in DOMAIN mixAppTypes : mixAppTypes[i] = k

InTurn(k) == k \in left /\ \A j \in left \ {k} : Place(k) < Place(j)

AccountsOf(k, roles) == {<<k, u, r>> : u \in AppUsers, r \in roles}

Accounts == UNION {AccountsOf(k, Apps[k].accounts) : k \in types}

NoPlan == [plan |-> 0]

AppInit ==
  /\ \E c \in Cases : shaper = c[1] /\ types = c[2] /\ horizon = c[3]
  /\ phase = "check" /\ left = {} /\ current = "" /\ unfunded = <<>>
  /\ deployed = {} /\ funded = {} /\ minted = {}
  /\ clock = 0 /\ asked = 0 /\ pendingParts = 0 /\ todo = 0
  /\ rate = 0 /\ lastOverflowCheck = 0 /\ gapRead = -1
  /\ nonce = [a \in Accounts |-> 0] /\ sent = [u \in AppUsers |-> 0]
  /\ saved = [u \in AppUsers |-> [tx |-> NoPlan, used |-> 0]]
  /\ net = {} /\ chain = [a \in Accounts |-> 0] /\ received = 0
  /\ plans = 0 /\ failing = {} /\ executed = {} /\ lost = 0

-----------------------------------------------------------------------------
(* Set-up: the check of the scenario, CreateApplication, CreateUsers *)

CheckRate ==
  /\ phase = "check"
  /\ IF RateCheck(shaper)
     THEN phase' = "deploy" /\ shaper' = ParseRate(shaper)
     ELSE phase' = "rejected" /\ UNCHANGED shaper
  /\ left' = types
  /\ UNCHANGED <<caseVars, current, unfunded, deployed, funded, minted, shaperVars, todo,
                 userVars, chainVars>>

(* NewApplication of one type: its contracts are deployed, or the          *)
(* deployment is reverted or fails.                                        *)
Deploy(k) ==
  /\ phase = "deploy" /\ InTurn(k)
  /\ \/ deployed' = deployed \cup {k} /\ left' = left \ {k} /\ phase' = "deploy"
     \/ /\ UNCHANGED deployed /\ left' = left \ {k}
        /\ phase' = IF Apps[k].checked THEN "failed" ELSE "deploy"
  /\ UNCHANGED <<shaper, caseVars, current, unfunded, funded, minted, shaperVars, todo, userVars,
                 chainVars>>

(* NewAppController; a mix creates the users of all its types. *)
NewAppController ==
  /\ phase = "deploy" /\ left = {}
  /\ phase' = "users" /\ left' = types
  /\ UNCHANGED <<shaper, caseVars, current, unfunded, deployed, funded, minted, shaperVars,
                 todo, userVars, chainVars>>

CreateUsers(k) ==
  /\ phase = "users" /\ InTurn(k)
  /\ unfunded' = SetToSeq(AccountsOf(k, Apps[k].funded))
  /\ left' = left \ {k} /\ current' = k
  /\ phase' = "fund"
  /\ UNCHANGED <<shaper, caseVars, deployed, funded, minted, shaperVars, todo, userVars,
                 chainVars>>

(* Fault: the batches are built from every BatchSize + 1 accounts. *)
NextBatchSkips(s) ==
  [batch |-> Range(SubSeq(s, 1, Min({BatchSize, Len(s)}))),
   rest |-> SubSeq(s, BatchSize + 2, Len(s))]

(* One batch of FundAccounts *)
NextBatch(s) ==
  [batch |-> Range(SubSeq(s, 1, Min({BatchSize, Len(s)}))),
   rest |-> SubSeq(s, BatchSize + 1, Len(s))]

FundAccounts ==
  /\ phase = "fund" /\ unfunded # <<>>
  /\ \/ /\ funded' = funded \cup NextBatch(unfunded).batch
        /\ unfunded' = NextBatch(unfunded).rest
        /\ UNCHANGED phase
     \/ phase' = "failed" /\ UNCHANGED <<funded, unfunded>>
  /\ UNCHANGED <<shaper, caseVars, left, current, deployed, minted, shaperVars, todo, userVars,
                 chainVars>>

(* appContext.Run of MintForAll, for the types that have a token *)
MintForAll ==
  LET tokens == AccountsOf(current, Apps[current].minted) IN
  /\ phase = "fund" /\ unfunded = <<>>
  /\ \/ /\ minted' = minted \cup tokens
        /\ phase' = IF left = {} THEN "run" ELSE "users"
     \/ tokens # {} /\ phase' = "failed" /\ UNCHANGED minted
  /\ UNCHANGED <<shaper, caseVars, left, current, unfunded, deployed, funded, shaperVars,
                 todo, userVars, chainVars>>

-----------------------------------------------------------------------------
(* AppController.Run *)

GetSentTransactions == SumOf(sent, AppUsers)

(* Run triggers as long as pending is positive; the last message may be    *)
(* triggered early, so that pending ends in (-1, 0].                       *)
Due(p, scale) == IF p > 0 THEN (p + scale - 1) \div scale ELSE 0

ReplenishTo(p, to) ==
  LET more == Messages(shaper, rate', clock, to)
      n == Due(p + more, Scale(shaper))
  IN /\ clock' = to
     /\ asked' = asked + more
     /\ pendingParts' = p + more - n * Scale(shaper)
     /\ todo' = todo + n

OverflowCheckIsDue ==
  shaper.shape = "auto" /\ clock - lastOverflowCheck >= TicksPerSecond

Loop(n) ==
  /\ phase = "run" /\ gapRead = -1 /\ clock + n <= horizon
  /\ ~OverflowCheckIsDue
  /\ rate' = rate
  /\ ReplenishTo(pendingParts, clock + n)
  /\ UNCHANGED <<shaper, caseVars, setupVars, lastOverflowCheck, gapRead, userVars, chainVars>>

(* getProcessingGap asks the users before the chain. *)
ReadSent ==
  /\ phase = "run" /\ gapRead = -1 /\ clock < horizon /\ OverflowCheckIsDue
  /\ gapRead' = GetSentTransactions
  /\ lastOverflowCheck' = clock
  /\ UNCHANGED <<shaper, caseVars, setupVars, clock, asked, pendingParts, rate, todo,
                 userVars, chainVars>>

(* The rate is cut when the gap exceeds what two seconds send. *)
Adjusted(gap) ==
  IF gap * RateUnit > 2 * rate
  THEN (rate * (2 - shaper.decrease)) \div 2
  ELSE rate + shaper.increase * RateUnit

(* The chain is asked, and may be ahead of the count read from the users   *)
(* by now; when no node answers the gap is zero.                           *)
ReadReceived ==
  /\ gapRead >= 0
  /\ \E gap \in {(gapRead - received) % UintMod, 0} : rate' = Adjusted(gap)
  /\ gapRead' = -1
  /\ \E n \in 1 .. (horizon - clock) : ReplenishTo(pendingParts, clock + n)
  /\ UNCHANGED <<shaper, caseVars, setupVars, lastOverflowCheck, userVars, chainVars>>

-----------------------------------------------------------------------------
(* GenerateTx of user u *)

(* Fault: the counter is read after it was incremented. *)
nextNonceLate(a) == nonce[a] + 1
getNextNonce(a) == nonce[a]

(* PendingNonceAt: the steps of a bundle are not seen by the pool. *)
BaseNonce(k, a) == IF Apps[k].nonces = "local" THEN getNextNonce(a) ELSE chain[a]

Build(k, u, plan) ==
  [plan |-> plans + 1, mode |-> plan.mode,
   steps |-> [i \in DOMAIN plan.steps |->
     LET a == <<k, u, plan.steps[i].acc>>
     IN [plan.steps[i] EXCEPT !.acc = a, !.nonce = BaseNonce(k, a) + @]]]

newBundle(k, u, counts) ==
  \E plan \in Apps[k].plans :
    LET tx == Build(k, u, plan) IN
    /\ net' = net \cup {tx}
    /\ plans' = plans + 1
    /\ failing' = IF k = "failingbundle" THEN failing \cup {tx.plan} ELSE failing
    /\ nonce' = IF Apps[k].nonces = "local"
                THEN [nonce EXCEPT ![<<k, u, "A">>] = @ + 1] ELSE nonce
    /\ sent' = [sent EXCEPT ![u] = @ + counts]
    /\ saved' = IF k = "duplicatedbundle"
                THEN [saved EXCEPT ![u] = [tx |-> tx, used |-> 1]] ELSE saved

(* Fault: the second envelope carries a bundle that is built anew. *)
envelopeOfNewBundle(k, u) ==
  newBundle(k, u, IF IsMix THEN 1 ELSE 0)

(* The same plan in another envelope is not counted by the user; a mix     *)
(* counts every transaction.                                               *)
newEnvelope(k, u) ==
  /\ net' = net \cup {saved[u].tx}
  /\ saved' = [saved EXCEPT ![u].used = @ + 1]
  /\ sent' = IF IsMix THEN [sent EXCEPT ![u] = @ + 1] ELSE sent
  /\ UNCHANGED <<nonce, plans, failing>>

duplicatedBundleThreshold == 2

ReusesPlan(k, u) ==
  /\ k = "duplicatedbundle"
  /\ saved[u].tx # NoPlan /\ saved[u].used < duplicatedBundleThreshold

(* The type is picked at random, by weight, in a mix. A bundle is not      *)
(* generated when the node does not answer.                                *)
UserGenerateTx(u) ==
  /\ phase = "run" /\ todo > 0 /\ plans < MaxTxs
  /\ todo' = todo - 1
  /\ \E k \in types :
       \/ ~ReusesPlan(k, u) /\ newBundle(k, u, 1)
       \/ ReusesPlan(k, u) /\ newEnvelope(k, u)
       \/ Apps[k].nonces = "chain" /\ UNCHANGED <<userVars, net>>
  /\ UNCHANGED <<shaper, caseVars, setupVars, shaperVars, chain, received, executed, lost>>

-----------------------------------------------------------------------------
(* The chain *)

StepsOf(tx) == Range(tx.steps)

(* One step of a transaction, where the steps in bad revert. A step with   *)
(* another nonce than the account's is invalid; a step that reverts takes  *)
(* its nonce. One of a oneOf succeeds, all of an allOf do.                 *)
Perform(tx, bad, acc, st) ==
  IF acc.over THEN acc
  ELSE IF acc.nonces[st.acc] # st.nonce
  THEN [acc EXCEPT !.over = tx.mode = "allOf"]
  ELSE [nonces |-> [acc.nonces EXCEPT ![st.acc] = @ + 1],
        gain |-> acc.gain + (IF st \in bad THEN 0 ELSE st.gain),
        good |-> acc.good + (IF st \in bad THEN 0 ELSE 1),
        over |-> IF st \in bad THEN tx.mode = "allOf" ELSE tx.mode = "oneOf"]

(* The steps in order *)
Outcome(tx, bad) ==
  LET after[i \in 0 .. Len(tx.steps)] ==
        IF i = 0 THEN [nonces |-> chain, gain |-> 0, good |-> 0, over |-> FALSE]
        ELSE Perform(tx, bad, after[i - 1], tx.steps[i])
  IN after[Len(tx.steps)]

Succeeds(tx, res) == res.good >= (IF tx.mode = "allOf" THEN Len(tx.steps) ELSE 1)

Execute(tx) ==
  /\ tx.mode = "plain" => chain[tx.steps[1].acc] = tx.steps[1].nonce
  /\ net' = net \ {tx}
  /\ IF tx.plan \in executed THEN UNCHANGED <<chain, received, executed>>
     ELSE \E bad \in SUBSET StepsOf(tx) :
            /\ \A st \in StepsOf(tx) : (st \in bad) \in st.reverts
            /\ LET res == Outcome(tx, bad) IN
               IF Succeeds(tx, res) \/ tx.mode = "plain"
               THEN /\ chain' = res.nonces
                    /\ received' = received + res.gain
                    /\ executed' = executed \cup {tx.plan}
               ELSE UNCHANGED <<chain, received, executed>>
  /\ UNCHANGED <<shaper, caseVars, setupVars, shaperVars, todo, userVars, lost>>

Lose(tx) ==
  /\ lost < MaxLost
  /\ net' = net \ {tx} /\ lost' = lost + 1
  /\ UNCHANGED <<shaper, caseVars, setupVars, shaperVars, todo, userVars, chain, received,
                 executed>>

-----------------------------------------------------------------------------
Setup ==
  \/ CheckRate \/ NewAppController \/ FundAccounts \/ MintForAll
  \/ \E k \in types : Deploy(k) \/ CreateUsers(k)

AppNext ==
  \/ Setup \/ ReadSent \/ ReadReceived
  \/ \E n \in 1 .. 2 : Loop(n)
  \/ \E u \in AppUsers : UserGenerateTx(u)
  \/ \E tx \in net : Execute(tx) \/ Lose(tx)

(* A network that makes progress executes what it can. *)
AppFairness == WF_loadVars(\E tx \in net : Execute(tx))

AppSpec == AppInit /\ [][AppNext]_loadVars /\ AppFairness

-----------------------------------------------------------------------------
AppTypeOK ==
  /\ types \subseteq DOMAIN Apps /\ deployed \subseteq types
  /\ phase \in {"check", "rejected", "deploy", "users", "fund", "run", "failed"}
  /\ funded \subseteq Accounts /\ minted \subseteq Accounts
  /\ nonce \in [Accounts -> Nat] /\ chain \in [Accounts -> Nat]
  /\ {clock, asked, todo, rate, received, lost, plans} \subseteq Nat
  /\ pendingParts \in Int /\ gapRead \in Nat \cup {-1}

(* An application that runs has what its transactions need: every account  *)
(* that pays for a step was funded, in whichever batch, every account      *)
(* whose tokens a step spends got some, and the contract is there unless   *)
(* the application ignores the status of its deployment.                   *)
SetupIsComplete ==
  phase = "run" =>
    \A k \in types : /\ Apps[k].checked => k \in deployed
                     /\ \A plan \in Apps[k].plans : \A i \in DOMAIN plan.steps :
                          LET st == plan.steps[i] IN
                          /\ st.pays => AccountsOf(k, {st.acc}) \subseteq funded
                          /\ AccountsOf(k, st.spends) \subseteq minted

(* The messages triggered so far are those below the curve of the shape,   *)
(* rounded up, however Run cuts the time into intervals.                   *)
TriggersFollowShape ==
  (phase = "run" /\ shaper.shape # "auto" /\ AreaIsKnown(shaper, clock)) =>
    /\ asked = Area(shaper, clock)
    /\ asked - pendingParts = Due(Area(shaper, clock), Scale(shaper)) * Scale(shaper)

(* What an application counts as received never exceeds what its users     *)
(* count as sent, except that a failing bundle counts two calls: a bundle  *)
(* that is sent in two envelopes, built from a stale nonce, or executed    *)
(* next to another one is counted once. In a mix, which always has failing *)
(* bundles, the counters the auto shaper subtracts may thus cross by their *)
(* number, however they are read.                                          *)
ReceivedAtMostSent == received <= GetSentTransactions + Cardinality(failing)

(* A transaction with a nonce of its own account is executed, unless one   *)
(* was lost: the nonces of a user leave no gap.                            *)
HasPlain == \E tx \in net : tx.mode = "plain"
PlainIsExecuted == HasPlain ~> (~HasPlain \/ lost > 0)

(* Every AllOf bundle of duplicatedbundle adds two to what is received     *)
(* (the comment of its GetReceivedTransactions). Refuted: see the README.  *)
AllOfCountsTwo ==
  [][\A tx \in net :
       types = {"duplicatedbundle"} /\ tx.mode = "allOf" /\ tx.plan \in executed' \ executed
         => received' = received + 2]_loadVars

(* The auto shaper reduces the rate when the gap between what was sent and *)
(* received exceeds twice the rate, and only then.                         *)
(* Refuted: see the README.                                                *)
CutOnlyOnOverload ==
  [][rate' < rate => (GetSentTransactions - received) * RateUnit > 2 * rate]_loadVars
==============================================================================
