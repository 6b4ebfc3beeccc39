------------------------------ MODULE MCStaking ------------------------------
(* Two nodes, one delegator, one validator in genesis. *)
EXTENDS Staking

StartNode(v, instances, failing) ==
  [fn |-> "startNode", v |-> v, instances |-> instances, amount |-> 0, failing |-> failing]

Start(instances) == StartNode(0, instances, FALSE)

StartFailing == StartNode(0, 1, TRUE)

Rejoin(v) == StartNode(v, 1, FALSE)

Delegate(amount) == [fn |-> "delegate", d |-> "d", v |-> 1, amount |-> amount]

Undelegate(d, v, amount) == [fn |-> "undelegate", d |-> d, v |-> v, amount |-> amount]

Other(fn) == [fn |-> fn]

MCSteps ==
  <<{Start(2), Start(1), StartFailing, Delegate(2), Undelegate("d", 1, 0)},
    {Start(1), StartFailing, Delegate(1), Undelegate("", 2, 0), Other("advance")},
    {Rejoin(2), Undelegate("d", 1, 0), Undelegate("d", 1, 1), Other("rules")},
    {Other("verifyStakes"), Other("waitForEpoch")}>>

StakeSteps == <<{Delegate(2)}, {Delegate(1)}, {Undelegate("d", 1, 0)}>>

EpochSteps == <<{Other("advance")}, {Other("advance")}>>
=============================================================================
