----------------------------- MODULE MCScenario ------------------------------
(* Scenarios with two names, one of them of two instances. *)
EXTENDS Scenario

a == <<"a", 0>>
b == <<"b", 0>>

Plain(fn, id) == [fn |-> fn, id |-> id]

Start(id, type, instances, failing) ==
  [fn |-> "startNode", id |-> id, type |-> type, instances |-> instances, failing |-> failing]

RunApp(id, app, rate, users) ==
  [fn |-> "runApp", id |-> id, app |-> app, rate |-> rate, users |-> users]

Starts ==
  {Start(a, "validator", 1, FALSE), Start(b, "validator", 2, FALSE),
   Start(b, "", 1, TRUE)}

NodeSteps ==
  Starts \union {Plain("stopNode", a), Plain("stopNode", b), Plain("killSonic", a),
                 Plain("healDb", a)}

AppSteps == {RunApp(a, TRUE, TRUE, 1), Plain("stopApp", a)}

OtherSteps ==
  {Plain(fn, NoName) :
     fn \in {"updateRules", "advanceEpoch", "waitForEpoch", "waitFor", "checks"}}

InvalidSteps ==
  {Start(NoName, "validator", 1, FALSE), Start(a, "bogus", 1, FALSE), Start(a, "validator", 0, FALSE),
   RunApp(a, FALSE, TRUE, 1), RunApp(a, TRUE, TRUE, 0)}

(* Up to five steps. Two nodes of b, stopped and started again, or a node  *)
(* that is killed, healed and restarted beside them, need as many.         *)
MCSteps ==
  <<Starts \union InvalidSteps, NodeSteps \union AppSteps, NodeSteps \union OtherSteps,
    NodeSteps \union {Plain("stopApp", a)}, Starts>>

(* A network of one node, killed, healed and restarted *)
LoneSteps ==
  <<{Start(a, "validator", 1, FALSE)}, {Plain("killSonic", a)}, {Plain("healDb", a)},
    {Start(a, "validator", 1, FALSE)}>>
=============================================================================
