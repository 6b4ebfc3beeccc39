---------------------------- MODULE ScenarioProofs ----------------------------
(* Proofs about Scenario, for any scenario, any number of containers and of *)
(* faults.                                                                  *)
EXTENDS Scenario, FiniteSetTheorems, TLAPS

Names == STRING \X Nat

(* A step that has passed the check *)
IsStep(s) ==
  /\ s.fn \in StepFunctions /\ s.id \in Names
  /\ s.fn = "startNode" => s.instances \in Nat \ {0} /\ s.failing \in BOOLEAN

ContainerType ==
  [name : Names, vid : Nat, validates : BOOLEAN, failing : BOOLEAN, up : BOOLEAN,
   client : Clients, boot : BOOLEAN]

(* The calls of plans *)
Ops ==
  {"register", "create", "created", "activate", "height", "restart", "reconnect", "resume",
   "nodeSync", "targets", "remove", "removed", "suspend", "kill", "heal", "createApp",
   "startApp", "stopApp", "rules", "produce", "seal", "epoch", "wait"}

TaskType ==
  [at : {"start", "add", "notify", "remove", "stop", "done", "failed"}, node : Nat, id : Nat]

Types ==
  /\ result \in {"checking", "running", "rejected", "ok", "error"}
  /\ steps \in Nat /\ registered \in Nat
  /\ plan \in Seq(Ops)
  /\ containers \in Seq(ContainerType)
  /\ \A n \in DOMAIN task : n \in Names /\ task[n] \in TaskType
  /\ \A n \in DOMAIN validatorIds : validatorIds[n] \in Nat \ {0}
  /\ result = "running" => IsStep(step)
  /\ result = "checking" => DOMAIN validatorIds = {} /\ plan = <<>>

-----------------------------------------------------------------------------
(* The calls that fan out to goroutines come in pairs, and a plan that      *)
(* brings a node back does not create or remove one.                        *)
Linked(p) ==
  \A i \in 1 .. Len(p) :
    /\ p[i] \in {"register", "create", "targets", "remove"} => i < Len(p)
    /\ i < Len(p) =>
         /\ p[i] = "register" <=> p[i + 1] = "create"
         /\ p[i] = "create" <=> p[i + 1] = "created"
         /\ p[i] = "targets" <=> p[i + 1] = "remove"
         /\ p[i] = "remove" <=> p[i + 1] = "removed"

TaskOps == {"create", "created", "remove", "removed"}

Restarting(p) == \E i \in 1 .. Len(p) : p[i] \in {"reconnect", "resume"}
Creating(p) == \E i \in 1 .. Len(p) : p[i] = "create"
Changing(p) == \E i \in 1 .. Len(p) : p[i] \in {"created", "removed"}

PlanInv ==
  /\ Linked(plan)
  /\ Restarting(plan) =>
       ~Changing(plan) /\ step.fn = "startNode" /\ step.id \in DOMAIN nodes
  /\ Creating(plan) => step.fn = "startNode"

At(op) == plan # <<>> /\ Head(plan) = op

(* Goroutines work for the calls that start and await them, and have        *)
(* returned when the scenario ends.                                         *)
TaskInv ==
  /\ result = "running" =>
       /\ At("created") \/ At("removed") => \A n \in DOMAIN task : task[n].at = "done"
       /\ (plan = <<>> \/ Head(plan) \notin TaskOps) => DOMAIN task = {}
  /\ result \in {"checking", "rejected", "ok"} => DOMAIN task = {}
  /\ result = "error" => TasksReturned
  /\ result # "running" => plan = <<>>

-----------------------------------------------------------------------------
(* Validators *)

KeepInv ==
  \A n \in DOMAIN task : task[n].id # 0 /\ n \in DOMAIN validatorIds =>
    task[n].id = validatorIds[n]

(* The names that have a validator, or are getting one *)
Named == DOMAIN validatorIds \union {n \in DOMAIN task : task[n].id # 0}
Ids ==
  [n \in Named |-> IF n \in DOMAIN validatorIds THEN validatorIds[n] ELSE task[n].id]

VidInv ==
  /\ \A n \in Named : Ids[n] \in 1 .. registered
  /\ \A n, m \in Named : n # m => Ids[n] # Ids[m]
  /\ \A c \in DOMAIN containers : containers[c].vid # 0 =>
       containers[c].name \in Named /\ containers[c].vid = Ids[containers[c].name]
  /\ \A c, d \in DOMAIN containers :
       c # d /\ containers[c].up /\ containers[d].up => containers[c].name # containers[d].name

-----------------------------------------------------------------------------
(* Nodes *)

NodeOf(n, c) == c \in DOMAIN containers /\ containers[c].name = n

(* A tracked node that no goroutine works on *)
Settled(c) ==
  /\ c \in members /\ containers[c].up
  /\ c \in listening <=> c \notin suspended

(* A goroutine that creates a node, and how far it has come *)
Creates(n) ==
  /\ task[n].at \in {"start", "add", "notify", "done", "failed"}
  /\ task[n].at \in {"add", "notify", "done"} =>
       NodeOf(n, task[n].node) /\ containers[task[n].node].up
       /\ task[n].node \notin Range(nodes) \cup suspended
  /\ task[n].at \in {"notify", "done"} => task[n].node \in members
  /\ task[n].at = "done" => task[n].node \in listening

CreateInv ==
  /\ \A n \in DOMAIN nodes : Settled(nodes[n])
  /\ \A n \in DOMAIN task : Creates(n)
  /\ \A c \in members :
       \/ c \in Range(nodes)
       \/ \E n \in DOMAIN task : task[n].node = c /\ task[n].at \in {"notify", "done"}
  /\ \A c \in listening :
       \/ c \in Range(nodes)
       \/ \E n \in DOMAIN task : task[n].node = c /\ task[n].at = "done"
  /\ suspended \subseteq Range(nodes)

(* A goroutine that removes a node, and how far it has come *)
Removes(n) ==
  /\ task[n].at \in {"notify", "remove", "stop", "done", "failed"} /\ task[n].id = 0
  /\ n \in DOMAIN nodes /\ task[n].node = nodes[n]
  /\ task[n].at = "notify" => Settled(nodes[n])
  /\ task[n].at \in {"remove", "stop"} => containers[nodes[n]].up /\ nodes[n] \notin listening
  /\ task[n].at = "remove" => nodes[n] \in members
  /\ task[n].at \in {"stop", "done"} => nodes[n] \notin members \cup suspended \cup listening

RemoveInv ==
  /\ \A n \in DOMAIN nodes \ DOMAIN task : Settled(nodes[n])
  /\ \A n \in DOMAIN task : Removes(n)
  /\ members \cup suspended \cup listening \subseteq Range(nodes)

NodeInv ==
  /\ \A n \in DOMAIN nodes : NodeOf(n, nodes[n])
  /\ members \subseteq DOMAIN containers
  /\ result \in {"checking", "running"} =>
       IF At("remove") \/ At("removed") THEN RemoveInv ELSE CreateInv

-----------------------------------------------------------------------------
(* A container that runs is a member's, one a goroutine or a failed restart *)
(* has lost, or one Shutdown could not stop.                                *)
Lost(c) ==
  \/ \E n \in DOMAIN task : task[n].node = c /\ task[n].at \in {"add", "stop", "failed"}
  \/ result = "error" /\ step.fn = "startNode" /\ step.id \in DOMAIN nodes /\ nodes[step.id] = c

LeftInv ==
  /\ \A c \in DOMAIN containers \ shutdown.left : containers[c].up => c \in members \/ Lost(c)
  /\ shutdown \in [phase : {"no", "nodes", "done"}, left : SUBSET Nat]
  /\ shutdown.phase # "no" => running = {} /\ result \in {"ok", "error"}
  /\ shutdown.phase = "done" => members = {}

Inv == Types /\ PlanInv /\ TaskInv /\ KeepInv /\ VidInv /\ NodeInv /\ LeftInv

-----------------------------------------------------------------------------
(* Plans *)

(* The first call of a plan and the rest of it *)
LEMMA TailFacts ==
  ASSUME NEW p \in Seq(Ops), p # <<>>
  PROVE  /\ Tail(p) \in Seq(Ops) /\ Len(p) \in Nat \ {0} /\ Len(Tail(p)) = Len(p) - 1
         /\ Head(p) = p[1]
         /\ \A i \in 1 .. Len(Tail(p)) : i + 1 \in 1 .. Len(p) /\ Tail(p)[i] = p[i + 1]
BY SMT

(* What is left of a linked plan is linked. *)
LEMMA TailIsLinked ==
  ASSUME NEW p \in Seq(Ops), p # <<>>, Linked(p)
  PROVE  Linked(Tail(p))
<1>1. /\ Len(p) \in Nat \ {0} /\ Len(Tail(p)) = Len(p) - 1
      /\ \A i \in 1 .. Len(Tail(p)) : i + 1 \in 1 .. Len(p) /\ Tail(p)[i] = p[i + 1]
  BY TailFacts
<1>2. SUFFICES ASSUME NEW i \in 1 .. Len(Tail(p))
               PROVE  /\ Tail(p)[i] \in {"register", "create", "targets", "remove"}
                           => i < Len(Tail(p))
                      /\ i < Len(Tail(p)) =>
                           /\ Tail(p)[i] = "register" <=> Tail(p)[i + 1] = "create"
                           /\ Tail(p)[i] = "create" <=> Tail(p)[i + 1] = "created"
                           /\ Tail(p)[i] = "targets" <=> Tail(p)[i + 1] = "remove"
                           /\ Tail(p)[i] = "remove" <=> Tail(p)[i + 1] = "removed"
  BY DEF Linked
<1>3. i + 1 \in 1 .. Len(p) /\ Tail(p)[i] = p[i + 1] /\ (i < Len(Tail(p)) <=> i + 1 < Len(p))
  BY <1>1
<1>4. i < Len(Tail(p)) => Tail(p)[i + 1] = p[(i + 1) + 1]
  BY <1>1
<1> QED
  BY <1>3, <1>4 DEF Linked

(* A plan that is left brings a node back, or changes the nodes, only if    *)
(* the whole one did.                                                       *)
LEMMA TailIsTamer ==
  ASSUME NEW p \in Seq(Ops), p # <<>>
  PROVE  /\ Restarting(Tail(p)) => Restarting(p)
         /\ Changing(Tail(p)) => Changing(p)
         /\ Creating(Tail(p)) => Creating(p)
BY TailFacts DEF Restarting, Changing, Creating

(* The call after one that fans out, and the one after any other *)
LEMMA NextCall ==
  ASSUME NEW p \in Seq(Ops), p # <<>>, Linked(p)
  PROVE  /\ Head(p) \in {"register", "create", "targets", "remove"} => Tail(p) # <<>>
         /\ Head(p) = "register" => Head(Tail(p)) = "create"
         /\ Head(p) = "create" => Head(Tail(p)) = "created"
         /\ Head(p) = "targets" => Head(Tail(p)) = "remove"
         /\ Head(p) = "remove" => Head(Tail(p)) = "removed"
         /\ Head(p) \notin {"register", "create", "targets", "remove"} /\ Tail(p) # <<>>
              => Head(Tail(p)) \notin TaskOps
<1>1. /\ Tail(p) \in Seq(Ops) /\ Len(p) \in Nat \ {0} /\ Len(Tail(p)) = Len(p) - 1
      /\ Head(p) = p[1]
  BY TailFacts
<1>5. \A i \in 1 .. Len(Tail(p)) : i + 1 \in 1 .. Len(p) /\ Tail(p)[i] = p[i + 1]
  BY TailFacts
<1>2. Tail(p) # <<>> <=> 1 < Len(p)
  <2>1. Tail(p) = <<>> <=> Len(Tail(p)) = 0
    BY <1>1
  <2>2. \A k \in Nat \ {0} : k - 1 # 0 <=> 1 < k
    OBVIOUS
  <2> QED
    BY <2>1, <2>2, <1>1
<1>3. Tail(p) # <<>> => Head(Tail(p)) = p[2]
  <2> SUFFICES ASSUME Tail(p) # <<>> PROVE Head(Tail(p)) = p[2]
    OBVIOUS
  <2>1. Head(Tail(p)) = Tail(p)[1] /\ 1 \in 1 .. Len(Tail(p))
    BY <1>1, <1>2
  <2> QED
    BY <2>1, <1>5
<1>4. /\ p[1] \in {"register", "create", "targets", "remove"} => 1 < Len(p)
      /\ 1 < Len(p) =>
           /\ p[1] = "register" <=> p[1 + 1] = "create"
           /\ p[1] = "create" <=> p[1 + 1] = "created"
           /\ p[1] = "targets" <=> p[1 + 1] = "remove"
           /\ p[1] = "remove" <=> p[1 + 1] = "removed"
  BY <1>1 DEF Linked
<1> QED
  BY <1>1, <1>2, <1>3, <1>4 DEF TaskOps

(* Plans one after the other *)
LEMMA CatFacts ==
  ASSUME NEW p \in Seq(Ops), NEW q \in Seq(Ops)
  PROVE  /\ p \o q \in Seq(Ops) /\ Len(p \o q) = Len(p) + Len(q)
         /\ Len(p) \in Nat /\ Len(q) \in Nat
         /\ \A i \in 1 .. Len(p \o q) :
              /\ i <= Len(p) => i \in 1 .. Len(p) /\ (p \o q)[i] = p[i]
              /\ i > Len(p) => i - Len(p) \in 1 .. Len(q) /\ (p \o q)[i] = q[i - Len(p)]
BY SMT

(* A plan goes on with one that does not begin in the middle of a fan-out. *)
LEMMA CatIsLinked ==
  ASSUME NEW p \in Seq(Ops), NEW q \in Seq(Ops), Linked(p), Linked(q),
         q # <<>> => Head(q) \notin TaskOps
  PROVE  Linked(p \o q)
<1>1. /\ Len(p \o q) = Len(p) + Len(q) /\ Len(p) \in Nat /\ Len(q) \in Nat
      /\ \A i \in 1 .. Len(p \o q) :
           /\ i <= Len(p) => i \in 1 .. Len(p) /\ (p \o q)[i] = p[i]
           /\ i > Len(p) => i - Len(p) \in 1 .. Len(q) /\ (p \o q)[i] = q[i - Len(p)]
  BY CatFacts
<1>2. SUFFICES ASSUME NEW i \in 1 .. Len(p \o q)
               PROVE  /\ (p \o q)[i] \in {"register", "create", "targets", "remove"}
                           => i < Len(p \o q)
                      /\ i < Len(p \o q) =>
                           /\ (p \o q)[i] = "register" <=> (p \o q)[i + 1] = "create"
                           /\ (p \o q)[i] = "create" <=> (p \o q)[i + 1] = "created"
                           /\ (p \o q)[i] = "targets" <=> (p \o q)[i + 1] = "remove"
                           /\ (p \o q)[i] = "remove" <=> (p \o q)[i + 1] = "removed"
  BY DEF Linked
<1>3. CASE i < Len(p)
  <2>1. i \in 1 .. Len(p) /\ i + 1 \in 1 .. Len(p \o q) /\ i + 1 <= Len(p) /\ i < Len(p \o q)
    BY <1>1, <1>3
  <2>2. (p \o q)[i] = p[i] /\ (p \o q)[i + 1] = p[i + 1]
    BY <2>1, <1>1
  <2> QED
    BY <2>1, <2>2, <1>3 DEF Linked
<1>4. CASE i = Len(p)
  <2>1. (p \o q)[i] = p[i] /\ i \in 1 .. Len(p)
    BY <1>1, <1>4
  <2>2. p[i] \notin {"register", "create", "targets", "remove"}
    BY <2>1, <1>4, <1>1 DEF Linked
  <2>3. ASSUME i < Len(p \o q) PROVE (p \o q)[i + 1] \notin TaskOps
    <3>1. i + 1 \in 1 .. Len(p \o q) /\ i + 1 > Len(p) /\ (i + 1) - Len(p) = 1 /\ Len(q) > 0
      BY <1>1, <1>4, <2>3
    <3>2. (p \o q)[i + 1] = q[1] /\ q # <<>>
      BY <1>1, <3>1
    <3>3. q[1] = Head(q)
      BY <3>2
    <3> QED
      BY <3>2, <3>3
  <2> QED
    BY <2>1, <2>2, <2>3 DEF TaskOps
<1>5. CASE i > Len(p)
  <2>1. i - Len(p) \in 1 .. Len(q) /\ (p \o q)[i] = q[i - Len(p)]
    BY <1>1, <1>5
  <2>2. i < Len(p \o q) <=> i - Len(p) < Len(q)
    BY <1>1
  <2>3. i < Len(p \o q) => (p \o q)[i + 1] = q[(i - Len(p)) + 1]
    <3> SUFFICES ASSUME i < Len(p \o q) PROVE (p \o q)[i + 1] = q[(i - Len(p)) + 1]
      OBVIOUS
    <3>1. i + 1 \in 1 .. Len(p \o q) /\ i + 1 > Len(p) /\ (i + 1) - Len(p) = (i - Len(p)) + 1
      BY <1>1, <1>5
    <3> QED
      BY <1>1, <3>1
  <2> QED
    BY <2>1, <2>2, <2>3 DEF Linked
<1> QED
  BY <1>1, <1>3, <1>4, <1>5

(* The calls of two plans are those of one and of the other. *)
LEMMA CatIsTame ==
  ASSUME NEW p \in Seq(Ops), NEW q \in Seq(Ops)
  PROVE  /\ Restarting(p \o q) => Restarting(p) \/ Restarting(q)
         /\ Changing(p \o q) => Changing(p) \/ Changing(q)
         /\ Creating(p \o q) => Creating(p) \/ Creating(q)
BY CatFacts DEF Restarting, Changing, Creating

(* The first call of two plans *)
LEMMA CatHead ==
  ASSUME NEW p \in Seq(Ops), NEW q \in Seq(Ops), p # <<>>
  PROVE  p \o q # <<>> /\ Head(p \o q) = Head(p)
BY SMT

(* A plan as a step begins it *)
Sound(p) ==
  /\ p \in Seq(Ops) /\ p # <<>> /\ Head(p) \notin TaskOps
  /\ Linked(p)


(* The plans of the steps *)
LEMMA SimplePlans ==
  /\ Sound(<<"heal">>) /\ Sound(<<"stopApp">>) /\ Sound(<<"rules">>) /\ Sound(<<"epoch">>)
  /\ Sound(<<"wait">>) /\ Sound(<<"produce">>) /\ Sound(<<"activate">>)
  /\ ~Restarting(<<"heal">>) /\ ~Restarting(<<"stopApp">>) /\ ~Restarting(<<"rules">>)
  /\ ~Restarting(<<"epoch">>) /\ ~Restarting(<<"wait">>)
  /\ ~Restarting(<<"produce">>) /\ ~Changing(<<"produce">>) /\ ~Restarting(<<"activate">>)
  /\ ~Creating(<<"heal">>) /\ ~Creating(<<"stopApp">>) /\ ~Creating(<<"rules">>)
  /\ ~Creating(<<"epoch">>) /\ ~Creating(<<"wait">>) /\ ~Creating(<<"produce">>)
<1>1. ASSUME NEW c \in Ops, c \notin TaskOps \cup {"register", "targets"}
      PROVE  Sound(<<c>>)
  <2>1. <<c>> \in Seq(Ops) /\ <<c>> # <<>> /\ Head(<<c>>) = c /\ Len(<<c>>) = 1 /\ <<c>>[1] = c
    OBVIOUS
  <2>2. \A i \in 1 .. 1 : i = 1 /\ ~(1 < 1)
    OBVIOUS
  <2> QED
    BY <1>1, <2>1, <2>2 DEF Sound, Linked, TaskOps
<1>2. \A c : (Restarting(<<c>>) <=> c \in {"reconnect", "resume"})
             /\ (Changing(<<c>>) <=> c \in {"created", "removed"})
             /\ (Creating(<<c>>) <=> c = "create")
  BY DEF Restarting, Changing, Creating
<1>3. /\ {"heal", "stopApp", "rules", "epoch", "wait", "produce", "activate"} \subseteq Ops
      /\ \A c \in {"heal", "stopApp", "rules", "epoch", "wait", "produce", "activate"} :
           c \notin TaskOps \cup {"register", "targets", "reconnect", "resume"}
  BY DEF Ops, TaskOps
<1> QED
  BY <1>1, <1>2, <1>3

(* The plans of several calls, and those that fan out *)
LEMMA LongerPlans ==
  /\ Sound(<<"suspend", "kill">>) /\ ~Restarting(<<"suspend", "kill">>)
  /\ Sound(<<"createApp", "startApp">>) /\ ~Restarting(<<"createApp", "startApp">>)
  /\ Sound(<<"produce", "seal">>) /\ ~Restarting(<<"produce", "seal">>)
  /\ ~Changing(<<"produce", "seal">>)
  /\ Sound(<<"produce", "seal", "produce">>) /\ ~Restarting(<<"produce", "seal", "produce">>)
  /\ Sound(<<"register", "create", "created">>)
  /\ ~Restarting(<<"register", "create", "created">>)
  /\ Sound(<<"targets", "remove", "removed">>) /\ ~Restarting(<<"targets", "remove", "removed">>)
  /\ ~Creating(<<"suspend", "kill">>) /\ ~Creating(<<"createApp", "startApp">>)
  /\ ~Creating(<<"produce", "seal">>) /\ ~Creating(<<"produce", "seal", "produce">>)
  /\ ~Creating(<<"targets", "remove", "removed">>)
  /\ Sound(<<"height", "restart", "reconnect", "resume", "nodeSync">>)
  /\ ~Changing(<<"height", "restart", "reconnect", "resume", "nodeSync">>)
<1>1. \A c \in {"suspend", "kill", "createApp", "startApp", "produce", "seal", "register",
                "create", "created", "targets", "remove", "removed", "height", "restart",
                "reconnect", "resume", "nodeSync"} : c \in Ops
  BY DEF Ops
<1>2. /\ \A c, d \in Ops : <<c, d>> \in Seq(Ops) /\ <<c, d>> # <<>> /\ Head(<<c, d>>) = c
      /\ \A c, d, e \in Ops :
           <<c, d, e>> \in Seq(Ops) /\ <<c, d, e>> # <<>> /\ Head(<<c, d, e>>) = c
      /\ \A c, d, e, f, g \in Ops :
           <<c, d, e, f, g>> \in Seq(Ops) /\ <<c, d, e, f, g>> # <<>>
           /\ Head(<<c, d, e, f, g>>) = c
  OBVIOUS
<1>3. ASSUME NEW c, NEW d,
             c \in {"suspend", "createApp", "produce"}, d \in {"kill", "startApp", "seal"}
      PROVE  /\ Linked(<<c, d>>) /\ ~Restarting(<<c, d>>) /\ ~Changing(<<c, d>>)
             /\ ~Creating(<<c, d>>)
  <2>1. Len(<<c, d>>) = 2 /\ <<c, d>>[1] = c /\ <<c, d>>[2] = d
    OBVIOUS
  <2>2. \A i \in 1 .. 2 : i = 1 \/ i = 2
    OBVIOUS
  <2>3. <<c, d>>[1 + 1] = d /\ ~(2 < 2)
    BY <2>1
  <2> QED
    BY <1>3, <2>1, <2>2, <2>3 DEF Linked, Restarting, Changing, Creating
<1>4. /\ Linked(<<"produce", "seal", "produce">>)
      /\ ~Restarting(<<"produce", "seal", "produce">>)
      /\ ~Creating(<<"produce", "seal", "produce">>)
  BY DEF Linked, Restarting, Creating
<1>5. /\ Linked(<<"register", "create", "created">>)
      /\ ~Restarting(<<"register", "create", "created">>)
  BY DEF Linked, Restarting
<1>6. /\ Linked(<<"targets", "remove", "removed">>)
      /\ ~Restarting(<<"targets", "remove", "removed">>)
      /\ ~Creating(<<"targets", "remove", "removed">>)
  BY DEF Linked, Restarting, Creating
<1>7. /\ Linked(<<"height", "restart", "reconnect", "resume", "nodeSync">>)
      /\ ~Changing(<<"height", "restart", "reconnect", "resume", "nodeSync">>)
  BY DEF Linked, Changing
<1>8. /\ Sound(<<"suspend", "kill">>) /\ Sound(<<"createApp", "startApp">>)
      /\ Sound(<<"produce", "seal">>)
  BY <1>1, <1>2, <1>3 DEF Sound, TaskOps
<1>9. /\ Sound(<<"produce", "seal", "produce">>) /\ Sound(<<"register", "create", "created">>)
      /\ Sound(<<"targets", "remove", "removed">>)
      /\ Sound(<<"height", "restart", "reconnect", "resume", "nodeSync">>)
  BY <1>1, <1>2, <1>4, <1>5, <1>6, <1>7 DEF Sound, TaskOps
<1> QED
  BY <1>3, <1>4, <1>5, <1>6, <1>7, <1>8, <1>9

(* A step begins with a plan that is sound, and that brings back only a     *)
(* tracked node.                                                            *)
LEMMA StepPlans ==
  ASSUME NEW s, IsStep(s)
  PROVE  /\ Sound(stepPlan(s))
         /\ Restarting(stepPlan(s)) =>
              ~Changing(stepPlan(s)) /\ s.fn = "startNode" /\ s.id \in DOMAIN nodes
         /\ Creating(stepPlan(s)) => s.fn = "startNode"
<1>1. /\ Sound(executeStep(s))
      /\ Restarting(executeStep(s)) =>
           ~Changing(executeStep(s)) /\ s.fn = "startNode" /\ s.id \in DOMAIN nodes
      /\ Creating(executeStep(s)) => s.fn = "startNode"
  <2>1. CASE s.fn = "startNode" /\ s.id \in DOMAIN nodes
    <3>1. executeStep(s) = <<"height", "restart", "reconnect", "resume", "nodeSync">>
      BY <2>1 DEF executeStep
    <3> QED
      BY <2>1, <3>1, LongerPlans
  <2>2. CASE s.fn = "startNode" /\ s.id \notin DOMAIN nodes
    <3> DEFINE start == <<"register", "create", "created">>
               rest == IF s.failing THEN <<>> ELSE <<"activate">>
    <3>1. executeStep(s) = start \o rest
      BY <2>2 DEF executeStep
    <3>2. Sound(start) /\ ~Restarting(start)
      BY LongerPlans
    <3>3. rest \in Seq(Ops) /\ Linked(rest) /\ (rest # <<>> => Head(rest) \notin TaskOps)
          /\ ~Restarting(rest)
      <4>1. CASE s.failing
        BY <4>1 DEF Linked, Restarting
      <4>2. CASE ~s.failing
        BY <4>2, SimplePlans DEF Sound
      <4> QED
        BY <4>1, <4>2
    <3> HIDE DEF start, rest
    <3> QED
      BY <2>2, <3>1, <3>2, <3>3, CatFacts, CatIsLinked, CatHead, CatIsTame DEF Sound
  <2>3. CASE s.fn \in {"stopNode", "killSonic", "runApp", "advanceEpoch"}
    <3>1. /\ s.fn = "stopNode" => executeStep(s) = <<"targets", "remove", "removed">>
          /\ s.fn = "killSonic" => executeStep(s) = <<"suspend", "kill">>
          /\ s.fn = "runApp" => executeStep(s) = <<"createApp", "startApp">>
          /\ s.fn = "advanceEpoch" => executeStep(s) = <<"produce", "seal", "produce">>
      BY DEF executeStep
    <3> QED
      BY <2>3, <3>1, LongerPlans
  <2>4. CASE s.fn \in {"healDb", "stopApp", "updateRules", "waitForEpoch", "checks", "waitFor"}
    <3>1. /\ s.fn = "healDb" => executeStep(s) = <<"heal">>
          /\ s.fn = "stopApp" => executeStep(s) = <<"stopApp">>
          /\ s.fn = "updateRules" => executeStep(s) = <<"rules">>
          /\ s.fn = "waitForEpoch" => executeStep(s) = <<"epoch">>
          /\ s.fn \in {"checks", "waitFor"} => executeStep(s) = <<"wait">>
      BY DEF executeStep
    <3> QED
      BY <2>4, <3>1, SimplePlans
  <2> QED
    BY <2>1, <2>2, <2>3, <2>4 DEF IsStep, StepFunctions
<1> DEFINE p == executeStep(s)
           q == IF requiresBlockProductionCheck(s) THEN <<"produce">> ELSE <<>>
<1>2. stepPlan(s) = p \o q
  BY DEF stepPlan
<1>3. /\ q \in Seq(Ops) /\ Linked(q) /\ (q # <<>> => Head(q) \notin TaskOps)
      /\ ~Restarting(q) /\ ~Changing(q) /\ ~Creating(q)
  <2>1. CASE requiresBlockProductionCheck(s)
    BY <2>1, SimplePlans DEF Sound
  <2>2. CASE ~requiresBlockProductionCheck(s)
    BY <2>2 DEF Linked, Restarting, Changing, Creating
  <2> QED
    BY <2>1, <2>2
<1> HIDE DEF p, q
<1>4. Sound(p \o q)
  BY <1>1, <1>3, CatFacts, CatIsLinked, CatHead DEF Sound, p
<1>5. /\ Restarting(p \o q) => Restarting(p)
      /\ Changing(p \o q) => Changing(p)
      /\ Creating(p \o q) => Creating(p)
  BY <1>1, <1>3, CatIsTame DEF Sound, p
<1> QED
  BY <1>1, <1>2, <1>4, <1>5 DEF p

-----------------------------------------------------------------------------
(* Steps that leave the nodes alone: they move from call to call, and only  *)
(* change what is not said here.                                            *)

SameNodes == UNCHANGED <<nodes, validatorIds, members, suspended, listening, task,
                         registered, shutdown>>

SameContainers ==
  /\ containers' \in Seq(ContainerType)
  /\ DOMAIN containers' = DOMAIN containers
  /\ \A c \in DOMAIN containers :
       /\ containers'[c].name = containers[c].name
       /\ containers'[c].vid = containers[c].vid
       /\ containers'[c].up = containers[c].up

Stays == UNCHANGED <<result, step, plan>>

Goes ==
  /\ result = "running" /\ plan # <<>>
  /\ UNCHANGED <<result, step>> /\ plan' = Tail(plan)
  /\ \/ Head(plan) \notin TaskOps \cup {"register", "targets"}
     \/ Head(plan) \in {"create", "remove"} /\ \A n \in DOMAIN task : task[n].at = "done"

Ends ==
  /\ result = "running"
  /\ result' = "error" /\ plan' = <<>> /\ step' = step
  /\ plan = <<>> \/ Head(plan) \notin TaskOps \/ TasksReturned

Begins ==
  /\ AtBoundary
  /\ result' = result /\ IsStep(step') /\ plan' = stepPlan(step')

Finishes == AtBoundary /\ result' = "ok" /\ UNCHANGED <<step, plan>>

Rejects == result = "checking" /\ result' = "rejected" /\ UNCHANGED <<step, plan>>

Inserts ==
  /\ Calls("activate")
  /\ UNCHANGED <<result, step>>
  /\ \/ plan' = <<>> \o Tail(plan)
     \/ plan' = <<"produce", "seal">> \o Tail(plan)

Plain ==
  /\ SameNodes /\ SameContainers
  /\ steps' \in Nat
  /\ result # "running" => running' \subseteq running
  /\ Stays \/ Goes \/ Ends \/ Begins \/ Finishes \/ Rejects \/ Inserts

(* What activate inserts goes before the rest of the plan. *)
LEMMA Insertion ==
  ASSUME Types, PlanInv, Inserts
  PROVE  /\ plan' \in Seq(Ops) /\ Linked(plan')
         /\ plan' # <<>> => Head(plan') \notin TaskOps
         /\ Restarting(plan') => Restarting(plan)
         /\ Changing(plan') => Changing(plan)
         /\ Creating(plan') => Creating(plan)
<1> DEFINE t == Tail(plan)
<1>1. plan \in Seq(Ops) /\ plan # <<>> /\ Head(plan) = "activate" /\ Linked(plan)
  BY DEF Types, PlanInv, Inserts, Calls
<1>2. t \in Seq(Ops) /\ Linked(t) /\ (Restarting(t) => Restarting(plan))
      /\ (Changing(t) => Changing(plan)) /\ (Creating(t) => Creating(plan))
      /\ (t # <<>> => Head(t) \notin TaskOps)
  BY <1>1, TailFacts, TailIsLinked, TailIsTamer, NextCall
<1> HIDE DEF t
<1>3. CASE plan' = <<>> \o t
  <2>1. plan' = t
    BY <1>2, <1>3
  <2> QED
    BY <1>2, <2>1
<1>4. CASE plan' = <<"produce", "seal">> \o t
  <2> DEFINE p == <<"produce", "seal">>
  <2>1. Sound(p) /\ ~Restarting(p) /\ ~Changing(p) /\ ~Creating(p)
    BY LongerPlans
  <2> HIDE DEF p
  <2>2. plan' = p \o t
    BY <1>4 DEF p
  <2> QED
    BY <1>2, <2>1, <2>2, CatFacts, CatIsLinked, CatHead, CatIsTame DEF Sound
<1> QED
  BY <1>3, <1>4 DEF Inserts, t

(* A plain step keeps plans sound. *)
LEMMA PlainPlan ==
  ASSUME Types, PlanInv, TaskInv, Plain
  PROVE  plan' \in Seq(Ops) /\ PlanInv'
<1> USE DEF SameNodes
<1>0. plan \in Seq(Ops) /\ Linked(plan) /\ nodes' = nodes
  BY DEF Types, PlanInv, Plain
<1>1. CASE Stays
  BY <1>0, <1>1 DEF Stays, PlanInv, Linked, Restarting, Changing, Creating
<1>2. CASE Goes
  <2>1. plan' = Tail(plan) /\ plan # <<>> /\ step' = step
    BY <1>2 DEF Goes
  <2>2. /\ plan' \in Seq(Ops) /\ Linked(plan')
        /\ Restarting(plan') => Restarting(plan)
        /\ Changing(plan') => Changing(plan)
        /\ Creating(plan') => Creating(plan)
    BY <1>0, <2>1, TailFacts, TailIsLinked, TailIsTamer
  <2> QED
    BY <1>0, <2>1, <2>2 DEF PlanInv
<1>3. CASE Ends
  <2>1. plan' = <<>>
    BY <1>3 DEF Ends
  <2> QED
    BY <2>1 DEF PlanInv, Linked, Restarting, Creating
<1>4. CASE Begins
  <2>1. IsStep(step') /\ plan' = stepPlan(step')
    BY <1>4 DEF Begins
  <2> QED
    BY <1>0, <2>1, StepPlans DEF PlanInv, Sound
<1>5. CASE Finishes \/ Rejects
  BY <1>0, <1>5 DEF Finishes, Rejects, PlanInv, Linked, Restarting, Changing, Creating
<1>6. CASE Inserts
  <2>1. step' = step
    BY <1>6 DEF Inserts
  <2> QED
    BY <1>0, <1>6, <2>1, Insertion DEF PlanInv
<1> QED
  BY <1>1, <1>2, <1>3, <1>4, <1>5, <1>6 DEF Plain

(* A plain step keeps the types. *)
LEMMA PlainTypes ==
  ASSUME Types, PlanInv, TaskInv, Plain
  PROVE  Types'
<1>1. plan' \in Seq(Ops)
  BY PlainPlan
<1>2. containers' \in Seq(ContainerType) /\ steps' \in Nat
      /\ UNCHANGED <<validatorIds, task, registered>>
  BY DEF Plain, SameNodes, SameContainers
<1>3. /\ result' \in {"checking", "running", "rejected", "ok", "error"}
      /\ result' = "running" => IsStep(step')
      /\ result' = "checking" => result = "checking" /\ plan' = plan
  <2>1. /\ result \in {"checking", "running", "rejected", "ok", "error"}
        /\ result = "running" => IsStep(step)
    BY DEF Types
  <2>2. CASE Stays \/ Goes \/ Inserts
    BY <2>1, <2>2 DEF Stays, Goes, Inserts, Calls
  <2>3. CASE Ends \/ Finishes \/ Rejects
    BY <2>1, <2>3 DEF Ends, Finishes, Rejects
  <2>4. CASE Begins
    BY <2>1, <2>4 DEF Begins, AtBoundary
  <2> QED
    BY <2>2, <2>3, <2>4 DEF Plain
<1> QED
  BY <1>1, <1>2, <1>3 DEF Types

(* A plain step comes to a call that awaits goroutines only from the one    *)
(* before it.                                                               *)
LEMMA PlainHead ==
  ASSUME Types, PlanInv, TaskInv, Plain, result' = "running"
  PROVE  /\ result = "running"
         /\ \/ plan' = plan
            \/ (plan = <<>> \/ Head(plan) \notin TaskOps)
                 /\ (plan' = <<>> \/ Head(plan') \notin TaskOps)
            \/ /\ plan # <<>> /\ plan' # <<>>
               /\ \/ Head(plan) = "create" /\ Head(plan') = "created"
                  \/ Head(plan) = "remove" /\ Head(plan') = "removed"
               /\ \A n \in DOMAIN task : task[n].at = "done"
<1>0. plan \in Seq(Ops) /\ Linked(plan)
  BY DEF Types, PlanInv
<1>1. CASE Stays
  BY <1>1 DEF Stays
<1>2. CASE Goes
  <2>1. /\ result = "running" /\ plan # <<>> /\ plan' = Tail(plan)
        /\ \/ Head(plan) \notin TaskOps \cup {"register", "targets"}
           \/ Head(plan) \in {"create", "remove"} /\ \A n \in DOMAIN task : task[n].at = "done"
    BY <1>2 DEF Goes
  <2>2. CASE Head(plan) \notin TaskOps \cup {"register", "targets"}
    <3>1. Head(plan) \notin {"register", "create", "targets", "remove"}
      BY <2>2 DEF TaskOps
    <3> QED
      BY <1>0, <2>1, <2>2, <3>1, NextCall
  <2>3. CASE Head(plan) \in {"create", "remove"} /\ \A n \in DOMAIN task : task[n].at = "done"
    BY <1>0, <2>1, <2>3, NextCall
  <2> QED
    BY <2>1, <2>2, <2>3
<1>3. CASE Ends \/ Finishes \/ Rejects
  BY <1>3 DEF Ends, Finishes, Rejects
<1>4. CASE Begins
  <2>1. result = "running" /\ plan = <<>> /\ Sound(stepPlan(step')) /\ plan' = stepPlan(step')
    BY <1>4, StepPlans DEF Begins, AtBoundary
  <2> QED
    BY <2>1 DEF Sound
<1>5. CASE Inserts
  <2>1. result = "running" /\ plan # <<>> /\ Head(plan) = "activate"
    BY <1>5 DEF Inserts, Calls
  <2>2. plan' # <<>> => Head(plan') \notin TaskOps
    BY <1>5, Insertion
  <2> QED
    BY <2>1, <2>2 DEF TaskOps
<1> QED
  BY <1>1, <1>2, <1>3, <1>4, <1>5 DEF Plain

(* A plain step keeps goroutines within the calls that await them. *)
LEMMA PlainTasks ==
  ASSUME Types, PlanInv, TaskInv, Plain
  PROVE  TaskInv'
<1>1. task' = task
  BY DEF Plain, SameNodes
<1>2. CASE result' = "running"
  <2>1. /\ At("created") \/ At("removed") => \A n \in DOMAIN task : task[n].at = "done"
        /\ (plan = <<>> \/ Head(plan) \notin TaskOps) => DOMAIN task = {}
    BY <1>2, PlainHead DEF TaskInv
  <2>2. (At("created") \/ At("removed"))' => \A n \in DOMAIN task : task[n].at = "done"
    BY <1>2, <2>1, PlainHead DEF At, TaskOps
  <2>3. (plan' = <<>> \/ Head(plan') \notin TaskOps) => DOMAIN task = {}
    BY <1>2, <2>1, PlainHead DEF TaskOps
  <2> QED
    BY <1>1, <1>2, <2>2, <2>3 DEF TaskInv
<1>3. CASE result' # "running"
  <2>1. /\ plan' = <<>>
        /\ result' \in {"checking", "rejected", "ok"} => DOMAIN task = {}
        /\ result' = "error" => TasksReturned
    <3>1. CASE Stays
      BY <1>3, <3>1 DEF Stays, TaskInv
    <3>2. CASE Goes \/ Begins \/ Inserts
      BY <1>3, <3>2 DEF Goes, Begins, Inserts, AtBoundary, Calls
    <3>3. CASE Ends
      BY <3>3 DEF Ends, TaskInv, TasksReturned
    <3>4. CASE Finishes
      BY <3>4 DEF Finishes, AtBoundary, TaskInv
    <3>5. CASE Rejects
      BY <3>5 DEF Rejects, TaskInv
    <3> QED
      BY <3>1, <3>2, <3>3, <3>4, <3>5 DEF Plain
  <2>2. result' = "error" => TasksReturned'
    BY <1>1, <2>1 DEF TasksReturned
  <2> QED
    BY <1>1, <1>3, <2>1, <2>2 DEF TaskInv
<1> QED
  BY <1>2, <1>3

(* A plain step does not change who has which validator. *)
LEMMA PlainVids ==
  ASSUME KeepInv, VidInv, SameNodes, SameContainers
  PROVE  KeepInv' /\ VidInv'
<1>1. task' = task /\ validatorIds' = validatorIds /\ registered' = registered
  BY DEF SameNodes
<1>2. KeepInv'
  BY <1>1 DEF KeepInv
<1>3. Named' = Named /\ Ids' = Ids
  BY <1>1 DEF Named, Ids
<1>4. /\ \A n \in Named' : Ids'[n] \in 1 .. registered'
      /\ \A n, m \in Named' : n # m => Ids'[n] # Ids'[m]
  BY <1>1, <1>3 DEF VidInv
<1>5. \A c \in DOMAIN containers' : containers'[c].vid # 0 =>
        containers'[c].name \in Named' /\ containers'[c].vid = Ids'[containers'[c].name]
  BY <1>3 DEF VidInv, SameContainers
<1>6. \A c, d \in DOMAIN containers' :
       c # d /\ containers'[c].up /\ containers'[d].up => containers'[c].name # containers'[d].name
  BY DEF VidInv, SameContainers
<1> QED
  BY <1>2, <1>4, <1>5, <1>6 DEF VidInv

(* A plain step does not change what is known of the nodes. *)
LEMMA PlainNodes ==
  ASSUME Types, PlanInv, TaskInv, NodeInv, Plain
  PROVE  NodeInv'
<1>1. UNCHANGED <<nodes, members, suspended, listening, task>>
  BY DEF Plain, SameNodes
<1>2. /\ DOMAIN containers' = DOMAIN containers
      /\ \A c \in DOMAIN containers : containers'[c].name = containers[c].name
                                      /\ containers'[c].up = containers[c].up
  BY DEF Plain, SameContainers
<1>3. /\ \A n \in DOMAIN nodes : NodeOf(n, nodes[n])
      /\ members \subseteq DOMAIN containers
  BY DEF NodeInv
<1>4. \A n \in DOMAIN nodes : NodeOf(n, nodes[n])'
  BY <1>1, <1>2, <1>3 DEF NodeOf
<1>5. members' \subseteq DOMAIN containers'
  BY <1>1, <1>2, <1>3
<1>6. CreateInv => CreateInv'
  <2> SUFFICES ASSUME CreateInv PROVE CreateInv'
    OBVIOUS
  <2>1. \A n \in DOMAIN nodes : Settled(nodes[n])'
    BY <1>1, <1>2, <1>3 DEF CreateInv, Settled
  <2>2. \A n \in DOMAIN task : Creates(n)'
    BY <1>1, <1>2 DEF CreateInv, Creates, NodeOf
  <2> QED
    BY <1>1, <2>1, <2>2 DEF CreateInv
<1>7. RemoveInv => RemoveInv'
  <2> SUFFICES ASSUME RemoveInv PROVE RemoveInv'
    OBVIOUS
  <2>1. \A n \in DOMAIN nodes : nodes[n] \in DOMAIN containers
    BY <1>3 DEF NodeOf
  <2>2. \A n \in DOMAIN nodes : Settled(nodes[n]) => Settled(nodes[n])'
    BY <1>1, <1>2, <2>1 DEF Settled
  <2>3. \A n \in DOMAIN nodes : containers'[nodes[n]].up = containers[nodes[n]].up
    BY <1>2, <2>1
  <2>4. \A n \in DOMAIN task : Removes(n)'
    BY <1>1, <2>2, <2>3 DEF RemoveInv, Removes
  <2> QED
    BY <1>1, <2>2, <2>4 DEF RemoveInv
<1>8. result' \in {"checking", "running"} =>
        IF (At("remove") \/ At("removed"))' THEN RemoveInv' ELSE CreateInv'
  <2>1. CASE result' = "running"
    <3>1. result = "running" /\ ((At("remove") \/ At("removed"))' <=> At("remove") \/ At("removed"))
      BY <2>1, PlainHead DEF At, TaskOps
    <3> QED
      BY <1>6, <1>7, <3>1 DEF NodeInv
  <2>2. CASE result' = "checking"
    <3>1. result = "checking" /\ plan' = plan
      BY <2>2 DEF Plain, Stays, Goes, Ends, Begins, AtBoundary, Finishes, Rejects, Inserts, Calls
    <3> QED
      BY <1>6, <1>7, <3>1 DEF NodeInv, At
  <2> QED
    BY <2>1, <2>2
<1> QED
  BY <1>1, <1>4, <1>5, <1>8 DEF NodeInv

(* A plain step loses no container. *)
LEMMA PlainLeft ==
  ASSUME LeftInv, Plain
  PROVE  LeftInv'
<1>1. UNCHANGED <<nodes, members, task, shutdown>>
  BY DEF Plain, SameNodes
<1>2. /\ DOMAIN containers' = DOMAIN containers
      /\ \A c \in DOMAIN containers : containers'[c].up = containers[c].up
  BY DEF Plain, SameContainers
<1>3. result = "error" => result' = "error" /\ step' = step
  BY DEF Plain, Stays, Goes, Ends, Begins, AtBoundary, Finishes, Rejects, Inserts, Calls
<1>4. result \in {"ok", "error"} => result' = result /\ running' \subseteq running
  BY DEF Plain, Stays, Goes, Ends, Begins, AtBoundary, Finishes, Rejects, Inserts, Calls
<1>5. \A c \in DOMAIN containers : Lost(c) => Lost(c)'
  BY <1>1, <1>3 DEF Lost
<1> QED
  BY <1>1, <1>2, <1>4, <1>5 DEF LeftInv

(* Plain steps preserve the invariant. *)
LEMMA PlainInv ==
  ASSUME Inv, Plain
  PROVE  Inv'
BY PlainTypes, PlainPlan, PlainTasks, PlainVids, PlainNodes, PlainLeft DEF Inv, Plain

-----------------------------------------------------------------------------
(* The actions that are plain *)

(* Containers that are not touched *)
LEMMA ContainersKept ==
  ASSUME Types, UNCHANGED containers
  PROVE  SameContainers
BY DEF Types, SameContainers

(* Containers of which one client changes *)
LEMMA ClientChanged ==
  ASSUME Types, NEW c, NEW x \in Clients,
         containers' = [containers EXCEPT ![c].client = x]
  PROVE  SameContainers
<1>1. containers \in Seq(ContainerType)
  BY DEF Types
<1>2. CASE c \in DOMAIN containers
  <2> DEFINE r == [containers[c] EXCEPT !.client = x]
  <2>1. containers[c] \in ContainerType /\ c \in 1 .. Len(containers)
    BY <1>1, <1>2
  <2>2. r \in ContainerType
    BY <2>1 DEF ContainerType
  <2>3. r.name = containers[c].name /\ r.vid = containers[c].vid /\ r.up = containers[c].up
    BY <2>1 DEF ContainerType
  <2> HIDE DEF r
  <2>4. containers' = [containers EXCEPT ![c] = r]
    BY DEF r
  <2>5. containers' \in Seq(ContainerType)
    BY <1>1, <2>1, <2>2, <2>4
  <2> QED
    BY <2>3, <2>4, <2>5 DEF SameContainers
<1>3. CASE c \notin DOMAIN containers
  <2>1. containers' = containers
    BY <1>1, <1>3
  <2> QED
    BY <2>1, ContainersKept
<1> QED
  BY <1>2, <1>3

(* A restart also says whether the node validates. *)
LEMMA ClientRestarted ==
  ASSUME Types, NEW c, NEW x \in Clients, NEW b \in BOOLEAN,
         containers' = [containers EXCEPT ![c].client = x, ![c].validates = b]
  PROVE  SameContainers
<1>1. containers \in Seq(ContainerType)
  BY DEF Types
<1>2. CASE c \in DOMAIN containers
  <2> DEFINE q == [containers[c] EXCEPT !.client = x]
             r == [q EXCEPT !.validates = b]
  <2>1. containers[c] \in ContainerType /\ c \in 1 .. Len(containers)
    BY <1>1, <1>2
  <2>2. q \in ContainerType
    BY <2>1 DEF ContainerType
  <2>3. q.name = containers[c].name /\ q.vid = containers[c].vid /\ q.up = containers[c].up
    BY <2>1 DEF ContainerType
  <2>4. containers' = [containers EXCEPT ![c] = r]
    BY <1>1, <1>2
  <2> HIDE DEF q
  <2>5. r \in ContainerType
    BY <2>2 DEF ContainerType
  <2>6. r.name = q.name /\ r.vid = q.vid /\ r.up = q.up
    BY <2>2 DEF ContainerType
  <2> HIDE DEF r
  <2>7. containers' \in Seq(ContainerType)
    BY <1>1, <2>1, <2>4, <2>5
  <2> QED
    BY <2>3, <2>4, <2>6, <2>7 DEF SameContainers
<1>3. CASE c \notin DOMAIN containers
  <2>1. containers' = containers
    BY <1>1, <1>3
  <2> QED
    BY <2>1, ContainersKept
<1> QED
  BY <1>2, <1>3

(* A call that returns, or that ends the scenario *)
LEMMA CallMoves ==
  ASSUME NEW op, Calls(op), op \notin TaskOps \cup {"register", "targets"}
  PROVE  (Done => Goes) /\ (Fail => Ends)
BY DEF Calls, Done, Goes, Fail, Ends

(* A call that ends the scenario, also the first one of a fan-out *)
LEMMA CallEnds ==
  ASSUME NEW op, Calls(op), op \notin TaskOps, Fail
  PROVE  Ends
BY DEF Calls, Fail, Ends

(* A step of the scenario that passes the check *)
LEMMA CheckedStep ==
  ASSUME NEW i \in DOMAIN Steps, NEW s \in Steps[i], StepCheck(s)
  PROVE  IsStep(s)
<1>1. /\ s.fn \in StepFunctions /\ s.id \in Names
      /\ s.fn = "startNode" => s.instances \in Int /\ s.failing \in BOOLEAN
  BY ScenarioAssumption DEF Names
<1>2. s.fn = "startNode" => s.instances >= 1
  BY DEF StepCheck, checkStartNode
<1> QED
  BY <1>1, <1>2 DEF IsStep

(* Calls that fail *)
LEMMA FailsArePlain ==
  ASSUME Types,
         \/ registerFails \/ activateFails \/ heightFails \/ restartFails \/ nodeSyncFails
         \/ noTargets \/ nodeCallFails \/ createAppFails \/ noApp \/ networkCallFails
         \/ waitForFails \/ waitForBlocksFails
  PROVE  Plain
<1>1. result = "running"
  BY DEF registerFails, activateFails, heightFails, restartFails, nodeSyncFails, noTargets,
         nodeCallFails, createAppFails, noApp, networkCallFails, waitForFails,
         waitForBlocksFails, Calls
<1>2. Fail
  BY DEF registerFails, activateFails, heightFails, restartFails, nodeSyncFails, noTargets,
         nodeCallFails, createAppFails, noApp, networkCallFails, waitForFails,
         waitForBlocksFails, Fails
<1>3. \E op \in {"register", "activate", "height", "restart", "nodeSync", "targets", "suspend",
                 "kill", "heal", "createApp", "stopApp", "rules", "seal", "epoch", "wait",
                 "produce"} : Calls(op)
  BY DEF registerFails, activateFails, heightFails, restartFails, nodeSyncFails, noTargets,
         nodeCallFails, createAppFails, noApp, networkCallFails, waitForFails,
         waitForBlocksFails
<1>4. Ends
  BY <1>2, <1>3, CallEnds DEF TaskOps
<1>5. UNCHANGED <<nodes, validatorIds, members, suspended, listening, task, registered,
                  containers>>
  <2> USE DEF OnlyControl, runVars, memberVars, taskVars, chainVars
  <2>1. CASE registerFails \/ activateFails \/ heightFails \/ restartFails
    BY <2>1 DEF registerFails, activateFails, heightFails, restartFails
  <2>2. CASE nodeSyncFails \/ noTargets \/ nodeCallFails \/ createAppFails
    BY <2>2 DEF nodeSyncFails, noTargets, nodeCallFails, createAppFails
  <2>3. CASE noApp \/ networkCallFails \/ waitForFails \/ waitForBlocksFails
    BY <2>3 DEF noApp, networkCallFails, waitForFails, waitForBlocksFails
  <2> QED
    BY <2>1, <2>2, <2>3
<1>6. steps' \in Nat /\ UNCHANGED shutdown
  BY <1>2 DEF Fail, Types
<1> QED
  BY <1>1, <1>4, <1>5, <1>6, ContainersKept DEF Plain, SameNodes

(* Calls that change no container *)
LEMMA CallsArePlain ==
  ASSUME Types,
         \/ getNetworkBlockHeight \/ waitForNodeSync \/ CreateApplication \/ StartApplication
         \/ execStopApp \/ ApplyNetworkRules \/ AdvanceEpoch \/ waitFor
         \/ waitForBlockProduction
  PROVE  Plain
<1>1. Done
  BY DEF getNetworkBlockHeight, waitForNodeSync, CreateApplication, StartApplication,
         execStopApp, ApplyNetworkRules, AdvanceEpoch, waitFor, waitForBlockProduction
<1>2. \E op \in {"height", "nodeSync", "createApp", "startApp", "stopApp", "rules", "seal",
                 "epoch", "wait", "produce"} : Calls(op)
  BY DEF getNetworkBlockHeight, waitForNodeSync, CreateApplication, StartApplication,
         execStopApp, ApplyNetworkRules, AdvanceEpoch, waitFor, waitForBlockProduction
<1>3. Goes
  BY <1>1, <1>2, CallMoves DEF TaskOps
<1>4. UNCHANGED <<nodes, validatorIds, members, suspended, listening, task, registered,
                  containers>>
  <2> USE DEF OnlyControl, runVars, memberVars, taskVars, chainVars
  <2>1. CASE getNetworkBlockHeight \/ waitForNodeSync \/ ApplyNetworkRules \/ waitFor
    BY <2>1 DEF getNetworkBlockHeight, waitForNodeSync, ApplyNetworkRules, waitFor
  <2>2. CASE CreateApplication \/ StartApplication \/ execStopApp
    BY <2>2 DEF CreateApplication, StartApplication, execStopApp
  <2>3. CASE AdvanceEpoch \/ waitForBlockProduction
    BY <2>3 DEF AdvanceEpoch, waitForBlockProduction
  <2> QED
    BY <2>1, <2>2, <2>3
<1>5. steps' \in Nat /\ UNCHANGED shutdown /\ result = "running"
  BY <1>1, <1>2 DEF Done, Calls, Types
<1> QED
  BY <1>3, <1>4, <1>5, ContainersKept DEF Plain, SameNodes

(* Calls on the client of a node *)
LEMMA ClientCallsArePlain ==
  ASSUME Types, restart \/ ForceStopSonicd \/ HealSonicd
  PROVE  Plain
<1>1. Done
  BY DEF restart, ForceStopSonicd, HealSonicd
<1>2. \E op \in {"restart", "kill", "heal"} : Calls(op)
  BY DEF restart, ForceStopSonicd, HealSonicd
<1>3. Goes
  BY <1>1, <1>2, CallMoves DEF TaskOps
<1>4. UNCHANGED <<nodes, validatorIds, members, suspended, listening, task, registered>>
  BY DEF restart, ForceStopSonicd, HealSonicd, runVars, memberVars, taskVars, chainVars
<1>5. SameContainers
  <2>1. {"up", "killed", "ready"} \subseteq Clients
    BY DEF Clients
  <2>2. CASE restart
    <3>1. \E c : \E b \in BOOLEAN :
            containers' = [containers EXCEPT ![c].client = "up", ![c].validates = b]
      BY <2>2 DEF restart
    <3> QED
      BY <2>1, <3>1, ClientRestarted
  <2>3. CASE ForceStopSonicd \/ HealSonicd
    <3>1. \E c : \E x \in {"killed", "ready"} : containers' = [containers EXCEPT ![c].client = x]
      BY <2>3 DEF ForceStopSonicd, HealSonicd
    <3> QED
      BY <2>1, <3>1, ClientChanged
  <2> QED
    BY <2>2, <2>3
<1>6. steps' \in Nat /\ UNCHANGED shutdown /\ result = "running"
  BY <1>1, <1>2 DEF Done, Calls, Types
<1> QED
  BY <1>3, <1>4, <1>5, <1>6 DEF Plain, SameNodes

(* Waiting for blocks, for validators and for goroutines *)
LEMMA WaitsArePlain ==
  ASSUME Types, connectForBlocks \/ activate \/ WaitForTasks
  PROVE  Plain
<1>1. UNCHANGED <<nodes, validatorIds, members, suspended, listening, task, registered,
                  shutdown, containers>>
  BY DEF connectForBlocks, activate, WaitForTasks, OnlyControl, runVars, memberVars, taskVars,
         chainVars, Done, Fail, ctlVars
<1>2. result = "running" /\ steps' \in Nat
  BY DEF connectForBlocks, activate, WaitForTasks, Calls, Done, Fail, ctlVars, Types
<1>3. Stays \/ Goes \/ Ends \/ Inserts
  <2>1. CASE connectForBlocks
    <3>1. CASE Done
      BY <2>1, <3>1, CallMoves DEF connectForBlocks, TaskOps
    <3>2. CASE UNCHANGED ctlVars
      BY <3>2 DEF ctlVars, Stays
    <3> QED
      BY <2>1, <3>1, <3>2 DEF connectForBlocks
  <2>2. CASE activate
    BY <2>2 DEF activate, Inserts
  <2>3. CASE WaitForTasks
    <3>1. CASE TaskFailed
      BY <2>3, <3>1 DEF WaitForTasks, Calls, Fail, Ends
    <3>2. CASE ~TaskFailed
      <4>1. \A n \in DOMAIN task : task[n].at = "done"
        BY <2>3, <3>2 DEF WaitForTasks, TaskFailed, TasksReturned
      <4> QED
        BY <2>3, <3>2, <4>1 DEF WaitForTasks, Calls, Done, Goes
    <3> QED
      BY <3>1, <3>2
  <2> QED
    BY <2>1, <2>2, <2>3
<1> QED
  BY <1>1, <1>2, <1>3, ContainersKept DEF Plain, SameNodes

(* The steps of a scenario, and what happens around it *)
LEMMA ScenarioMovesArePlain ==
  ASSUME Types,
         \/ \E s \in Steps[1] : RejectScenario(s)
         \/ steps < MaxSteps /\ \E s \in Steps[steps + 1] : NextStep(s)
         \/ AbortScenario \/ CompleteScenario \/ ContextEnds \/ ApplicationEnds \/ Terminated
         \/ \E c \in DOMAIN containers : ClientCrashes(c)
  PROVE  Plain
<1> USE DEF OnlyControl, runVars, memberVars, taskVars, chainVars
<1>0. steps \in Nat
  BY DEF Types
<1>1. CASE \E s \in Steps[1] : RejectScenario(s)
  BY <1>0, <1>1, ContainersKept DEF RejectScenario, Plain, SameNodes, Rejects, appVars
<1>2. CASE steps < MaxSteps /\ \E s \in Steps[steps + 1] : NextStep(s)
  <2>1. steps + 1 \in DOMAIN Steps /\ steps + 1 \in Nat
    BY <1>0, <1>2, ScenarioAssumption DEF MaxSteps
  <2>2. PICK s \in Steps[steps + 1] : NextStep(s)
    BY <1>2
  <2>3. IsStep(s)
    BY <2>1, <2>2, CheckedStep DEF NextStep
  <2>4. Begins
    BY <2>2, <2>3 DEF NextStep, Begins
  <2> QED
    BY <2>1, <2>2, <2>4, ContainersKept DEF NextStep, Plain, SameNodes, AtBoundary
<1>3. CASE AbortScenario
  BY <1>0, <1>3, ContainersKept DEF AbortScenario, AtBoundary, Fail, Plain, SameNodes, Ends
<1>4. CASE CompleteScenario
  BY <1>0, <1>4, ContainersKept DEF CompleteScenario, AtBoundary, Plain, SameNodes, Finishes
<1>5. CASE ContextEnds \/ Terminated
  <2>1. UNCHANGED <<ctlVars, runVars, memberVars, containers, taskVars, chainVars, running>>
    BY <1>5 DEF ContextEnds, Terminated, vars, appVars
  <2> QED
    BY <1>0, <2>1, ContainersKept DEF ctlVars, Plain, SameNodes, Stays
<1>6. CASE ApplicationEnds
  <2>1. UNCHANGED <<ctlVars, runVars, memberVars, containers, taskVars, chainVars>>
        /\ running' = {}
    BY <1>6 DEF ApplicationEnds
  <2> QED
    BY <1>0, <2>1, ContainersKept DEF ctlVars, Plain, SameNodes, Stays
<1>7. CASE \E c \in DOMAIN containers : ClientCrashes(c)
  <2>1. PICK c \in DOMAIN containers : ClientCrashes(c)
    BY <1>7
  <2>2. SameContainers
    BY <2>1, ClientChanged DEF ClientCrashes, Clients
  <2> QED
    BY <1>0, <2>1, <2>2 DEF ClientCrashes, ctlVars, Plain, SameNodes, Stays
<1> QED
  BY <1>1, <1>2, <1>3, <1>4, <1>5, <1>6, <1>7

-----------------------------------------------------------------------------
(* The goroutines of a step *)

(* The goroutine of n makes a step, while the executor waits for all. *)
TaskStep(n) ==
  /\ UNCHANGED <<result, step, plan, steps, shutdown, nodes, validatorIds, registered, running>>
  /\ result = "running" /\ (At("create") \/ At("remove"))
  /\ n \in DOMAIN task /\ DOMAIN task' = DOMAIN task
  /\ \A m \in DOMAIN task : m # n => task'[m] = task[m]
  /\ task'[n] \in TaskType /\ task'[n].id = task[n].id
  /\ containers' \in Seq(ContainerType)

(* Names that are in the course of getting a validator get no other. *)
LEMMA TaskStepIds ==
  ASSUME NEW n, Types, TaskStep(n)
  PROVE  Named' = Named /\ Ids' = Ids
<1>1. DOMAIN task' = DOMAIN task /\ \A m \in DOMAIN task : task'[m].id = task[m].id
  BY DEF TaskStep
<1>2. validatorIds' = validatorIds
  BY DEF TaskStep
<1>3. Named' = Named
  BY <1>1, <1>2 DEF Named
<1> QED
  BY <1>1, <1>2, <1>3 DEF Named, Ids

(* What a step of a goroutine leaves alone *)
LEMMA TaskStepFrame ==
  ASSUME NEW n, Types, PlanInv, TaskInv, KeepInv, result = "running", TaskStep(n)
  PROVE  Types' /\ PlanInv' /\ TaskInv' /\ KeepInv'
<1>1. UNCHANGED <<result, step, plan, steps, nodes, validatorIds, registered>>
      /\ DOMAIN task' = DOMAIN task /\ containers' \in Seq(ContainerType)
  BY DEF TaskStep
<1>2. \A m \in DOMAIN task : m \in Names /\ task'[m] \in TaskType /\ task'[m].id = task[m].id
  BY DEF TaskStep, Types
<1>3. Types'
  BY <1>1, <1>2 DEF Types
<1>4. PlanInv'
  BY <1>1 DEF PlanInv, Linked, Restarting, Changing, Creating
<1>5. TaskInv'
  <2>1. plan # <<>> /\ Head(plan) \in {"create", "remove"}
    BY DEF TaskStep, At
  <2> QED
    BY <1>1, <2>1 DEF TaskInv, At, TaskOps
<1>6. KeepInv'
  BY <1>1, <1>2 DEF KeepInv
<1> QED
  BY <1>3, <1>4, <1>5, <1>6

(* A goroutine that only moves on *)
LEMMA TaskMoves ==
  ASSUME NEW n \in DOMAIN task, Types,
         NEW to \in {"start", "add", "notify", "remove", "stop", "done", "failed"},
         Moves(n, to)
  PROVE  /\ DOMAIN task' = DOMAIN task
         /\ \A m \in DOMAIN task : m # n => task'[m] = task[m]
         /\ task'[n] \in TaskType
         /\ task'[n].at = to /\ task'[n].node = task[n].node /\ task'[n].id = task[n].id
<1>1. task[n] \in TaskType
  BY DEF Types
<1> DEFINE r == [task[n] EXCEPT !.at = to]
<1>2. r \in TaskType
  BY <1>1 DEF TaskType
<1>3. r.at = to /\ r.node = task[n].node /\ r.id = task[n].id
  BY <1>1 DEF TaskType
<1>4. task' = [task EXCEPT ![n] = r]
  BY DEF Moves
<1> HIDE DEF r
<1> QED
  BY <1>2, <1>3, <1>4

(* The validators while a goroutine starts or stops no container *)
LEMMA TaskStepVids ==
  ASSUME NEW n, Types, VidInv, TaskStep(n), UNCHANGED containers
  PROVE  VidInv'
<1>1. Named' = Named /\ Ids' = Ids /\ registered' = registered
  BY TaskStepIds DEF TaskStep
<1> QED
  BY <1>1 DEF VidInv

(* A container is started under a name that no running one has. *)
LEMMA StartKeepsInv ==
  ASSUME Inv, NEW n, StartOperaDockerNode(n)
  PROVE  Inv'
<1>c. PICK c : c = Len(containers) + 1
  OBVIOUS
<1> DEFINE r == [name |-> n, vid |-> task[n].id, validates |-> task[n].id # 0,
                 failing |-> step.failing, up |-> TRUE, client |-> "up", boot |-> ~bootstrapped]
<1>0. Types /\ PlanInv /\ TaskInv /\ KeepInv /\ VidInv /\ NodeInv /\ LeftInv
  BY DEF Inv
<1>1. /\ result = "running" /\ At("create") /\ ~(At("remove") \/ At("removed"))
      /\ n \in DOMAIN task /\ task[n].at = "start"
      /\ \A d \in DOMAIN containers : containers[d].up => containers[d].name # n
      /\ containers' = Append(containers, r)
      /\ task' = [task EXCEPT ![n].at = "add", ![n].node = c]
      /\ UNCHANGED <<result, step, plan, steps, shutdown, nodes, validatorIds, registered, running,
                     members, suspended, listening>>
  BY <1>c DEF StartOperaDockerNode, AtTask, Calls, At, ContainerExists, ctlVars, runVars, memberVars,
         appVars, chainVars
<1>2. containers \in Seq(ContainerType) /\ task[n] \in TaskType /\ n \in Names
  BY <1>0, <1>1 DEF Types
<1>3. c \in Nat /\ c # 0 /\ c \notin DOMAIN containers
  BY <1>2, <1>c
<1>4. r \in ContainerType
  <2>1. Creating(plan)
    <3>1. plan \in Seq(Ops) /\ plan # <<>> /\ Head(plan) = "create"
      BY <1>0, <1>1 DEF Types, At
    <3> QED
      BY <3>1, TailFacts DEF Creating
  <2>2. step.failing \in BOOLEAN
    BY <1>0, <1>1, <2>1 DEF Types, PlanInv, IsStep
  <2> QED
    BY <1>2, <2>2 DEF ContainerType, TaskType, Clients
<1> HIDE DEF r
<1>5. /\ containers' \in Seq(ContainerType) /\ DOMAIN containers' = DOMAIN containers \cup {c}
      /\ \A d \in DOMAIN containers : containers'[d] = containers[d]
      /\ containers'[c] = r
  BY <1>1, <1>2, <1>4, <1>c
<1>6. r.name = n /\ r.vid = task[n].id /\ r.up = TRUE
  BY DEF r
<1>7. /\ DOMAIN task' = DOMAIN task
      /\ \A m \in DOMAIN task : m # n => task'[m] = task[m]
      /\ task'[n] \in TaskType
      /\ task'[n].at = "add" /\ task'[n].node = c /\ task'[n].id = task[n].id
  <2> DEFINE q == [task[n] EXCEPT !.at = "add"]
             t == [q EXCEPT !.node = c]
  <2>1. q \in TaskType /\ q.at = "add" /\ q.id = task[n].id
    BY <1>2 DEF TaskType
  <2>2. task' = [task EXCEPT ![n] = t]
    BY <1>1
  <2> HIDE DEF q
  <2>3. t \in TaskType /\ t.at = "add" /\ t.node = c /\ t.id = task[n].id
    BY <1>3, <2>1 DEF TaskType
  <2> HIDE DEF t
  <2> QED
    BY <1>1, <2>2, <2>3
<1>8. TaskStep(n)
  BY <1>1, <1>5, <1>7 DEF TaskStep
<1>9. Types' /\ PlanInv' /\ TaskInv' /\ KeepInv'
  BY <1>0, <1>1, <1>8, TaskStepFrame
<1>10. VidInv'
  <2>1. Named' = Named /\ Ids' = Ids /\ registered' = registered
    BY <1>0, <1>1, <1>8, TaskStepIds
  <2>2. task[n].id # 0 => n \in Named /\ Ids[n] = task[n].id
    BY <1>0, <1>1 DEF KeepInv, Named, Ids
  <2>3. \A d \in DOMAIN containers' : containers'[d].vid # 0 =>
          containers'[d].name \in Named /\ containers'[d].vid = Ids[containers'[d].name]
    BY <1>0, <1>5, <1>6, <2>2 DEF VidInv
  <2>4. \A d, e \in DOMAIN containers' :
          d # e /\ containers'[d].up /\ containers'[e].up => containers'[d].name # containers'[e].name
    BY <1>0, <1>1, <1>5, <1>6 DEF VidInv
  <2> QED
    BY <1>0, <2>1, <2>3, <2>4 DEF VidInv
<1>11. NodeInv'
  <2>1. CreateInv /\ members \subseteq DOMAIN containers
        /\ \A m \in DOMAIN nodes : NodeOf(m, nodes[m])
    BY <1>0, <1>1 DEF NodeInv
  <2>2. /\ c \notin Range(nodes) \cup suspended
        /\ \A m \in DOMAIN nodes : nodes[m] \in DOMAIN containers
    BY <1>3, <2>1 DEF CreateInv, NodeOf, Range
  <2>3. \A m \in DOMAIN nodes : NodeOf(m, nodes[m])'
    BY <1>1, <1>5, <2>1 DEF NodeOf
  <2>4. CreateInv'
    <3>1. \A m \in DOMAIN nodes : Settled(nodes[m])'
      BY <1>1, <1>5, <2>1, <2>2 DEF CreateInv, Settled
    <3>2. Creates(n)'
      BY <1>1, <1>5, <1>6, <1>7, <2>2 DEF Creates, NodeOf
    <3>3. ASSUME NEW m \in DOMAIN task, m # n
          PROVE  Creates(m)'
      <4>1. Creates(m) /\ task'[m] = task[m]
        BY <1>7, <2>1, <3>3 DEF CreateInv
      <4> QED
        BY <1>1, <1>5, <4>1 DEF Creates, NodeOf
    <3>4. \A m \in DOMAIN task : task[m].at \in {"notify", "done"} =>
            task'[m] = task[m]
      BY <1>1, <1>7
    <3> QED
      BY <1>1, <1>7, <2>1, <3>1, <3>2, <3>3, <3>4 DEF CreateInv
  <2> QED
    BY <1>1, <1>5, <2>1, <2>3, <2>4 DEF NodeInv, At
<1>12. LeftInv'
  <2>1. Lost(c)'
    BY <1>1, <1>7 DEF Lost
  <2>2. ASSUME NEW d \in DOMAIN containers, Lost(d) PROVE Lost(d)'
    <3>1. PICK m \in DOMAIN task : task[m].node = d /\ task[m].at \in {"add", "stop", "failed"}
      BY <1>1, <2>2 DEF Lost
    <3>2. m # n /\ task'[m] = task[m]
      BY <1>1, <1>7, <3>1
    <3> QED
      BY <1>7, <3>1, <3>2 DEF Lost
  <2> QED
    BY <1>0, <1>1, <1>5, <2>1, <2>2 DEF LeftInv
<1> QED
  BY <1>9, <1>10, <1>11, <1>12 DEF Inv

(* The other steps of a goroutine that creates a node *)
LEMMA CreateKeepsInv ==
  ASSUME Inv, NEW n,
         StartFails(n) \/ addNodeIntoNetwork(n) \/ AddFails(n) \/ AfterNodeCreation(n)
  PROVE  Inv'
<1>0. Types /\ PlanInv /\ TaskInv /\ KeepInv /\ VidInv /\ NodeInv /\ LeftInv
  BY DEF Inv
<1>c. PICK c : c = task[n].node
  OBVIOUS
<1>t. PICK to : to = task'[n].at
  OBVIOUS
<1>1. /\ result = "running" /\ At("create") /\ ~(At("remove") \/ At("removed"))
      /\ n \in DOMAIN task
      /\ UNCHANGED <<result, step, plan, steps, shutdown, nodes, validatorIds, registered, running,
                     suspended, containers>>
  BY DEF StartFails, addNodeIntoNetwork, AddFails, AfterNodeCreation, AtTask, Calls, At,
         ctlVars, runVars, memberVars, appVars, chainVars
<1>2. /\ DOMAIN task' = DOMAIN task
      /\ \A m \in DOMAIN task : m # n => task'[m] = task[m]
      /\ task'[n] \in TaskType
      /\ task'[n].at = to /\ task'[n].node = c /\ task'[n].id = task[n].id
  <2>1. \E x \in {"failed", "notify", "done"} : Moves(n, x)
    BY DEF StartFails, addNodeIntoNetwork, AddFails, AfterNodeCreation
  <2> QED
    BY <1>0, <1>1, <1>c, <1>t, <2>1, TaskMoves
<1>3. \/ task[n].at \in {"start", "add"} /\ to = "failed" /\ UNCHANGED <<members, listening>>
      \/ /\ task[n].at = "add" /\ to = "notify"
         /\ members' = members \cup {c} /\ UNCHANGED listening
      \/ /\ task[n].at = "notify" /\ to = "done"
         /\ listening' = listening \cup {c} /\ UNCHANGED members
  <2>1. \A x \in {"failed", "notify", "done"} : Moves(n, x) => to = x
    BY <1>0, <1>1, <1>t, TaskMoves
  <2>2. CASE StartFails(n) \/ AddFails(n)
    BY <2>1, <2>2 DEF StartFails, AddFails, AtTask, memberVars
  <2>3. CASE addNodeIntoNetwork(n)
    BY <1>c, <2>1, <2>3 DEF addNodeIntoNetwork, AtTask
  <2>4. CASE AfterNodeCreation(n)
    BY <1>c, <2>1, <2>4 DEF AfterNodeCreation, AtTask
  <2> QED
    BY <2>2, <2>3, <2>4
<1>4. TaskStep(n)
  BY <1>0, <1>1, <1>2 DEF TaskStep, Types
<1>5. Types' /\ PlanInv' /\ TaskInv' /\ KeepInv' /\ VidInv'
  BY <1>0, <1>1, <1>4, TaskStepFrame, TaskStepVids
<1>6. NodeInv'
  <2>1. CreateInv /\ members \subseteq DOMAIN containers
        /\ \A m \in DOMAIN nodes : NodeOf(m, nodes[m])
    BY <1>0, <1>1 DEF NodeInv
  <2>2. task[n].at \in {"add", "notify"} => c \in DOMAIN containers /\ c \notin Range(nodes)
    BY <1>1, <1>c, <2>1 DEF CreateInv, Creates, NodeOf
  <2>3. members' \subseteq DOMAIN containers'
    BY <1>1, <1>3, <2>1, <2>2
  <2>4. \A m \in DOMAIN nodes : Settled(nodes[m])'
    <3>1. \A m \in DOMAIN nodes : nodes[m] \in Range(nodes) /\ Settled(nodes[m])
      BY <2>1 DEF CreateInv, Range
    <3> QED
      BY <1>1, <1>3, <2>2, <3>1 DEF Settled
  <2>5. Creates(n)'
    <3>1. Creates(n)
      BY <1>1, <2>1 DEF CreateInv
    <3> QED
      BY <1>1, <1>2, <1>3, <1>c, <3>1 DEF Creates, NodeOf
  <2>6. ASSUME NEW m \in DOMAIN task, m # n PROVE Creates(m)'
    <3>1. Creates(m) /\ task'[m] = task[m]
      BY <1>2, <2>1, <2>6 DEF CreateInv
    <3> QED
      BY <1>1, <1>3, <3>1 DEF Creates, NodeOf
  <2>7. \A d \in members' :
          \/ d \in Range(nodes)
          \/ \E m \in DOMAIN task : task'[m].node = d /\ task'[m].at \in {"notify", "done"}
    BY <1>1, <1>2, <1>3, <1>c, <2>1 DEF CreateInv
  <2>8. \A d \in listening' :
          \/ d \in Range(nodes)
          \/ \E m \in DOMAIN task : task'[m].node = d /\ task'[m].at = "done"
    BY <1>1, <1>2, <1>3, <1>c, <2>1 DEF CreateInv
  <2>9. CreateInv'
    BY <1>1, <1>2, <2>1, <2>4, <2>5, <2>6, <2>7, <2>8 DEF CreateInv
  <2> QED
    BY <1>1, <2>1, <2>3, <2>9 DEF NodeInv, At, NodeOf
<1>7. LeftInv'
  <2>1. ASSUME NEW d \in DOMAIN containers, d \in members \/ Lost(d)
        PROVE  (d \in members \/ Lost(d))'
    <3>1. CASE d \in members
      BY <1>3, <3>1
    <3>2. CASE Lost(d)
      <4>1. PICK m \in DOMAIN task : task[m].node = d /\ task[m].at \in {"add", "stop", "failed"}
        BY <1>1, <3>2 DEF Lost
      <4>2. CASE m # n
        BY <1>2, <4>1, <4>2 DEF Lost
      <4>3. CASE m = n
        <5>1. d = c /\ (to = "failed" \/ members' = members \cup {c})
          BY <1>3, <1>c, <4>1, <4>3
        <5> QED
          BY <1>1, <1>2, <5>1 DEF Lost
      <4> QED
        BY <4>2, <4>3
    <3> QED
      BY <2>1, <3>1, <3>2
  <2> QED
    BY <1>0, <1>1, <2>1 DEF LeftInv
<1> QED
  BY <1>5, <1>6, <1>7 DEF Inv

(* Two names do not share a node: a container has one name. *)
LEMMA NodesAreDistinct ==
  ASSUME \A n \in DOMAIN nodes : NodeOf(n, nodes[n])
  PROVE  \A n, m \in DOMAIN nodes : nodes[n] = nodes[m] => n = m
BY DEF NodeOf

(* The steps of a goroutine that removes a node, up to its stop *)
LEMMA RemoveKeepsInv ==
  ASSUME Inv, NEW n, BeforeNodeRemoval(n) \/ RemoveNode(n) \/ StopFails(n)
  PROVE  Inv'
<1>0. Types /\ PlanInv /\ TaskInv /\ KeepInv /\ VidInv /\ NodeInv /\ LeftInv
  BY DEF Inv
<1>c. PICK c : c = task[n].node
  OBVIOUS
<1>t. PICK to : to = task'[n].at
  OBVIOUS
<1>1. /\ result = "running" /\ At("remove")
      /\ n \in DOMAIN task
      /\ UNCHANGED <<result, step, plan, steps, shutdown, nodes, validatorIds, registered, running,
                     containers>>
  BY DEF BeforeNodeRemoval, RemoveNode, StopFails, AtTask, Calls, At,
         ctlVars, runVars, memberVars, appVars, chainVars
<1>2. /\ DOMAIN task' = DOMAIN task
      /\ \A m \in DOMAIN task : m # n => task'[m] = task[m]
      /\ task'[n] \in TaskType
      /\ task'[n].at = to /\ task'[n].node = c /\ task'[n].id = task[n].id
  <2>1. \E x \in {"remove", "stop", "failed"} : Moves(n, x)
    BY DEF BeforeNodeRemoval, RemoveNode, StopFails
  <2> QED
    BY <1>0, <1>1, <1>c, <1>t, <2>1, TaskMoves
<1>3. \/ /\ task[n].at = "notify" /\ to = "remove"
         /\ listening' = listening \ {c} /\ UNCHANGED <<members, suspended>>
      \/ /\ task[n].at = "remove" /\ to \in {"stop", "failed"}
         /\ members' = members \ {c} /\ suspended' = suspended \ {c} /\ UNCHANGED listening
      \/ /\ task[n].at \in {"remove", "stop"} /\ to = "failed"
         /\ UNCHANGED <<members, suspended, listening>>
  <2>1. \A x \in {"remove", "stop", "failed"} : Moves(n, x) => to = x
    BY <1>0, <1>1, <1>t, TaskMoves
  <2>2. CASE BeforeNodeRemoval(n)
    BY <1>c, <2>1, <2>2 DEF BeforeNodeRemoval, AtTask
  <2>3. CASE RemoveNode(n)
    <3>1. CASE ClientUp(c)
      BY <1>c, <2>1, <2>3, <3>1 DEF RemoveNode, AtTask
    <3>2. CASE ~ClientUp(c)
      BY <1>c, <2>1, <2>3, <3>2 DEF RemoveNode, AtTask
    <3> QED
      BY <3>1, <3>2
  <2>4. CASE StopFails(n)
    BY <2>1, <2>4 DEF StopFails, AtTask, memberVars
  <2> QED
    BY <2>2, <2>3, <2>4
<1>4. TaskStep(n)
  BY <1>0, <1>1, <1>2 DEF TaskStep, Types
<1>5. Types' /\ PlanInv' /\ TaskInv' /\ KeepInv' /\ VidInv'
  BY <1>0, <1>1, <1>4, TaskStepFrame, TaskStepVids
<1>6. NodeInv'
  <2>1. RemoveInv /\ members \subseteq DOMAIN containers
        /\ \A m \in DOMAIN nodes : NodeOf(m, nodes[m])
    BY <1>0, <1>1 DEF NodeInv
  <2>2. Removes(n) /\ n \in DOMAIN nodes /\ c = nodes[n]
    BY <1>1, <1>c, <2>1 DEF RemoveInv, Removes
  <2>3. \A m \in DOMAIN nodes : m # n => nodes[m] # c
    BY <2>1, <2>2, NodesAreDistinct
  <2>4. \A m \in DOMAIN nodes : m # n /\ Settled(nodes[m]) => Settled(nodes[m])'
    BY <1>1, <1>3, <2>3 DEF Settled
  <2>5. Removes(n)'
    BY <1>1, <1>2, <1>3, <2>2 DEF Removes, Settled
  <2>6. ASSUME NEW m \in DOMAIN task, m # n PROVE Removes(m)'
    <3>1. Removes(m) /\ task'[m] = task[m] /\ m \in DOMAIN nodes
      BY <1>2, <2>1, <2>6 DEF RemoveInv, Removes
    <3>2. nodes[m] # c /\ (Settled(nodes[m]) => Settled(nodes[m])')
      BY <2>3, <2>4, <2>6, <3>1
    <3> QED
      BY <1>1, <1>3, <3>1, <3>2 DEF Removes
  <2>7. RemoveInv'
    BY <1>1, <1>2, <1>3, <2>1, <2>4, <2>5, <2>6 DEF RemoveInv
  <2> QED
    BY <1>1, <1>3, <2>1, <2>7 DEF NodeInv, At, NodeOf
<1>7. LeftInv'
  <2>1. ASSUME NEW d \in DOMAIN containers, d \in members \/ Lost(d)
        PROVE  (d \in members \/ Lost(d))'
    <3>1. CASE d \in members /\ d # c
      BY <1>3, <3>1
    <3>2. CASE d = c
      <4>1. d \in members' \/ to \in {"stop", "failed"}
        <5>1. to = "remove" => c \in members'
          <6>1. RemoveInv
            BY <1>0, <1>1 DEF NodeInv
          <6>2. Removes(n)
            BY <1>1, <6>1 DEF RemoveInv
          <6> QED
            BY <1>3, <1>c, <6>2 DEF Removes, Settled
        <5> QED
          BY <1>3, <3>2, <5>1
      <4> QED
        BY <1>1, <1>2, <3>2, <4>1 DEF Lost
    <3>3. CASE Lost(d) /\ d # c
      <4>1. PICK m \in DOMAIN task : task[m].node = d /\ task[m].at \in {"add", "stop", "failed"}
        BY <1>1, <3>3 DEF Lost
      <4>2. m # n
        BY <1>c, <3>3, <4>1
      <4> QED
        BY <1>2, <4>1, <4>2 DEF Lost
    <3> QED
      BY <2>1, <3>1, <3>2, <3>3
  <2> QED
    BY <1>0, <1>1, <2>1 DEF LeftInv
<1> QED
  BY <1>5, <1>6, <1>7 DEF Inv

(* A node that has left the network is stopped. *)
LEMMA StopKeepsInv ==
  ASSUME Inv, NEW n, StopNode(n)
  PROVE  Inv'
<1>0. Types /\ PlanInv /\ TaskInv /\ KeepInv /\ VidInv /\ NodeInv /\ LeftInv
  BY DEF Inv
<1>c. PICK c : c = task[n].node
  OBVIOUS
<1>1. /\ result = "running" /\ At("remove")
      /\ n \in DOMAIN task /\ task[n].at = "stop"
      /\ Moves(n, "done")
      /\ containers' = [containers EXCEPT ![c].up = FALSE]
      /\ UNCHANGED <<result, step, plan, steps, shutdown, nodes, validatorIds, registered, running,
                     members, suspended, listening>>
  BY <1>c DEF StopNode, AtTask, Calls, At, ctlVars, runVars, memberVars, appVars, chainVars
<1>2. /\ DOMAIN task' = DOMAIN task
      /\ \A m \in DOMAIN task : m # n => task'[m] = task[m]
      /\ task'[n] \in TaskType
      /\ task'[n].at = "done" /\ task'[n].node = c /\ task'[n].id = task[n].id
  BY <1>0, <1>1, <1>c, TaskMoves
<1>3. /\ RemoveInv /\ members \subseteq DOMAIN containers
      /\ \A m \in DOMAIN nodes : NodeOf(m, nodes[m])
  BY <1>0, <1>1 DEF NodeInv
<1>4. Removes(n) /\ n \in DOMAIN nodes /\ c = nodes[n] /\ c \in DOMAIN containers
      /\ c \notin members \cup suspended \cup listening
  BY <1>1, <1>3, <1>c DEF RemoveInv, Removes, NodeOf
<1>5. /\ containers' \in Seq(ContainerType) /\ DOMAIN containers' = DOMAIN containers
      /\ \A d \in DOMAIN containers :
           /\ containers'[d].name = containers[d].name /\ containers'[d].vid = containers[d].vid
           /\ containers'[d].up <=> containers[d].up /\ d # c
  <2> DEFINE r == [containers[c] EXCEPT !.up = FALSE]
  <2>1. containers \in Seq(ContainerType)
    BY <1>0 DEF Types
  <2>2. containers[c] \in ContainerType /\ c \in 1 .. Len(containers)
    BY <1>4, <2>1
  <2>3. r \in ContainerType
    BY <2>2 DEF ContainerType
  <2>4. r.name = containers[c].name /\ r.vid = containers[c].vid /\ r.up = FALSE
    BY <2>2 DEF ContainerType
  <2>5. containers' = [containers EXCEPT ![c] = r]
    BY <1>1
  <2> HIDE DEF r
  <2>6. containers' \in Seq(ContainerType)
    BY <2>1, <2>2, <2>3, <2>5
  <2> QED
    BY <2>4, <2>5, <2>6
<1>6. TaskStep(n)
  BY <1>1, <1>2, <1>5 DEF TaskStep
<1>7. Types' /\ PlanInv' /\ TaskInv' /\ KeepInv'
  BY <1>0, <1>1, <1>6, TaskStepFrame
<1>8. VidInv'
  <2>1. Named' = Named /\ Ids' = Ids /\ registered' = registered
    BY <1>0, <1>1, <1>6, TaskStepIds
  <2> QED
    BY <1>0, <1>5, <2>1 DEF VidInv
<1>9. NodeInv'
  <2>1. \A m \in DOMAIN nodes : m # n => nodes[m] # c
    BY <1>3, <1>4, NodesAreDistinct
  <2>2. \A m \in DOMAIN nodes : nodes[m] \in DOMAIN containers
    BY <1>3 DEF NodeOf
  <2>3. \A m \in DOMAIN nodes : m # n /\ Settled(nodes[m]) => Settled(nodes[m])'
    BY <1>1, <1>5, <2>1, <2>2 DEF Settled
  <2>4. Removes(n)'
    BY <1>1, <1>2, <1>4 DEF Removes
  <2>5. ASSUME NEW m \in DOMAIN task, m # n PROVE Removes(m)'
    <3>1. Removes(m) /\ task'[m] = task[m] /\ m \in DOMAIN nodes
      BY <1>2, <1>3, <2>5 DEF RemoveInv, Removes
    <3>2. nodes[m] # c /\ nodes[m] \in DOMAIN containers
          /\ (Settled(nodes[m]) => Settled(nodes[m])')
      BY <2>1, <2>2, <2>3, <2>5, <3>1
    <3> QED
      BY <1>1, <1>5, <3>1, <3>2 DEF Removes
  <2>6. RemoveInv'
    BY <1>1, <1>2, <1>3, <2>3, <2>4, <2>5 DEF RemoveInv
  <2> QED
    BY <1>1, <1>3, <1>5, <2>6 DEF NodeInv, At, NodeOf
<1>10. LeftInv'
  <2>1. ASSUME NEW d \in DOMAIN containers, d # c, d \in members \/ Lost(d)
        PROVE  (d \in members \/ Lost(d))'
    <3>1. CASE d \in members
      BY <1>1, <3>1
    <3>2. CASE Lost(d)
      <4>1. PICK m \in DOMAIN task : task[m].node = d /\ task[m].at \in {"add", "stop", "failed"}
        BY <1>1, <3>2 DEF Lost
      <4>2. m # n
        BY <1>c, <2>1, <4>1
      <4> QED
        BY <1>2, <4>1, <4>2 DEF Lost
    <3> QED
      BY <2>1, <3>1, <3>2
  <2> QED
    BY <1>0, <1>1, <1>5, <2>1 DEF LeftInv
<1> QED
  BY <1>7, <1>8, <1>9, <1>10 DEF Inv

(* A step whose goroutines have removed their nodes lets go of them. *)
LEMMA RemovedKeepsInv ==
  ASSUME Inv, removed
  PROVE  Inv'
<1>0. Types /\ PlanInv /\ TaskInv /\ KeepInv /\ VidInv /\ NodeInv /\ LeftInv
  BY DEF Inv
<1>1. /\ result = "running" /\ At("removed") /\ plan # <<>> /\ plan' = Tail(plan)
      /\ nodes' = Restrict(nodes, DOMAIN nodes \ DOMAIN task) /\ task' = <<>>
      /\ UNCHANGED <<result, step, steps, shutdown, validatorIds, registered, running,
                     members, suspended, listening, containers>>
  BY DEF removed, Calls, Done, At, memberVars, appVars, chainVars
<1>2. /\ DOMAIN nodes' = DOMAIN nodes \ DOMAIN task
      /\ \A n \in DOMAIN nodes' : nodes'[n] = nodes[n]
      /\ DOMAIN task' = {}
  BY <1>1 DEF Restrict
<1>3. plan \in Seq(Ops) /\ Linked(plan) /\ Head(plan) = "removed"
  BY <1>0, <1>1 DEF Types, PlanInv, At
<1>4. /\ plan' \in Seq(Ops) /\ Linked(plan')
      /\ Creating(plan') => Creating(plan)
      /\ plan' = <<>> \/ Head(plan') \notin TaskOps
      /\ ~Restarting(plan')
  <2>1. Changing(plan)
    BY <1>1, <1>3, TailFacts DEF Changing
  <2> QED
    BY <1>0, <1>1, <1>3, <2>1, TailFacts, TailIsLinked, TailIsTamer, NextCall DEF PlanInv
<1>5. Types'
  BY <1>0, <1>1, <1>2, <1>4 DEF Types
<1>6. PlanInv'
  BY <1>0, <1>1, <1>4 DEF PlanInv
<1>7. TaskInv'
  BY <1>1, <1>2, <1>4 DEF TaskInv, At, TaskOps
<1>8. KeepInv' /\ VidInv'
  <2>1. KeepInv'
    BY <1>2 DEF KeepInv
  <2>2. RemoveInv /\ \A n \in DOMAIN task : task[n].id = 0
    BY <1>0, <1>1 DEF NodeInv, RemoveInv, Removes
  <2>3. Named = DOMAIN validatorIds /\ Named' = DOMAIN validatorIds
    BY <1>1, <1>2, <2>2 DEF Named
  <2>4. Ids' = Ids
    BY <1>1, <2>3 DEF Ids
  <2> QED
    BY <1>0, <1>1, <2>1, <2>3, <2>4 DEF VidInv
<1>9. NodeInv'
  <2>1. RemoveInv /\ members \subseteq DOMAIN containers
        /\ \A m \in DOMAIN nodes : NodeOf(m, nodes[m])
    BY <1>0, <1>1 DEF NodeInv
  <2>2. \A n \in DOMAIN task : task[n].at = "done"
    BY <1>0, <1>1 DEF TaskInv
  <2>3. \A n \in DOMAIN task :
          n \in DOMAIN nodes /\ nodes[n] \notin members \cup suspended \cup listening
    BY <2>1, <2>2 DEF RemoveInv, Removes
  <2>4. members \cup suspended \cup listening \subseteq Range(nodes')
    <3> SUFFICES ASSUME NEW d \in members \cup suspended \cup listening PROVE d \in Range(nodes')
      OBVIOUS
    <3>1. PICK n \in DOMAIN nodes : nodes[n] = d
      BY <2>1 DEF RemoveInv, Range
    <3> QED
      BY <1>2, <2>3, <3>1 DEF Range
  <2>5. \A n \in DOMAIN nodes' : Settled(nodes[n])'
    <3>1. \A n \in DOMAIN nodes' : Settled(nodes[n]) /\ nodes'[n] = nodes[n]
      BY <1>2, <2>1 DEF RemoveInv
    <3> QED
      BY <1>1, <3>1 DEF Settled
  <2>6. CreateInv'
    BY <1>1, <1>2, <2>4, <2>5 DEF CreateInv
  <2>7. \A n \in DOMAIN nodes' : NodeOf(n, nodes[n])'
    BY <1>1, <1>2, <2>1 DEF NodeOf
  <2>8. ~(At("remove") \/ At("removed"))'
    BY <1>4 DEF At, TaskOps
  <2> QED
    BY <1>1, <2>1, <2>6, <2>7, <2>8 DEF NodeInv
<1>10. LeftInv'
  <2>1. ~\E n \in DOMAIN task : task[n].at \in {"add", "stop", "failed"}
    BY <1>0, <1>1 DEF TaskInv
  <2>2. \A d : ~Lost(d)
    BY <1>1, <2>1 DEF Lost
  <2> QED
    BY <1>0, <1>1, <2>2 DEF LeftInv
<1> QED
  BY <1>5, <1>6, <1>7, <1>8, <1>9, <1>10 DEF Inv

(* A step whose goroutines have created their nodes tracks them. *)
LEMMA CreatedKeepsInv ==
  ASSUME Inv, created
  PROVE  Inv'
<1>0. Types /\ PlanInv /\ TaskInv /\ KeepInv /\ VidInv /\ NodeInv /\ LeftInv
  BY DEF Inv
<1>1. /\ result = "running" /\ At("created") /\ plan # <<>> /\ plan' = Tail(plan)
      /\ nodes' = [n \in DOMAIN nodes \union DOMAIN task |->
                     IF n \in DOMAIN task THEN task[n].node ELSE nodes[n]]
      /\ validatorIds' = [n \in DOMAIN validatorIds \union {t \in DOMAIN task : task[t].id # 0} |->
                            IF n \in DOMAIN task /\ task[n].id # 0 THEN task[n].id
                            ELSE validatorIds[n]]
      /\ task' = <<>>
      /\ UNCHANGED <<result, step, steps, shutdown, registered, running,
                     members, suspended, listening, containers>>
  BY DEF created, Calls, Done, At, memberVars, appVars, chainVars
<1>2. DOMAIN task' = {}
  BY <1>1
<1>3. plan \in Seq(Ops) /\ Linked(plan) /\ Head(plan) = "created"
  BY <1>0, <1>1 DEF Types, PlanInv, At
<1>4. /\ plan' \in Seq(Ops) /\ Linked(plan')
      /\ Creating(plan') => Creating(plan)
      /\ plan' = <<>> \/ Head(plan') \notin TaskOps
      /\ ~Restarting(plan')
  <2>1. Changing(plan)
    BY <1>1, <1>3, TailFacts DEF Changing
  <2> QED
    BY <1>0, <1>1, <1>3, <2>1, TailFacts, TailIsLinked, TailIsTamer, NextCall DEF PlanInv
<1>5. Types'
  <2>1. \A n \in DOMAIN validatorIds' : validatorIds'[n] \in Nat \ {0}
    <3>1. \A n \in DOMAIN task : task[n].id \in Nat
      BY <1>0 DEF Types, TaskType
    <3> QED
      BY <1>0, <1>1, <3>1 DEF Types
  <2> QED
    BY <1>0, <1>1, <1>2, <1>4, <2>1 DEF Types
<1>6. PlanInv'
  BY <1>0, <1>1, <1>4 DEF PlanInv
<1>7. TaskInv'
  BY <1>1, <1>2, <1>4 DEF TaskInv, At, TaskOps
<1>8. KeepInv' /\ VidInv'
  <2>1. KeepInv'
    BY <1>2 DEF KeepInv
  <2>2. DOMAIN validatorIds' = Named /\ Named' = Named
    BY <1>1, <1>2 DEF Named
  <2>3. \A n \in Named : validatorIds'[n] = Ids[n]
    BY <1>0, <1>1 DEF KeepInv, Named, Ids
  <2>4. Ids' = Ids
    BY <2>2, <2>3 DEF Ids
  <2> QED
    BY <1>0, <1>1, <2>1, <2>2, <2>4 DEF VidInv
<1>9. NodeInv'
  <2>1. CreateInv /\ members \subseteq DOMAIN containers
        /\ \A m \in DOMAIN nodes : NodeOf(m, nodes[m])
    BY <1>0, <1>1 DEF NodeInv, At
  <2>2. \A n \in DOMAIN task :
          /\ task[n].at = "done" /\ NodeOf(n, task[n].node) /\ containers[task[n].node].up
          /\ task[n].node \notin Range(nodes) \cup suspended
          /\ task[n].node \in members /\ task[n].node \in listening
    BY <1>0, <1>1, <2>1 DEF TaskInv, CreateInv, Creates
  <2>3. \A n \in DOMAIN nodes : n \notin DOMAIN task
    <3> SUFFICES ASSUME NEW n \in DOMAIN nodes, n \in DOMAIN task PROVE FALSE
      OBVIOUS
    <3>1. /\ nodes[n] \in DOMAIN containers /\ containers[nodes[n]].name = n
          /\ containers[nodes[n]].up /\ nodes[n] \in Range(nodes)
      BY <2>1 DEF CreateInv, Settled, NodeOf, Range
    <3>2. /\ task[n].node \in DOMAIN containers /\ containers[task[n].node].name = n
          /\ containers[task[n].node].up /\ task[n].node # nodes[n]
      BY <2>2, <3>1 DEF NodeOf
    <3> QED
      BY <1>0, <3>1, <3>2 DEF VidInv
  <2>4. /\ DOMAIN nodes' = DOMAIN nodes \cup DOMAIN task
        /\ \A n \in DOMAIN nodes : nodes'[n] = nodes[n]
        /\ \A n \in DOMAIN task : nodes'[n] = task[n].node
    BY <1>1, <2>3
  <2>5. members \cup suspended \cup listening \subseteq Range(nodes')
    <3> SUFFICES ASSUME NEW d \in members \cup suspended \cup listening PROVE d \in Range(nodes')
      OBVIOUS
    <3>1. d \in Range(nodes) \/ \E n \in DOMAIN task : task[n].node = d
      BY <2>1 DEF CreateInv
    <3>2. (\E n \in DOMAIN nodes : nodes[n] = d) \/ \E n \in DOMAIN task : task[n].node = d
      BY <3>1 DEF Range
    <3> QED
      BY <2>4, <3>2 DEF Range
  <2>6. \A n \in DOMAIN nodes' : Settled(nodes[n])'
    <3>1. \A n \in DOMAIN nodes : Settled(nodes[n])
      BY <2>1 DEF CreateInv
    <3> QED
      BY <1>1, <2>2, <2>4, <3>1 DEF Settled
  <2>7. CreateInv'
    BY <1>1, <1>2, <2>5, <2>6 DEF CreateInv
  <2>8. \A n \in DOMAIN nodes' : NodeOf(n, nodes[n])'
    BY <1>1, <2>1, <2>2, <2>4 DEF NodeOf
  <2>9. ~(At("remove") \/ At("removed"))'
    BY <1>4 DEF At, TaskOps
  <2> QED
    BY <1>1, <2>1, <2>7, <2>8, <2>9 DEF NodeInv
<1>10. LeftInv'
  <2>1. ~\E n \in DOMAIN task : task[n].at \in {"add", "stop", "failed"}
    BY <1>0, <1>1 DEF TaskInv
  <2>2. \A d : ~Lost(d)
    BY <1>1, <2>1 DEF Lost
  <2> QED
    BY <1>0, <1>1, <2>2 DEF LeftInv
<1> QED
  BY <1>5, <1>6, <1>7, <1>8, <1>9, <1>10 DEF Inv

(* The nodes to be stopped are handed to goroutines. *)
LEMMA TargetsKeepInv ==
  ASSUME Inv, stopTargets
  PROVE  Inv'
<1>0. Types /\ PlanInv /\ TaskInv /\ KeepInv /\ VidInv /\ NodeInv /\ LeftInv
  BY DEF Inv
<1>d. PICK D : D = Targets(step.id)
  OBVIOUS
<1>1. /\ result = "running" /\ At("targets") /\ plan # <<>> /\ plan' = Tail(plan)
      /\ task' = [n \in D |-> [at |-> "notify", node |-> nodes[n], id |-> 0]]
      /\ D \subseteq DOMAIN nodes
      /\ UNCHANGED <<result, step, steps, shutdown, nodes, validatorIds, registered, running,
                     members, suspended, listening, containers>>
  BY <1>d DEF stopTargets, Calls, Done, At, runVars, memberVars, appVars, chainVars, Targets
<1>2. /\ DOMAIN task' = D /\ DOMAIN task = {}
      /\ \A n \in D : task'[n].at = "notify" /\ task'[n].node = nodes[n] /\ task'[n].id = 0
  BY <1>0, <1>1 DEF TaskInv, At, TaskOps
<1>3. plan \in Seq(Ops) /\ Linked(plan) /\ Head(plan) = "targets"
  BY <1>0, <1>1 DEF Types, PlanInv, At
<1>4. /\ plan' \in Seq(Ops) /\ Linked(plan') /\ plan' # <<>> /\ Head(plan') = "remove"
      /\ Creating(plan') => Creating(plan)
      /\ Restarting(plan') => Restarting(plan)
      /\ Changing(plan') => Changing(plan)
  BY <1>1, <1>3, TailFacts, TailIsLinked, TailIsTamer, NextCall
<1>a. CreateInv /\ members \subseteq DOMAIN containers
        /\ \A m \in DOMAIN nodes : NodeOf(m, nodes[m])
  BY <1>0, <1>1 DEF NodeInv, At
<1>5. Types'
  <2>1. \A n \in D : n \in Names /\ nodes[n] \in Nat
    <3>1. containers \in Seq(ContainerType)
      BY <1>0 DEF Types
    <3>2. \A d \in DOMAIN containers : d \in Nat /\ containers[d] \in ContainerType
      BY <3>1
    <3>3. \A d \in DOMAIN containers : containers[d].name \in Names
      BY <3>2 DEF ContainerType
    <3> QED
      BY <1>1, <1>a, <3>2, <3>3 DEF NodeOf
  <2>2. \A n \in D : task'[n] \in TaskType
    BY <1>1, <2>1 DEF TaskType
  <2> QED
    BY <1>0, <1>1, <1>2, <1>4, <2>1, <2>2 DEF Types
<1>6. PlanInv'
  BY <1>0, <1>1, <1>4 DEF PlanInv
<1>7. TaskInv'
  BY <1>1, <1>4 DEF TaskInv, At, TaskOps
<1>8. KeepInv' /\ VidInv'
  <2>1. KeepInv'
    BY <1>2 DEF KeepInv
  <2>2. Named = DOMAIN validatorIds /\ Named' = DOMAIN validatorIds
    BY <1>1, <1>2 DEF Named
  <2>3. Ids' = Ids
    BY <1>1, <2>2 DEF Ids
  <2> QED
    BY <1>0, <1>1, <2>1, <2>2, <2>3 DEF VidInv
<1>9. NodeInv'
  <2>1. members \cup suspended \cup listening \subseteq Range(nodes)
    BY <1>2, <1>a DEF CreateInv
  <2>2. \A n \in DOMAIN nodes : Settled(nodes[n])'
    BY <1>1, <1>a DEF CreateInv, Settled
  <2>3. \A n \in D : Removes(n)'
    BY <1>1, <1>2, <2>2 DEF Removes
  <2>4. RemoveInv'
    BY <1>1, <1>2, <2>1, <2>2, <2>3 DEF RemoveInv
  <2>5. At("remove")'
    BY <1>4 DEF At
  <2> QED
    BY <1>1, <1>a, <2>4, <2>5 DEF NodeInv, NodeOf
<1>10. LeftInv'
  <2>1. \A d : ~Lost(d)
    BY <1>1, <1>2 DEF Lost
  <2> QED
    BY <1>0, <1>1, <2>1 DEF LeftInv
<1> QED
  BY <1>5, <1>6, <1>7, <1>8, <1>9, <1>10 DEF Inv

-----------------------------------------------------------------------------
(* Validators are registered *)

(* The names of the instances of a step differ in their numbers. *)
LEMMA InstancesDiffer ==
  ASSUME NEW s, IsStep(s), s.fn = "startNode"
  PROVE  /\ IsFiniteSet(InstanceNames(s)) /\ InstanceNames(s) \subseteq Names
         /\ \A n, m \in InstanceNames(s) : n[2] = m[2] => n = m
<1>1. s.id \in Names /\ s.instances \in Nat \ {0}
  BY DEF IsStep
<1>2. CASE s.instances = 1
  <2>1. InstanceNames(s) = {s.id}
    BY <1>2 DEF InstanceNames
  <2> QED
    BY <1>1, <2>1, FS_Singleton
<1>3. CASE s.instances # 1
  <2> DEFINE b == s.id[1]
             I == 1 .. s.instances
             f == [k \in I |-> <<b, k>>]
  <2>1. b \in STRING
    BY <1>1 DEF Names
  <2>2. InstanceNames(s) = {<<b, k>> : k \in I}
    BY <1>3 DEF InstanceNames
  <2>3. IsFiniteSet(I)
    BY <1>1, FS_Interval
  <2>4. InstanceNames(s) = {f[k] : k \in I}
    BY <2>2
  <2>5. \A n \in InstanceNames(s) : n \in Names /\ n = <<b, n[2]>>
    BY <1>1, <2>1, <2>2 DEF Names
  <2>6. IsFiniteSet({f[k] : k \in I})
    <3> HIDE DEF I
    <3>1. f \in Surjection(I, {f[k] : k \in I})
      BY DEF Surjection
    <3> QED
      BY <2>3, <3>1, FS_Surjection
  <2> QED
    BY <2>4, <2>5, <2>6
<1> QED
  BY <1>2, <1>3

(* The new IDs are different ones, and follow the last one. *)
LEMMA NewIdsDiffer ==
  ASSUME NEW names, IsFiniteSet(names), names \subseteq Names,
         \A n, m \in names : n[2] = m[2] => n = m,
         registered \in Nat
  PROVE  /\ Cardinality(names) \in Nat
         /\ DOMAIN newIds(names) = names
         /\ \A n \in names :
              newIds(names)[n] \in (registered + 1) .. (registered + Cardinality(names))
         /\ \A n, m \in names : n # m => newIds(names)[n] # newIds(names)[m]
<1> DEFINE below(n) == {o \in names : o[2] <= n[2]}
<1>1. \A n \in names : newIds(names)[n] = registered + Cardinality(below(n))
  BY DEF newIds
<1>2. DOMAIN newIds(names) = names
  BY DEF newIds
<1>3. \A n \in names : n[2] \in Nat
  BY DEF Names
<1>4. \A n \in names : n \in below(n) /\ below(n) \in SUBSET names
  BY <1>3
<1>5. \A n, m \in names : n # m =>
        \/ below(n) \in SUBSET below(m) /\ below(n) # below(m)
        \/ below(m) \in SUBSET below(n) /\ below(n) # below(m)
  <2> SUFFICES ASSUME NEW n \in names, NEW m \in names, n # m
               PROVE  \/ below(n) \in SUBSET below(m) /\ below(n) # below(m)
                      \/ below(m) \in SUBSET below(n) /\ below(n) # below(m)
    OBVIOUS
  <2>1. n[2] \in Nat /\ m[2] \in Nat /\ n[2] # m[2]
    BY <1>3
  <2>2. CASE n[2] < m[2]
    <3>1. \A o \in names : o[2] <= n[2] => o[2] <= m[2]
      BY <1>3, <2>1, <2>2
    <3>2. m \notin below(n)
      BY <2>1, <2>2
    <3> QED
      BY <1>4, <3>1, <3>2
  <2>3. CASE m[2] < n[2]
    <3>1. \A o \in names : o[2] <= m[2] => o[2] <= n[2]
      BY <1>3, <2>1, <2>3
    <3>2. n \notin below(m)
      BY <2>1, <2>3
    <3> QED
      BY <1>4, <3>1, <3>2
  <2> QED
    BY <2>1, <2>2, <2>3
<1> HIDE DEF below
<1>6. Cardinality(names) \in Nat
  BY FS_CardinalityType
<1>7. \A n \in names : /\ IsFiniteSet(below(n))
                       /\ Cardinality(below(n)) <= Cardinality(names)
                       /\ Cardinality(below(n)) \in Nat \ {0}
  <2> SUFFICES ASSUME NEW n \in names
               PROVE  /\ IsFiniteSet(below(n))
                      /\ Cardinality(below(n)) <= Cardinality(names)
                      /\ Cardinality(below(n)) \in Nat \ {0}
    OBVIOUS
  <2>1. IsFiniteSet(below(n)) /\ Cardinality(below(n)) <= Cardinality(names)
    BY <1>4, FS_Subset
  <2>2. Cardinality(below(n)) \in Nat
    BY <2>1, FS_CardinalityType
  <2>3. Cardinality(below(n)) # 0
    BY <1>4, <2>1, FS_EmptySet
  <2> QED
    BY <2>1, <2>2, <2>3
<1>8. \A n, m \in names : n # m => Cardinality(below(n)) # Cardinality(below(m))
  <2> SUFFICES ASSUME NEW n \in names, NEW m \in names, n # m
               PROVE  Cardinality(below(n)) # Cardinality(below(m))
    OBVIOUS
  <2>1. CASE below(n) \in SUBSET below(m) /\ below(n) # below(m)
    BY <1>7, <2>1, FS_Subset
  <2>2. CASE below(m) \in SUBSET below(n) /\ below(n) # below(m)
    BY <1>7, <2>2, FS_Subset
  <2> QED
    BY <1>5, <2>1, <2>2
<1>9. \A n \in names :
        newIds(names)[n] \in (registered + 1) .. (registered + Cardinality(names))
  BY <1>1, <1>6, <1>7
<1>10. \A n, m \in names : n # m => newIds(names)[n] # newIds(names)[m]
  BY <1>1, <1>7, <1>8
<1> QED
  BY <1>2, <1>6, <1>9, <1>10

(* The instances of a step get the validators of their names, or new ones. *)
LEMMA RegisterKeepsInv ==
  ASSUME Inv, register
  PROVE  Inv'
<1>0. Types /\ PlanInv /\ TaskInv /\ KeepInv /\ VidInv /\ NodeInv /\ LeftInv
  BY DEF Inv
<1>1. PICK I, new, ids :
        /\ I = InstanceNames(step)
        /\ new = Unregistered(step)
        /\ ids = newIds(new)
  OBVIOUS
<1>2. PICK idOf :
        /\ idOf = [n \in I |-> CASE step.type # "validator" -> 0
                                 [] n \in new -> ids[n]
                                 [] OTHER -> validatorIds[n]]
        /\ registered' = registered + Cardinality(new)
        /\ task' = [n \in I |-> [at |-> "start", node |-> 0, id |-> idOf[n]]]
  BY <1>1 DEF register
<1>3. /\ result = "running" /\ At("register") /\ plan # <<>> /\ plan' = Tail(plan)
      /\ UNCHANGED <<result, step, steps, shutdown, nodes, validatorIds, running,
                     members, suspended, listening, containers>>
  BY DEF register, Calls, Done, At, runVars, memberVars, appVars
<1>4. plan \in Seq(Ops) /\ Linked(plan) /\ Head(plan) = "register" /\ DOMAIN task = {}
  BY <1>0, <1>3 DEF Types, PlanInv, At, TaskInv, TaskOps
<1>5. /\ plan' \in Seq(Ops) /\ Linked(plan') /\ plan' # <<>> /\ Head(plan') = "create"
      /\ Creating(plan') => Creating(plan)
      /\ Restarting(plan') => Restarting(plan)
      /\ Changing(plan') => Changing(plan)
  BY <1>3, <1>4, TailFacts, TailIsLinked, TailIsTamer, NextCall
<1>6. step.fn = "startNode" /\ IsStep(step)
  <2>1. Creating(plan')
    BY <1>5, TailFacts DEF Creating
  <2> QED
    BY <1>0, <1>3, <1>5, <2>1 DEF PlanInv, Types
<1>7. /\ IsFiniteSet(I) /\ I \subseteq Names
      /\ \A n, m \in I : n[2] = m[2] => n = m
  BY <1>1, <1>6, InstancesDiffer
<1>8. /\ new \subseteq I \ DOMAIN validatorIds
      /\ step.type = "validator" => new = I \ DOMAIN validatorIds
  BY <1>1 DEF Unregistered
<1>9. /\ registered \in Nat /\ Cardinality(new) \in Nat
      /\ \A n \in new : ids[n] \in (registered + 1) .. (registered + Cardinality(new))
      /\ \A n, m \in new : n # m => ids[n] # ids[m]
  <2>1. IsFiniteSet(new)
    BY <1>7, <1>8, FS_Subset
  <2>2. registered \in Nat
    BY <1>0 DEF Types
  <2>3. new \subseteq Names /\ \A n, m \in new : n[2] = m[2] => n = m
    BY <1>7, <1>8
  <2> QED
    BY <1>1, <2>1, <2>2, <2>3, NewIdsDiffer
<1>10. \A n \in I : /\ step.type # "validator" => idOf[n] = 0
                    /\ step.type = "validator" /\ n \in new => idOf[n] = ids[n]
                    /\ step.type = "validator" /\ n \notin new =>
                         n \in DOMAIN validatorIds /\ idOf[n] = validatorIds[n]
  <2>1. idOf = [n \in I |-> CASE step.type # "validator" -> 0
                               [] n \in new -> ids[n]
                               [] OTHER -> validatorIds[n]]
    BY <1>2
  <2>2. \A n \in I : step.type = "validator" /\ n \notin new => n \in DOMAIN validatorIds
    BY <1>8
  <2>3. ASSUME NEW n \in I, step.type # "validator" PROVE idOf[n] = 0
    <3>1. step.type # "validator" => n \notin new
      BY <1>1 DEF Unregistered
    <3> QED
      BY <2>1, <2>3, <3>1
  <2>4. ASSUME NEW n \in I, step.type = "validator" PROVE
               (n \in new => idOf[n] = ids[n]) /\ (n \notin new => idOf[n] = validatorIds[n])
    BY <2>1, <2>4
  <2> QED
    BY <2>2, <2>3, <2>4
<1>11. \A n \in I : idOf[n] \in Nat
  BY <1>0, <1>9, <1>10 DEF Types
<1>12. /\ DOMAIN task' = I
       /\ \A n \in I : task'[n].at = "start" /\ task'[n].node = 0 /\ task'[n].id = idOf[n]
  BY <1>2
<1>13. Types'
  <2>1. \A n \in I : task'[n] \in TaskType
    BY <1>2, <1>11 DEF TaskType
  <2>2. registered' \in Nat
    BY <1>2, <1>9
  <2> QED
    BY <1>0, <1>3, <1>5, <1>7, <1>12, <2>1, <2>2 DEF Types
<1>14. PlanInv'
  BY <1>0, <1>3, <1>5 DEF PlanInv
<1>15. TaskInv'
  BY <1>3, <1>5 DEF TaskInv, At, TaskOps
<1>16. KeepInv'
  BY <1>3, <1>8, <1>10, <1>12 DEF KeepInv
<1>17. VidInv'
  <2>1. Named = DOMAIN validatorIds /\ \A n \in Named : Ids[n] = validatorIds[n]
    BY <1>4 DEF Named, Ids
  <2>2. /\ Named' = DOMAIN validatorIds \cup {n \in I : idOf[n] # 0}
        /\ \A n \in Named' : Ids'[n] = IF n \in DOMAIN validatorIds THEN validatorIds[n] ELSE idOf[n]
    BY <1>3, <1>12 DEF Named, Ids
  <2>3. \A n \in Named' :
          \/ n \in DOMAIN validatorIds /\ Ids'[n] = validatorIds[n]
          \/ n \in new /\ n \notin DOMAIN validatorIds /\ Ids'[n] = ids[n]
    BY <1>8, <1>10, <2>2
  <2>4. /\ \A n \in DOMAIN validatorIds : validatorIds[n] \in 1 .. registered
        /\ \A n, m \in DOMAIN validatorIds : n # m => validatorIds[n] # validatorIds[m]
    BY <1>0, <2>1 DEF VidInv
  <2>5. \A n \in Named' : Ids'[n] \in 1 .. registered'
    BY <1>2, <1>9, <2>3, <2>4
  <2>6. \A n, m \in Named' : n # m => Ids'[n] # Ids'[m]
    <3> SUFFICES ASSUME NEW n \in Named', NEW m \in Named', n # m PROVE Ids'[n] # Ids'[m]
      OBVIOUS
    <3>1. CASE n \in DOMAIN validatorIds /\ m \in DOMAIN validatorIds
      BY <2>3, <2>4, <1>8, <3>1
    <3>2. CASE n \in new /\ m \in new
      BY <2>3, <1>8, <1>9, <3>2
    <3>3. CASE n \in DOMAIN validatorIds /\ m \in new
      BY <2>3, <2>4, <1>8, <1>9, <3>3
    <3>4. CASE n \in new /\ m \in DOMAIN validatorIds
      BY <2>3, <2>4, <1>8, <1>9, <3>4
    <3> QED
      BY <2>3, <3>1, <3>2, <3>3, <3>4
  <2>7. \A c \in DOMAIN containers : containers[c].vid # 0 =>
          containers[c].name \in Named' /\ containers[c].vid = Ids'[containers[c].name]
    BY <1>0, <2>1, <2>2 DEF VidInv
  <2> QED
    BY <1>0, <1>3, <2>5, <2>6, <2>7 DEF VidInv
<1>18. NodeInv'
  <2>1. CreateInv /\ members \subseteq DOMAIN containers
        /\ \A m \in DOMAIN nodes : NodeOf(m, nodes[m])
    BY <1>0, <1>3 DEF NodeInv, At
  <2>2. members \cup suspended \cup listening \subseteq Range(nodes)
    BY <1>4, <2>1 DEF CreateInv
  <2>3. \A n \in DOMAIN nodes : Settled(nodes[n])'
    BY <1>3, <2>1 DEF CreateInv, Settled
  <2>4. \A n \in I : Creates(n)'
    BY <1>12 DEF Creates
  <2>5. CreateInv'
    BY <1>3, <1>12, <2>2, <2>3, <2>4 DEF CreateInv
  <2>6. ~(At("remove") \/ At("removed"))'
    BY <1>5 DEF At
  <2> QED
    BY <1>3, <2>1, <2>5, <2>6 DEF NodeInv, NodeOf
<1>19. LeftInv'
  <2>1. \A d : ~Lost(d)
    BY <1>3, <1>4 DEF Lost
  <2> QED
    BY <1>0, <1>3, <2>1 DEF LeftInv
<1> QED
  BY <1>13, <1>14, <1>15, <1>16, <1>17, <1>18, <1>19 DEF Inv

-----------------------------------------------------------------------------
(* Nodes that are suspended, or brought back *)

(* At a call outside the fan-outs no goroutine is at work. *)
LEMMA CallAlone ==
  ASSUME Inv, NEW op, Calls(op), op \notin TaskOps
  PROVE  /\ DOMAIN task = {} /\ CreateInv
         /\ plan \in Seq(Ops) /\ plan # <<>> /\ Head(plan) = op
         /\ members \cup suspended \cup listening \subseteq Range(nodes)
         /\ \A d : ~Lost(d)
<1>1. plan # <<>> /\ Head(plan) = op /\ result = "running" /\ Types /\ TaskInv /\ NodeInv
  BY DEF Calls, Inv
<1>2. DOMAIN task = {} /\ plan \in Seq(Ops)
  BY <1>1 DEF TaskInv, Types
<1>3. ~(At("remove") \/ At("removed"))
  BY <1>1 DEF At, TaskOps
<1>4. CreateInv
  BY <1>1, <1>3 DEF NodeInv
<1> QED
  BY <1>1, <1>2, <1>4 DEF CreateInv, Lost

(* A call of a restart is about a tracked node. *)
LEMMA RestartsTracked ==
  ASSUME Inv, NEW op \in {"reconnect", "resume"}, Calls(op)
  PROVE  step.fn = "startNode" /\ step.id \in DOMAIN nodes
<1>1. plan \in Seq(Ops) /\ plan # <<>> /\ Head(plan) = op
  BY DEF Calls, Inv, Types
<1>2. Restarting(plan)
  BY <1>1, TailFacts DEF Restarting
<1> QED
  BY <1>2 DEF Inv, PlanInv

(* What a change of the members and the listeners leaves alone *)
LEMMA MemberStep ==
  ASSUME Inv, NEW op, Calls(op), op \notin TaskOps \cup {"register", "targets"},
         Done \/ Fail, UNCHANGED <<nodes, validatorIds, task, registered, containers>>
  PROVE  /\ Types' /\ PlanInv' /\ TaskInv' /\ KeepInv' /\ VidInv'
         /\ result' = "running" => ~(At("remove") \/ At("removed"))'
<1>0. Types /\ PlanInv /\ TaskInv /\ KeepInv /\ VidInv /\ NodeInv /\ LeftInv
  BY DEF Inv
<1>1. DOMAIN task = {} /\ plan \in Seq(Ops) /\ plan # <<>> /\ Head(plan) = op /\ Linked(plan)
      /\ op \notin TaskOps
  BY <1>0, CallAlone DEF PlanInv
<1>2. /\ plan' \in Seq(Ops) /\ Linked(plan')
      /\ Creating(plan') => Creating(plan)
      /\ Restarting(plan') => Restarting(plan)
      /\ Changing(plan') => Changing(plan)
      /\ plan' = <<>> \/ Head(plan') \notin TaskOps
  <2>1. CASE Done
    <3>1. plan' = Tail(plan)
      BY <2>1 DEF Done
    <3>2. Head(plan) \notin {"register", "create", "targets", "remove"}
      BY <1>1 DEF TaskOps
    <3> QED
      BY <1>1, <3>1, <3>2, TailFacts, TailIsLinked, TailIsTamer, NextCall
  <2>2. CASE Fail
    <3>1. plan' = <<>>
      BY <2>2 DEF Fail
    <3> QED
      BY <3>1 DEF Linked, Creating, Restarting, Changing
  <2> QED
    BY <2>1, <2>2
<1>3. /\ result = "running" /\ result' \in {"running", "error"} /\ UNCHANGED <<step, steps>>
      /\ result' # "running" => plan' = <<>>
  BY DEF Calls, Done, Fail
<1>4. Types'
  BY <1>0, <1>2, <1>3 DEF Types
<1>5. PlanInv'
  BY <1>0, <1>2, <1>3 DEF PlanInv
<1>6. TaskInv'
  BY <1>1, <1>2, <1>3 DEF TaskInv, At, TaskOps, TasksReturned
<1>7. KeepInv'
  BY <1>0 DEF KeepInv
<1>8. VidInv'
  <2>1. Named' = Named /\ Ids' = Ids
    BY DEF Named, Ids
  <2> QED
    BY <1>0, <2>1 DEF VidInv
<1>9. ~(At("remove") \/ At("removed"))'
  BY <1>2 DEF At, TaskOps
<1> QED
  BY <1>4, <1>5, <1>6, <1>7, <1>8, <1>9

(* A node is suspended, or resumed, and the listeners are told. *)
LEMMA SuspendKeepsInv ==
  ASSUME Inv, SuspendNode \/ ResumeNode
  PROVE  Inv'
<1>0. Types /\ PlanInv /\ TaskInv /\ KeepInv /\ VidInv /\ NodeInv /\ LeftInv
  BY DEF Inv
<1>1. /\ Done /\ UNCHANGED <<nodes, validatorIds, task, registered, containers, members, running>>
  BY DEF SuspendNode, ResumeNode, runVars, taskVars, chainVars, appVars
<1>2. PICK op \in {"suspend", "resume"} : Calls(op)
  BY DEF SuspendNode, ResumeNode
<1>3. op \notin TaskOps \cup {"register", "targets"} /\ op \notin TaskOps
  BY DEF TaskOps
<1>4. Types' /\ PlanInv' /\ TaskInv' /\ KeepInv' /\ VidInv'
      /\ (result' = "running" => ~(At("remove") \/ At("removed"))')
  BY <1>1, <1>2, <1>3, MemberStep
<1>5. /\ DOMAIN task = {} /\ CreateInv
      /\ members \cup suspended \cup listening \subseteq Range(nodes)
      /\ \A d : ~Lost(d)
  BY <1>2, <1>3, CallAlone
<1>6. step.id \in DOMAIN nodes
  BY RestartsTracked DEF SuspendNode, ResumeNode
<1>c. PICK c : c = nodes[step.id]
  OBVIOUS
<1>7. /\ c \in Range(nodes)
      /\ \/ suspended' = suspended \cup {c} /\ listening' = listening \ {c}
         \/ suspended' = suspended \ {c} /\ listening' = listening \cup {c}
  BY <1>6, <1>c DEF SuspendNode, ResumeNode, Range
<1>8. NodeInv'
  <2>1. \A m \in DOMAIN nodes : NodeOf(m, nodes[m])
    BY <1>0 DEF NodeInv
  <2>2. \A m \in DOMAIN nodes : Settled(nodes[m])'
    BY <1>1, <1>5, <1>7 DEF CreateInv, Settled
  <2>3. (members \cup suspended \cup listening \subseteq Range(nodes))'
    BY <1>1, <1>5, <1>7
  <2>4. CreateInv'
    BY <1>1, <1>5, <2>2, <2>3 DEF CreateInv
  <2>5. result' = "running"
    BY <1>1, <1>2 DEF Done, Calls
  <2> QED
    BY <1>0, <1>1, <1>4, <2>1, <2>4, <2>5 DEF NodeInv, NodeOf
<1>9. LeftInv'
  BY <1>0, <1>1, <1>5 DEF LeftInv, Done
<1> QED
  BY <1>4, <1>8, <1>9 DEF Inv

(* A node joins again, or is lost with the step. *)
LEMMA ReconnectKeepsInv ==
  ASSUME Inv, ReconnectNode
  PROVE  Inv'
<1>0. Types /\ PlanInv /\ TaskInv /\ KeepInv /\ VidInv /\ NodeInv /\ LeftInv
  BY DEF Inv
<1>c. PICK c : c = nodes[step.id]
  OBVIOUS
<1>1. /\ UNCHANGED <<nodes, validatorIds, task, registered, containers, suspended, listening,
                     running>>
      /\ Calls("reconnect")
      /\ \/ members' = members \cup {c} /\ Done
         \/ members' = members \ {c} /\ Fail
  BY <1>c DEF ReconnectNode, runVars, taskVars, chainVars, appVars
<1>3. "reconnect" \notin TaskOps \cup {"register", "targets"} /\ "reconnect" \notin TaskOps
  BY DEF TaskOps
<1>4. Types' /\ PlanInv' /\ TaskInv' /\ KeepInv' /\ VidInv'
      /\ (result' = "running" => ~(At("remove") \/ At("removed"))')
  BY <1>1, <1>3, MemberStep
<1>5. /\ DOMAIN task = {} /\ CreateInv
      /\ members \cup suspended \cup listening \subseteq Range(nodes)
      /\ \A d : ~Lost(d)
  BY <1>1, <1>3, CallAlone
<1>6. step.id \in DOMAIN nodes /\ step.fn = "startNode"
  BY <1>1, RestartsTracked
<1>7. c \in members /\ c \in DOMAIN containers
  BY <1>0, <1>5, <1>6, <1>c DEF CreateInv, Settled, NodeInv
<1>8. NodeInv'
  <2>1. /\ \A m \in DOMAIN nodes : NodeOf(m, nodes[m])
        /\ members \subseteq DOMAIN containers
    BY <1>0 DEF NodeInv
  <2>2. CASE Done
    <3>1. members' = members /\ result' = "running"
      BY <1>1, <1>7, <2>2 DEF Done, Fail, Calls
    <3>2. \A m \in DOMAIN nodes : Settled(nodes[m])'
      BY <1>1, <1>5, <3>1 DEF CreateInv, Settled
    <3>3. CreateInv'
      BY <1>1, <1>5, <3>1, <3>2 DEF CreateInv
    <3> QED
      BY <1>1, <1>4, <2>1, <3>1, <3>3 DEF NodeInv, NodeOf
  <2>3. CASE Fail
    <3>1. result' = "error" /\ members' \subseteq DOMAIN containers
      BY <1>1, <1>7, <2>1, <2>3 DEF Fail
    <3> QED
      BY <1>1, <2>1, <3>1 DEF NodeInv, NodeOf
  <2> QED
    BY <1>1, <2>2, <2>3
<1>9. LeftInv'
  <2>1. UNCHANGED <<step, shutdown>> /\ shutdown.phase = "no"
    BY <1>0, <1>1 DEF Done, Fail, LeftInv, Calls
  <2>2. \A d \in DOMAIN containers \ shutdown.left : containers[d].up => d \in members
    BY <1>0, <1>5 DEF LeftInv
  <2>3. CASE Done
    <3>1. members' = members
      BY <1>1, <1>7, <2>3 DEF Done, Fail, Calls
    <3> QED
      BY <1>0, <1>1, <2>1, <2>2, <3>1 DEF LeftInv
  <2>4. CASE Fail
    <3>1. Lost(c)'
      BY <1>1, <1>6, <1>c, <2>1, <2>4 DEF Lost, Fail
    <3>2. \A d \in members : d \in members' \/ d = c
      BY <1>1
    <3> QED
      BY <1>0, <1>1, <2>1, <2>2, <3>1, <3>2 DEF LeftInv
  <2> QED
    BY <1>1, <2>3, <2>4
<1> QED
  BY <1>4, <1>8, <1>9 DEF Inv

-----------------------------------------------------------------------------
(* The start and the end of a scenario *)

(* The invariant holds initially. *)
LEMMA InitInv ==
  ASSUME Init
  PROVE  Inv
<1>1. /\ result = "checking" /\ plan = <<>> /\ steps = 0
      /\ shutdown = [phase |-> "no", left |-> {}]
      /\ nodes = <<>> /\ validatorIds = <<>> /\ containers = <<>> /\ task = <<>>
      /\ members = {} /\ suspended = {} /\ listening = {} /\ registered = 0
  BY DEF Init
<1>2. DOMAIN nodes = {} /\ DOMAIN validatorIds = {} /\ DOMAIN containers = {} /\ DOMAIN task = {}
  BY <1>1
<1>3. Types
  BY <1>1, <1>2 DEF Types
<1>4. PlanInv
  BY <1>1 DEF PlanInv, Linked, Restarting, Creating
<1>5. TaskInv
  BY <1>1, <1>2 DEF TaskInv
<1>6. KeepInv /\ VidInv
  BY <1>2 DEF KeepInv, VidInv, Named
<1>7. NodeInv
  BY <1>1, <1>2 DEF NodeInv, At, CreateInv
<1>8. LeftInv
  BY <1>1, <1>2 DEF LeftInv
<1> QED
  BY <1>3, <1>4, <1>5, <1>6, <1>7, <1>8 DEF Inv

(* The validators of the first step are those of the genesis. *)
LEMMA StartScenarioKeepsInv ==
  ASSUME Inv, NEW s \in Steps[1], StartScenario(s)
  PROVE  Inv'
<1>0. Types /\ PlanInv /\ TaskInv /\ KeepInv /\ VidInv /\ NodeInv /\ LeftInv
  BY DEF Inv
<1>1. /\ result = "checking" /\ result' = "running" /\ step' = s /\ plan' = stepPlan(s)
      /\ steps' = 1 /\ validatorIds' = genesisIds(s) /\ registered' = s.instances
      /\ StepCheck(s) /\ s.fn = "startNode"
      /\ UNCHANGED <<shutdown, nodes, members, suspended, listening, containers, task>>
  BY DEF StartScenario, IsBootstrap, memberVars, taskVars
<1>2. IsStep(s) /\ s.instances \in Nat \ {0}
  <2>1. 1 \in DOMAIN Steps
    BY ScenarioAssumption
  <2>2. IsStep(s)
    BY <1>1, <2>1, CheckedStep
  <2> QED
    BY <1>1, <2>2 DEF IsStep
<1>3. DOMAIN task = {} /\ DOMAIN validatorIds = {} /\ plan = <<>>
  BY <1>0, <1>1 DEF Types, TaskInv
<1>4. /\ plan' \in Seq(Ops) /\ Linked(plan') /\ plan' # <<>> /\ Head(plan') \notin TaskOps
      /\ Restarting(plan') => ~Changing(plan') /\ s.id \in DOMAIN nodes
  BY <1>1, <1>2, StepPlans DEF Sound
<1>5. /\ DOMAIN validatorIds' = InstanceNames(s)
      /\ \A n \in InstanceNames(s) : validatorIds'[n] \in 1 .. s.instances
      /\ \A n, m \in InstanceNames(s) : n # m => validatorIds'[n] # validatorIds'[m]
  <2>1. CASE s.instances = 1
    BY <1>1, <2>1 DEF genesisIds, InstanceNames
  <2>2. CASE s.instances # 1
    <3>1. validatorIds' = [n \in InstanceNames(s) |-> n[2]]
      BY <1>1, <2>2 DEF genesisIds
    <3>2. \A n \in InstanceNames(s) : n[2] \in 1 .. s.instances
      BY <2>2 DEF InstanceNames
    <3>3. \A n, m \in InstanceNames(s) : n[2] = m[2] => n = m
      BY <1>1, <1>2, InstancesDiffer
    <3> QED
      BY <3>1, <3>2, <3>3
  <2> QED
    BY <2>1, <2>2
<1>6. Types'
  <2>1. \A n \in DOMAIN validatorIds' : validatorIds'[n] \in Nat \ {0}
    BY <1>2, <1>5
  <2>2. steps' \in Nat /\ registered' \in Nat
    BY <1>1, <1>2
  <2> QED
    BY <1>0, <1>1, <1>2, <1>3, <1>4, <2>1, <2>2 DEF Types
<1>7. PlanInv'
  BY <1>1, <1>4 DEF PlanInv
<1>8. TaskInv'
  BY <1>1, <1>3, <1>4 DEF TaskInv, At, TaskOps
<1>9. KeepInv' /\ VidInv'
  <2>1. KeepInv'
    BY <1>1, <1>3 DEF KeepInv
  <2>2. Named' = InstanceNames(s) /\ \A n \in Named' : Ids'[n] = validatorIds'[n]
    BY <1>1, <1>3, <1>5 DEF Named, Ids
  <2>3. Named = {}
    BY <1>3 DEF Named
  <2>4. \A c \in DOMAIN containers : containers[c].vid = 0
    BY <1>0, <2>3 DEF VidInv
  <2>5. \A n \in Named' : Ids'[n] \in 1 .. registered'
    BY <1>1, <1>5, <2>2
  <2>6. \A n, m \in Named' : n # m => Ids'[n] # Ids'[m]
    BY <1>5, <2>2
  <2> QED
    BY <1>0, <1>1, <2>1, <2>4, <2>5, <2>6 DEF VidInv
<1>10. NodeInv'
  <2>1. CreateInv /\ members \subseteq DOMAIN containers
        /\ \A m \in DOMAIN nodes : NodeOf(m, nodes[m])
    BY <1>0, <1>1, <1>3 DEF NodeInv, At
  <2>2. \A m \in DOMAIN nodes : Settled(nodes[m])'
    BY <1>1, <2>1 DEF CreateInv, Settled
  <2>3. CreateInv'
    BY <1>1, <1>3, <2>1, <2>2 DEF CreateInv
  <2>4. ~(At("remove") \/ At("removed"))'
    BY <1>4 DEF At, TaskOps
  <2> QED
    BY <1>1, <2>1, <2>3, <2>4 DEF NodeInv, NodeOf
<1>11. LeftInv'
  <2>1. \A d : ~Lost(d)
    BY <1>1, <1>3 DEF Lost
  <2> QED
    BY <1>0, <1>1, <2>1 DEF LeftInv
<1> QED
  BY <1>6, <1>7, <1>8, <1>9, <1>10, <1>11 DEF Inv

(* Once the scenario has ended, members are only stopped. *)
ShutdownStep ==
  /\ result \in {"ok", "error"}
  /\ UNCHANGED <<result, step, plan, steps, nodes, validatorIds, task, registered>>
  /\ members' \subseteq members
  /\ containers' \in Seq(ContainerType) /\ DOMAIN containers' = DOMAIN containers
  /\ \A d \in DOMAIN containers :
       /\ containers'[d].name = containers[d].name /\ containers'[d].vid = containers[d].vid
       /\ containers'[d].up => containers[d].up

(* Such a step does no harm to the rest of the state. *)
LEMMA ShutdownFrame ==
  ASSUME Inv, ShutdownStep
  PROVE  /\ Types' /\ PlanInv' /\ TaskInv' /\ KeepInv' /\ VidInv' /\ NodeInv'
         /\ \A d : Lost(d) => Lost(d)'
<1>0. Types /\ PlanInv /\ TaskInv /\ KeepInv /\ VidInv /\ NodeInv
  BY DEF Inv
<1>1. /\ result \in {"ok", "error"} /\ members' \subseteq members
      /\ UNCHANGED <<result, step, plan, steps, nodes, validatorIds, task, registered>>
  BY DEF ShutdownStep
<1>2. /\ containers' \in Seq(ContainerType) /\ DOMAIN containers' = DOMAIN containers
      /\ \A d \in DOMAIN containers :
           /\ containers'[d].name = containers[d].name /\ containers'[d].vid = containers[d].vid
           /\ containers'[d].up => containers[d].up
  BY DEF ShutdownStep
<1>3. Types'
  BY <1>0, <1>1, <1>2 DEF Types
<1>4. PlanInv'
  BY <1>0, <1>1 DEF PlanInv, Linked, Restarting, Changing, Creating
<1>5. TaskInv'
  BY <1>0, <1>1 DEF TaskInv, TasksReturned
<1>6. KeepInv' /\ VidInv'
  <2>1. Named' = Named /\ Ids' = Ids
    BY <1>1 DEF Named, Ids
  <2>2. KeepInv'
    BY <1>0, <1>1 DEF KeepInv
  <2>3. \A c \in DOMAIN containers' : containers'[c].vid # 0 =>
          containers'[c].name \in Named /\ containers'[c].vid = Ids[containers'[c].name]
    BY <1>0, <1>2 DEF VidInv
  <2>4. \A c, d \in DOMAIN containers' :
          c # d /\ containers'[c].up /\ containers'[d].up => containers'[c].name # containers'[d].name
    BY <1>0, <1>2 DEF VidInv
  <2>5. /\ \A n \in Named : Ids[n] \in 1 .. registered
        /\ \A n, m \in Named : n # m => Ids[n] # Ids[m]
    BY <1>0 DEF VidInv
  <2>6. registered' = registered
    BY <1>1
  <2> QED
    BY <2>1, <2>2, <2>3, <2>4, <2>5, <2>6 DEF VidInv
<1>7. NodeInv'
  BY <1>0, <1>1, <1>2 DEF NodeInv, NodeOf
<1>8. \A d : Lost(d) => Lost(d)'
  BY <1>1 DEF Lost
<1> QED
  BY <1>3, <1>4, <1>5, <1>6, <1>7, <1>8

(* The applications are stopped first. *)
LEMMA ShutdownAppsKeepsInv ==
  ASSUME Inv, (\E app : ShutdownApp(app)) \/ ShutdownApps
  PROVE  Inv'
<1>0. Types /\ LeftInv
  BY DEF Inv
<1>1. /\ result \in {"ok", "error"} /\ shutdown.phase = "no"
      /\ UNCHANGED <<result, step, plan, steps, nodes, validatorIds, task, registered, members,
                     containers>>
      /\ \/ UNCHANGED shutdown
         \/ running' = {} /\ shutdown' = [shutdown EXCEPT !.phase = "nodes"]
  BY DEF ShutdownApp, ShutdownApps, ctlVars, runVars, memberVars, taskVars, chainVars
<1>2. ShutdownStep
  BY <1>0, <1>1 DEF ShutdownStep, Types
<1>3. /\ Types' /\ PlanInv' /\ TaskInv' /\ KeepInv' /\ VidInv' /\ NodeInv'
      /\ \A d : Lost(d) => Lost(d)'
  BY <1>2, ShutdownFrame
<1>4. LeftInv'
  <2>1. CASE UNCHANGED shutdown
    BY <1>0, <1>1, <1>3, <2>1 DEF LeftInv
  <2>2. CASE running' = {} /\ shutdown' = [shutdown EXCEPT !.phase = "nodes"]
    <3>1. /\ shutdown' \in [phase : {"no", "nodes", "done"}, left : SUBSET Nat]
          /\ shutdown'.phase = "nodes" /\ shutdown'.left = shutdown.left
      BY <1>0, <2>2 DEF LeftInv
    <3> QED
      BY <1>0, <1>1, <1>3, <2>2, <3>1 DEF LeftInv
  <2> QED
    BY <1>1, <2>1, <2>2
<1> QED
  BY <1>3, <1>4 DEF Inv

(* Then the members, one by one; those that cannot be stopped are noted. *)
LEMMA ShutdownNodesKeepsInv ==
  ASSUME Inv, NEW c, ShutdownNode(c) \/ ShutdownNodeFails(c)
  PROVE  Inv'
<1>0. Types /\ NodeInv /\ LeftInv
  BY DEF Inv
<1>1. /\ shutdown.phase = "nodes" /\ c \in members /\ members' = members \ {c}
      /\ UNCHANGED <<result, step, plan, steps, nodes, validatorIds, task, registered, running>>
      /\ \/ /\ UNCHANGED shutdown
            /\ containers' = [containers EXCEPT ![c].up = FALSE]
         \/ /\ shutdown' = [shutdown EXCEPT !.left = @ \cup {c}]
            /\ UNCHANGED containers
  BY DEF ShutdownNode, ShutdownNodeFails, stoppedAtEnd, ctlVars, runVars, appVars, taskVars,
         chainVars
<1>2. result \in {"ok", "error"} /\ running = {} /\ shutdown'.phase = "nodes"
      /\ shutdown' \in [phase : {"no", "nodes", "done"}, left : SUBSET Nat]
      /\ c \in DOMAIN containers
  <2>1. c \in DOMAIN containers /\ DOMAIN containers \subseteq Nat
    BY <1>0, <1>1 DEF NodeInv, Types
  <2>2. result \in {"ok", "error"} /\ running = {}
    BY <1>0, <1>1 DEF LeftInv
  <2>3. /\ shutdown'.phase = "nodes"
        /\ shutdown' \in [phase : {"no", "nodes", "done"}, left : SUBSET Nat]
    BY <1>0, <1>1, <2>1 DEF LeftInv
  <2> QED
    BY <2>1, <2>2, <2>3
<1>3. CASE containers' = [containers EXCEPT ![c].up = FALSE] /\ UNCHANGED shutdown
  <2> DEFINE q == [containers[c] EXCEPT !.up = FALSE]
  <2>1. containers \in Seq(ContainerType)
    BY <1>0 DEF Types
  <2>2. containers[c] \in ContainerType /\ c \in 1 .. Len(containers)
    BY <1>2, <2>1
  <2>3. q \in ContainerType
    BY <2>2 DEF ContainerType
  <2>4. q.name = containers[c].name /\ q.vid = containers[c].vid /\ q.up = FALSE
    BY <2>2 DEF ContainerType
  <2>5. containers' = [containers EXCEPT ![c] = q]
    BY <1>3
  <2> HIDE DEF q
  <2>6. containers' \in Seq(ContainerType)
    BY <2>1, <2>2, <2>3, <2>5
  <2>7. /\ DOMAIN containers' = DOMAIN containers
        /\ \A d \in DOMAIN containers :
             /\ containers'[d].name = containers[d].name /\ containers'[d].vid = containers[d].vid
             /\ containers'[d].up => containers[d].up /\ d # c
    BY <2>4, <2>5, <2>6
  <2>8. ShutdownStep
    BY <1>1, <1>2, <2>6, <2>7 DEF ShutdownStep
  <2>9. /\ Types' /\ PlanInv' /\ TaskInv' /\ KeepInv' /\ VidInv' /\ NodeInv'
        /\ \A d : Lost(d) => Lost(d)'
    BY <2>8, ShutdownFrame
  <2>10. LeftInv'
    BY <1>0, <1>1, <1>2, <1>3, <2>7, <2>9 DEF LeftInv
  <2> QED
    BY <2>9, <2>10 DEF Inv
<1>4. CASE UNCHANGED containers /\ shutdown' = [shutdown EXCEPT !.left = @ \cup {c}]
  <2>1. ShutdownStep
    BY <1>0, <1>1, <1>2, <1>4 DEF ShutdownStep, Types
  <2>2. /\ Types' /\ PlanInv' /\ TaskInv' /\ KeepInv' /\ VidInv' /\ NodeInv'
        /\ \A d : Lost(d) => Lost(d)'
    BY <2>1, ShutdownFrame
  <2>3. shutdown'.left = shutdown.left \cup {c}
    BY <1>0, <1>4 DEF LeftInv
  <2>4. LeftInv'
    BY <1>0, <1>1, <1>2, <1>4, <2>2, <2>3 DEF LeftInv
  <2> QED
    BY <2>2, <2>4 DEF Inv
<1> QED
  BY <1>1, <1>3, <1>4

(* At the end no member is left. *)
LEMMA ShutdownEndKeepsInv ==
  ASSUME Inv, ShutdownEnds
  PROVE  Inv'
<1>0. Types /\ LeftInv
  BY DEF Inv
<1>1. /\ shutdown.phase = "nodes" /\ members = {} /\ members' = {}
      /\ UNCHANGED <<result, step, plan, steps, nodes, validatorIds, task, registered, running,
                     containers>>
      /\ shutdown' = [shutdown EXCEPT !.phase = "done"]
  BY DEF ShutdownEnds, stoppedAtEnd, runVars, appVars, taskVars, chainVars
<1>2. result \in {"ok", "error"} /\ running = {}
  BY <1>0, <1>1 DEF LeftInv
<1>3. ShutdownStep
  BY <1>0, <1>1, <1>2 DEF ShutdownStep, Types
<1>4. /\ Types' /\ PlanInv' /\ TaskInv' /\ KeepInv' /\ VidInv' /\ NodeInv'
      /\ \A d : Lost(d) => Lost(d)'
  BY <1>3, ShutdownFrame
<1>5. /\ shutdown' \in [phase : {"no", "nodes", "done"}, left : SUBSET Nat]
      /\ shutdown'.left = shutdown.left
  BY <1>0, <1>1 DEF LeftInv
<1>6. LeftInv'
  BY <1>0, <1>1, <1>2, <1>4, <1>5 DEF LeftInv
<1> QED
  BY <1>4, <1>6 DEF Inv

(* Shutdown stops the members and leaves the lost containers. *)
LEMMA ShutdownKeepsInv ==
  ASSUME Inv, Shutdown
  PROVE  Inv'
BY ShutdownAppsKeepsInv, ShutdownNodesKeepsInv, ShutdownEndKeepsInv DEF Shutdown

-----------------------------------------------------------------------------
(* The calls and events that leave the nodes alone, and the others *)

PlainStep ==
  \/ \E s \in Steps[1] : RejectScenario(s)
  \/ steps < MaxSteps /\ \E s \in Steps[steps + 1] : NextStep(s)
  \/ AbortScenario \/ CompleteScenario \/ ContextEnds \/ ApplicationEnds \/ Terminated
  \/ \E c \in DOMAIN containers : ClientCrashes(c)
  \/ registerFails \/ activateFails \/ heightFails \/ restartFails \/ nodeSyncFails
  \/ noTargets \/ nodeCallFails \/ createAppFails \/ noApp \/ networkCallFails
  \/ waitForFails \/ waitForBlocksFails
  \/ getNetworkBlockHeight \/ waitForNodeSync \/ CreateApplication \/ StartApplication
  \/ execStopApp \/ ApplyNetworkRules \/ AdvanceEpoch \/ waitFor \/ waitForBlockProduction
  \/ restart \/ ForceStopSonicd \/ HealSonicd
  \/ connectForBlocks \/ activate \/ WaitForTasks

NodeStep ==
  \/ \E n : \/ StartOperaDockerNode(n)
            \/ StartFails(n) \/ addNodeIntoNetwork(n) \/ AddFails(n) \/ AfterNodeCreation(n)
            \/ BeforeNodeRemoval(n) \/ RemoveNode(n) \/ StopFails(n)
            \/ StopNode(n)
  \/ register \/ stopTargets \/ removed
  \/ SuspendNode \/ ResumeNode \/ ReconnectNode \/ Shutdown

(* Every step is one of them, the start of the scenario, or the end of a    *)
(* step that created nodes.                                                 *)
LEMMA StepKinds ==
  ASSUME Next
  PROVE  PlainStep \/ NodeStep \/ created \/ \E s \in Steps[1] : StartScenario(s)
<1>1. CASE Executor
  BY <1>1 DEF Executor, CreateTask, RemoveTask, PlainStep, NodeStep
<1>2. CASE ~Executor
  BY <1>2 DEF Next, PlainStep
<1> QED
  BY <1>1, <1>2

(* The steps above are plain. *)
LEMMA PlainSteps ==
  ASSUME Types, PlainStep
  PROVE  Plain
BY FailsArePlain, CallsArePlain, ClientCallsArePlain, WaitsArePlain, ScenarioMovesArePlain
   DEF PlainStep

(* Every step preserves the invariant. *)
LEMMA NextInv ==
  ASSUME Inv, [Next]_vars
  PROVE  Inv'
<1>1. CASE PlainStep
  BY <1>1, PlainSteps, PlainInv DEF Inv
<1>2. CASE NodeStep
  BY <1>2, StartKeepsInv, CreateKeepsInv, RemoveKeepsInv, StopKeepsInv, RegisterKeepsInv,
     TargetsKeepInv, RemovedKeepsInv, SuspendKeepsInv, ReconnectKeepsInv, ShutdownKeepsInv
     DEF NodeStep
<1>3. CASE created
  BY <1>3, CreatedKeepsInv
<1>4. CASE \E s \in Steps[1] : StartScenario(s)
  BY <1>4, StartScenarioKeepsInv
<1>5. CASE UNCHANGED vars
  <2>1. SameNodes /\ UNCHANGED <<containers, steps, running, result, step, plan>>
    BY <1>5 DEF vars, ctlVars, runVars, memberVars, appVars, taskVars, chainVars, SameNodes
  <2>2. Plain
    BY <2>1, ContainersKept DEF Inv, Types, Plain, Stays
  <2> QED
    BY <2>2, PlainInv
<1> QED
  BY <1>1, <1>2, <1>3, <1>4, <1>5, StepKinds

(* The invariant holds in every reachable state. *)
LEMMA InvHolds == Spec => []Inv
<1>1. Init => Inv
  BY InitInv
<1>2. Inv /\ [Next]_vars => Inv'
  BY NextInv
<1> QED
  BY <1>1, <1>2, PTL DEF Spec

-----------------------------------------------------------------------------
(* Between two steps the executor, the network and the listeners agree on   *)
(* the nodes, whatever crashed or failed before.                            *)
THEOREM ExecutorAndNetworkAgree == Spec => []NodesAgree
<1>1. Inv => NodesAgree
  <2> SUFFICES ASSUME Inv, AtBoundary
               PROVE  /\ Range(nodes) = members
                      /\ IsInjective(nodes)
                      /\ \A n \in DOMAIN nodes : containers[nodes[n]].up
                      /\ suspended \subseteq members
                      /\ listening = members \ suspended
    BY DEF NodesAgree
  <2>1. DOMAIN task = {} /\ CreateInv /\ \A n \in DOMAIN nodes : NodeOf(n, nodes[n])
    BY DEF Inv, TaskInv, NodeInv, AtBoundary, At
  <2>2. \A c \in Range(nodes) : Settled(c)
    BY <2>1 DEF CreateInv, Range
  <2>3. members \cup suspended \cup listening \subseteq Range(nodes)
    BY <2>1 DEF CreateInv
  <2>4. Range(nodes) = members /\ suspended \subseteq members /\ listening = members \ suspended
    BY <2>2, <2>3 DEF Settled
  <2>5. \A n \in DOMAIN nodes : containers[nodes[n]].up
    BY <2>1 DEF CreateInv, Settled
  <2>6. IsInjective(nodes)
    BY <2>1, NodesAreDistinct DEF IsInjective
  <2> QED
    BY <2>4, <2>5, <2>6
<1> QED
  BY <1>1, InvHolds, PTL

(* No validator is run by two nodes, whatever is stopped, rejoins or is     *)
(* left behind: names have different validators, and a name is given to one *)
(* running container.                                                       *)
THEOREM ValidatorsRunOnce == Spec => []OneNodePerValidator
<1>1. Inv => OneNodePerValidator
  <2> SUFFICES ASSUME Inv, NEW c \in DOMAIN containers, NEW d \in DOMAIN containers,
                      c # d, ClientUp(c), ClientUp(d), containers[c].vid # 0,
                      containers[c].vid = containers[d].vid
               PROVE  FALSE
    BY DEF OneNodePerValidator
  <2>1. VidInv
    BY DEF Inv
  <2>2. containers[c].name # containers[d].name
    BY <2>1 DEF VidInv, ClientUp
  <2>3. /\ containers[c].name \in Named /\ containers[c].vid = Ids[containers[c].name]
        /\ containers[d].name \in Named /\ containers[d].vid = Ids[containers[d].name]
    BY <2>1 DEF VidInv
  <2> QED
    BY <2>1, <2>2, <2>3 DEF VidInv
<1> QED
  BY <1>1, InvHolds, PTL

(* What the shutdown leaves running are containers it failed to stop, and   *)
(* those of nodes that failed to join or to leave; a scenario that          *)
(* succeeded leaves none of the latter.                                     *)
THEOREM ShutdownIsComplete == Spec => []NothingIsLeft
<1>1. Inv => NothingIsLeft
  <2> SUFFICES ASSUME Inv, shutdown.phase = "done"
               PROVE  /\ running = {}
                      /\ \A c \in DOMAIN containers \ shutdown.left : containers[c].up =>
                           /\ result = "error"
                           /\ \/ \E n \in DOMAIN task : task[n].at = "failed" /\ task[n].node = c
                              \/ /\ step.fn = "startNode" /\ step.id \in DOMAIN nodes
                                 /\ nodes[step.id] = c
    BY DEF NothingIsLeft
  <2>1. /\ running = {} /\ members = {} /\ result \in {"ok", "error"}
        /\ \A c \in DOMAIN containers \ shutdown.left :
             containers[c].up => c \in members \/ Lost(c)
    BY DEF Inv, LeftInv
  <2>2. /\ result = "ok" => DOMAIN task = {}
        /\ \A n \in DOMAIN task : task[n].at \in {"done", "failed"}
    BY <2>1 DEF Inv, TaskInv, TasksReturned
  <2> QED
    BY <2>1, <2>2 DEF Lost
<1> QED
  BY <1>1, InvHolds, PTL

(* No step takes a name's validator away or gives it another one: created   *)
(* only adds the ones that were registered for names without one.           *)
THEOREM NamesKeepValidators == Spec => ValidatorIsKept
<1>1. ASSUME Inv, [Next]_vars
      PROVE  [\A n \in DOMAIN validatorIds :
                n \in DOMAIN validatorIds' /\ validatorIds'[n] = validatorIds[n]]_vars
  <2>1. CASE PlainStep
    <3>1. validatorIds' = validatorIds
      <4>1. Types
        BY <1>1 DEF Inv
      <4>2. Plain
        BY <2>1, <4>1, PlainSteps
      <4> QED
        BY <4>2 DEF Plain, SameNodes
    <3> QED
      BY <3>1
  <2>2. CASE NodeStep
    <3>1. validatorIds' = validatorIds
      <4> USE DEF runVars
      <4>1. CASE \E n : StartOperaDockerNode(n) \/ StartFails(n) \/ addNodeIntoNetwork(n)
                        \/ AddFails(n) \/ AfterNodeCreation(n)
        BY <4>1 DEF StartOperaDockerNode, StartFails, addNodeIntoNetwork, AddFails,
                    AfterNodeCreation
      <4>2. CASE \E n : BeforeNodeRemoval(n) \/ RemoveNode(n) \/ StopFails(n) \/ StopNode(n)
        BY <4>2 DEF BeforeNodeRemoval, RemoveNode, StopFails, StopNode
      <4>3. CASE register \/ stopTargets \/ removed
        BY <4>3 DEF register, stopTargets, removed
      <4>4. CASE SuspendNode \/ ResumeNode \/ ReconnectNode
        BY <4>4 DEF SuspendNode, ResumeNode, ReconnectNode
      <4>5. CASE Shutdown
        BY <4>5 DEF Shutdown, ShutdownApp, ShutdownApps, ShutdownNode, ShutdownNodeFails,
                    ShutdownEnds
      <4> QED
        BY <2>2, <4>1, <4>2, <4>3, <4>4, <4>5 DEF NodeStep
    <3> QED
      BY <3>1
  <2>3. CASE created
    <3>1. validatorIds' =
            [n \in DOMAIN validatorIds \union {t \in DOMAIN task : task[t].id # 0} |->
               IF n \in DOMAIN task /\ task[n].id # 0 THEN task[n].id ELSE validatorIds[n]]
      BY <2>3 DEF created
    <3> QED
      BY <1>1, <3>1 DEF Inv, KeepInv
  <2>4. CASE \E s \in Steps[1] : StartScenario(s)
    <3>1. DOMAIN validatorIds = {}
      BY <1>1, <2>4 DEF Inv, Types, StartScenario
    <3> QED
      BY <3>1
  <2>5. CASE UNCHANGED vars
    BY <2>5
  <2> QED
    BY <1>1, <2>1, <2>2, <2>3, <2>4, <2>5, StepKinds
<1> QED
  BY <1>1, InvHolds, PTL DEF Spec, ValidatorIsKept

=============================================================================
