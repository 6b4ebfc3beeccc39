--------------------------- MODULE MonitoringProofs ---------------------------
(* Proofs about Monitoring, for any nodes, buffers and numbers of events. *)
EXTENDS Monitoring, TLAPS

NodeType == [phase : {"absent", "up", "suspended", "stopped"}, object : Nat,
             client : {"on", "off"}, head : 0 .. MaxHeight]
LogType == [replay : Seq(Heights), closed : BOOLEAN]
ReaderType == [at : {"none", "reading", "ended"}, object : Nat, queue : Seq(Heights)]
StateType == [known : BOOLEAN, source : Nat, attached : Nat]

(* What the log dispatcher and the block series work on. *)
streamVars == <<node, logs, reader, state, series, netSeries, lost, skipped>>

StreamTypes ==
  /\ node \in [Nodes -> NodeType]
  /\ logs \in [Nodes -> LogType]
  /\ reader \in [Nodes -> [Objects -> ReaderType]]
  /\ state \in [Nodes -> StateType]
  /\ series \in [Nodes -> Seq(Heights)] /\ netSeries \in Seq(Heights)
  /\ lost \in [Nodes -> SUBSET Heights] /\ skipped \in [Nodes -> SUBSET Heights]

CallType == [kind : {"created", "removed"}, node : Nodes, todo : SUBSET Listeners,
             at : {"start", "attach"}, then : {"nothing", "kill", "stop"}]

(* Listeners are served while a callback is under way, for a node that has *)
(* had a container, and a callback is under way before the shutdown only.  *)
CallInv ==
  /\ call = NoCall \/ (call \in CallType /\ monitor = "running")
  /\ call # NoCall => node[call.node].phase # "absent"
  /\ \A n \in Nodes : node[n].phase # "absent" => node[n].object >= 1

-----------------------------------------------------------------------------
(* The constants, one by one. *)
LEMMA Bounds ==
  /\ MaxHeight \in Nat /\ MaxEvents \in Nat
  /\ logReplayLines \in Nat \ {0} /\ logSubscriberBuffer \in Nat \ {0}
  /\ logReplayLines <= logSubscriberBuffer
  BY MonitoringAssumption

(* A reader whose queue changes, or that ends. *)
LEMMA ReaderEdits ==
  ASSUME NEW x \in ReaderType, NEW q \in Seq(Heights)
  PROVE  /\ [x EXCEPT !.queue = q] \in ReaderType
         /\ [x EXCEPT !.queue = q].at = x.at
         /\ [x EXCEPT !.queue = q].object = x.object
         /\ [x EXCEPT !.queue = q].queue = q
         /\ [x EXCEPT !.at = "ended", !.queue = q] \in ReaderType
         /\ [x EXCEPT !.at = "ended", !.queue = q].at = "ended"
  BY DEF ReaderType

(* A callback under way, and none. *)
LEMMA CallFacts ==
  ASSUME CallInv
  PROVE  /\ call # NoCall => call.node \in Nodes /\ call.kind # "none"
         /\ call.at = "attach" => call # NoCall
         /\ call.todo # {} => call # NoCall
         /\ call.kind # "none" => call # NoCall
         /\ NoCall.kind = "none" /\ NoCall.todo = {} /\ NoCall.at = ""
<1>1. NoCall.kind = "none" /\ NoCall.todo = {} /\ NoCall.at = ""
  BY DEF NoCall
<1>2. call # NoCall => call.node \in Nodes /\ call.kind \in {"created", "removed"}
  BY DEF CallInv, CallType
<1>3. QED
  BY <1>1, <1>2

(* The steps that leave the logs, their readers and the series alone. *)
Aside ==
  \/ \E n \in Nodes : SuspendNode(n) \/ RemoveNode(n)
  \/ Shutdown \/ TickerFires \/ LogRemoval \/ LogAttachFails \/ PromCreateFails
  \/ \E n \in Nodes, g \in Objects : ReadFails(n, g) \/ ReadSensor(n, g)
  \/ PromCreated \/ PromRemoved \/ StopTicker
  \/ \E n \in Nodes : SendTick(n) \/ StopSource(n)
  \/ \E n \in Nodes, k \in Objects :
       TakeTick(n, k) \/ distributeLog(n, k) \/ ReportFailure(n, k) \/ SensorRead(n, k)
  \/ AddSubject \/ RemoveSubject \/ PromIsDown \/ SourcesAreDown

(* The others. *)
Stream ==
  \/ \E n \in Nodes : CreateNode(n) \/ ResumeNode(n) \/ publish(n)
  \/ \E n \in Nodes, r \in Objects : OnBlock(n, r) \/ LogEnds(n, r) \/ LogFails(n, r)
  \/ CallReturns \/ LogCreated \/ LogAttach

(* A step works on the streams or leaves them alone. *)
LEMMA Steps == Next => Aside \/ Stream
  BY DEF Next, Network, Environment, Work, Aside, Stream

(* The steps that are not about streams leave their variables alone. *)
LEMMA AsideFrame == Aside => UNCHANGED streamVars
  BY DEF Aside, SuspendNode, RemoveNode, Shutdown, TickerFires, LogRemoval, LogAttachFails, PromCreateFails,
         ReadFails,
         ReadSensor, PromCreated, PromRemoved, StopTicker, SendTick, StopSource, TakeTick,
         distributeLog, ReportFailure, SensorRead, AddSubject, RemoveSubject, PromIsDown,
         SourcesAreDown, promOnly, periodOnly, logVars, streamVars

-----------------------------------------------------------------------------
(* Types *)

(* The types hold at first. *)
LEMMA InitTypes == Init => StreamTypes
<1> SUFFICES ASSUME Init PROVE StreamTypes
  OBVIOUS
<1>1. node \in [Nodes -> NodeType] /\ logs \in [Nodes -> LogType]
  BY Bounds DEF Init, NodeType, LogType
<1>2. reader \in [Nodes -> [Objects -> ReaderType]] /\ state \in [Nodes -> StateType]
  BY DEF Init, ReaderType, StateType, NoReader
<1>3. QED
  BY <1>1, <1>2 DEF Init, StreamTypes

(* The end of a reader. *)
LEMMA ReaderEndsTypes ==
  ASSUME StreamTypes, NEW n \in Nodes, NEW r \in Objects, readerEnds(n, r)
  PROVE  /\ reader' \in [Nodes -> [Objects -> ReaderType]]
         /\ state' \in [Nodes -> StateType]
         /\ UNCHANGED <<node, logs, series, netSeries, skipped>>
<1>1. [reader[n][r] EXCEPT !.at = "ended", !.queue = <<>>] \in ReaderType
  <2>1. reader[n][r] \in ReaderType /\ <<>> \in Seq(Heights)
    BY DEF StreamTypes
  <2>2. QED
    BY <2>1, ReaderEdits
<1>2. reader' \in [Nodes -> [Objects -> ReaderType]]
  BY <1>1 DEF readerEnds, StreamTypes
<1>3. state' \in [Nodes -> StateType]
  BY DEF readerEnds, StreamTypes, StateType
<1>4. QED
  BY <1>2, <1>3 DEF readerEnds

(* A step on the streams keeps their types. *)
LEMMA StreamStepTypes ==
  ASSUME StreamTypes, CallInv, Stream
  PROVE  StreamTypes'
<1>1. ASSUME NEW n \in Nodes, CreateNode(n) PROVE StreamTypes'
  <2>0. PICK m \in Nodes : \E h \in 0 .. node[m].head :
          /\ node' = [node EXCEPT ![n] = [phase |-> "up", object |-> node[n].object + 1,
                                          client |-> "on", head |-> h]]
          /\ skipped' = [skipped EXCEPT ![n] = skipped[n] \cup ((1 .. h) \ ToSet(series[n]))]
    BY <1>1 DEF CreateNode
  <2>1. PICK h \in 0 .. node[m].head :
          /\ node' = [node EXCEPT ![n] = [phase |-> "up", object |-> node[n].object + 1,
                                          client |-> "on", head |-> h]]
          /\ skipped' = [skipped EXCEPT ![n] = skipped[n] \cup ((1 .. h) \ ToSet(series[n]))]
    BY <2>0
  <2>2. h \in 0 .. MaxHeight
    BY Bounds DEF StreamTypes, NodeType
  <2>3. (1 .. h) \subseteq Heights
    BY <2>2, Bounds DEF Heights
  <2>4. node' \in [Nodes -> NodeType] /\ skipped' \in [Nodes -> SUBSET Heights]
    BY <2>1, <2>2, <2>3 DEF StreamTypes, NodeType
  <2>5. logs' \in [Nodes -> LogType]
    BY <1>1 DEF CreateNode, StreamTypes, LogType
  <2>6. QED
    BY <1>1, <2>4, <2>5 DEF CreateNode, StreamTypes
<1>2. ASSUME NEW n \in Nodes, ResumeNode(n) PROVE StreamTypes'
  <2>1. PICK h \in 0 .. node[n].head :
          node' = [node EXCEPT ![n].phase = "up", ![n].client = "on", ![n].head = h]
    BY <1>2 DEF ResumeNode
  <2>2. h \in 0 .. MaxHeight
    BY <2>1, Bounds DEF StreamTypes, NodeType
  <2>3. node' \in [Nodes -> NodeType]
    BY <2>1, <2>2, ZenonT(60) DEF StreamTypes, NodeType
  <2>4. QED
    BY <1>2, <2>3 DEF ResumeNode, StreamTypes, logVars
<1>3. ASSUME NEW n \in Nodes, publish(n) PROVE StreamTypes'
  <2> DEFINE h == node[n].head + 1
  <2>1. h \in Heights /\ h \in 0 .. MaxHeight
    BY <1>3, Bounds DEF publish, StreamTypes, NodeType, Heights
  <2>2. node' \in [Nodes -> NodeType]
    BY <1>3, <2>1 DEF publish, StreamTypes, NodeType
  <2>3. logs[n].replay \in Seq(Heights)
    BY DEF StreamTypes, LogType
  <2>4. retain(n, h) \in Seq(Heights)
    BY <2>1, <2>3, Bounds DEF retain, isFull
  <2>5. logs' \in [Nodes -> LogType]
    BY <1>3, <2>4 DEF publish, StreamTypes, LogType
  <2>6. \A r \in Objects :
          [reader[n][r] EXCEPT !.queue = offer(reader[n][r].queue, h)] \in ReaderType
    <3> TAKE r \in Objects
    <3>1. reader[n][r] \in ReaderType
      BY DEF StreamTypes
    <3>2. reader[n][r].queue \in Seq(Heights)
      BY <3>1 DEF ReaderType
    <3>3. offer(reader[n][r].queue, h) \in Seq(Heights)
      BY <2>1, <3>2 DEF offer
    <3>4. QED
      BY <3>1, <3>3, ReaderEdits
  <2>7. reader' \in [Nodes -> [Objects -> ReaderType]]
    <3>1. offerToAll(n, h) \in [Objects -> ReaderType]
      BY <2>6 DEF StreamTypes, offerToAll
    <3>2. QED
      BY <1>3, <3>1 DEF publish, StreamTypes
  <2>8. droppedBy(n, h) \subseteq Heights
    BY <2>1, <2>3, Bounds DEF droppedBy, isFull
  <2>9. lost' \in [Nodes -> SUBSET Heights]
    BY <1>3, <2>8 DEF publish, StreamTypes
  <2>10. QED
    BY <1>3, <2>2, <2>5, <2>7, <2>9 DEF publish, StreamTypes
<1>4. ASSUME NEW n \in Nodes, NEW r \in Objects, OnBlock(n, r) PROVE StreamTypes'
  <2> DEFINE h == Head(reader[n][r].queue)
  <2>1. reader[n][r].queue \in Seq(Heights) /\ reader[n][r].queue # <<>>
    BY <1>4 DEF OnBlock, StreamTypes, ReaderType
  <2>2. h \in Heights /\ Tail(reader[n][r].queue) \in Seq(Heights)
    BY <2>1
  <2>3. [reader[n][r] EXCEPT !.queue = Tail(reader[n][r].queue)] \in ReaderType
    <3>1. reader[n][r] \in ReaderType
      BY DEF StreamTypes
    <3>2. QED
      BY <2>2, <3>1, ReaderEdits
  <2>4. reader' \in [Nodes -> [Objects -> ReaderType]]
    BY <1>4, <2>3 DEF OnBlock, StreamTypes
  <2>5. /\ series' = series \/ series' = [series EXCEPT ![n] = Append(series[n], h)]
        /\ netSeries' = netSeries \/ netSeries' = Append(netSeries, h)
    BY <1>4 DEF OnBlock
  <2>6. series' \in [Nodes -> Seq(Heights)] /\ netSeries' \in Seq(Heights)
    <3>1. Append(series[n], h) \in Seq(Heights) /\ Append(netSeries, h) \in Seq(Heights)
      BY <2>2 DEF StreamTypes
    <3>2. QED
      BY <2>5, <3>1 DEF StreamTypes
  <2>7. QED
    BY <1>4, <2>4, <2>6 DEF OnBlock, StreamTypes
<1>5. ASSUME NEW n \in Nodes, NEW r \in Objects, LogEnds(n, r) PROVE StreamTypes'
  BY <1>5, ReaderEndsTypes DEF LogEnds, StreamTypes
<1>6. ASSUME NEW n \in Nodes, NEW r \in Objects, LogFails(n, r) PROVE StreamTypes'
  <2>1. ToSet(reader[n][r].queue) \subseteq Heights
    BY DEF StreamTypes, ReaderType, ToSet
  <2>2. lost' \in [Nodes -> SUBSET Heights]
    BY <1>6, <2>1 DEF LogFails, StreamTypes
  <2>3. QED
    BY <1>6, <2>2, ReaderEndsTypes DEF LogFails, StreamTypes
<1>7. CASE CallReturns
  <2>1. call.node \in Nodes
    BY <1>7, CallFacts DEF CallReturns, Idle
  <2>2. node' \in [Nodes -> NodeType]
    <3> DEFINE n == call.node
    <3>1. \/ node' = [node EXCEPT ![n].phase = "suspended", ![n].client = "off"]
          \/ node' = [node EXCEPT ![n].phase = "stopped", ![n].client = "off"]
          \/ node' = node
      BY <1>7 DEF CallReturns
    <3>2. node[n] \in NodeType /\ 0 \in 0 .. MaxHeight
      BY <2>1, Bounds DEF StreamTypes
    <3>3. /\ [node[n] EXCEPT !.phase = "suspended", !.client = "off"] \in NodeType
          /\ [node[n] EXCEPT !.phase = "stopped", !.client = "off"] \in NodeType
      BY <3>2 DEF NodeType
    <3>4. QED
      BY <2>1, <3>1, <3>3 DEF StreamTypes
  <2>3. logs' \in [Nodes -> LogType]
    BY <1>7, <2>1 DEF CallReturns, StreamTypes, LogType
  <2>4. QED
    BY <1>7, <2>2, <2>3 DEF CallReturns, StreamTypes
<1>8. CASE LogCreated
  <2>1. state' \in [Nodes -> StateType]
    BY <1>8 DEF LogCreated, StreamTypes, StateType
  <2>2. QED
    BY <1>8, <2>1 DEF LogCreated, StreamTypes
<1>9. CASE LogAttach
  <2>1. call.node \in Nodes
    BY <1>9, CallFacts DEF LogAttach
  <2>2. subscribe(call.node) \in ReaderType
    BY <2>1 DEF subscribe, StreamTypes, ReaderType, NodeType, LogType
  <2>3. reader' \in [Nodes -> [Objects -> ReaderType]]
    BY <1>9, <2>1, <2>2 DEF LogAttach, StreamTypes
  <2>4. state' \in [Nodes -> StateType]
    <3>1. state[call.node] \in StateType /\ node[call.node].object \in Nat
      BY <2>1 DEF StreamTypes, NodeType
    <3>2. state[call.node].attached + 1 \in Nat
      BY <3>1 DEF StateType
    <3>3. [state[call.node] EXCEPT !.source = node[call.node].object,
                                   !.attached = state[call.node].attached + 1] \in StateType
      BY <3>1, <3>2 DEF StateType
    <3>4. QED
      BY <1>9, <2>1, <3>3 DEF LogAttach, StreamTypes
  <2>5. QED
    BY <1>9, <2>3, <2>4 DEF LogAttach, StreamTypes
<1>10. QED
  BY <1>1, <1>2, <1>3, <1>4, <1>5, <1>6, <1>7, <1>8, <1>9 DEF Stream

-----------------------------------------------------------------------------
(* Callbacks *)

(* No call of a listener is under way at first. *)
LEMMA InitCall == Init => CallInv
  BY DEF Init, CallInv

(* A listener that has been served, or is half way through. *)
LEMMA ServedFacts ==
  ASSUME CallInv, call # NoCall
  PROVE  /\ \A listener : Served(listener) =>
              call' \in CallType /\ call'.node = call.node /\ call'.at = "start"
         /\ call' = [call EXCEPT !.at = "attach"] =>
              call' \in CallType /\ call'.node = call.node
  BY DEF CallInv, CallType, Served

(* What becomes of the nodes: a new container has a new object, a restart  *)
(* may fall back, a published block is the next one.                       *)
LEMMA NodeFacts ==
  ASSUME StreamTypes, CallInv
  PROVE  /\ \A n \in Nodes : CreateNode(n) =>
              /\ node'[n].phase = "up" /\ node'[n].object = node[n].object + 1
              /\ node'[n].head \in 0 .. MaxHeight
              /\ skipped'[n] = skipped[n] \cup ((1 .. node'[n].head) \ ToSet(series[n]))
              /\ \A m \in Nodes \ {n} : skipped'[m] = skipped[m]
              /\ \A m \in Nodes \ {n} : node'[m] = node[m]
         /\ \A n \in Nodes : ResumeNode(n) =>
              /\ node[n].phase = "suspended" /\ node'[n].phase = "up"
              /\ node'[n].object = node[n].object /\ node'[n].head \in 0 .. node[n].head
              /\ \A m \in Nodes \ {n} : node'[m] = node[m]
         /\ \A n \in Nodes : publish(n) =>
              /\ node'[n].phase = node[n].phase /\ node'[n].object = node[n].object
              /\ node'[n].head = node[n].head + 1
              /\ \A m \in Nodes \ {n} : node'[m] = node[m]
         /\ CallReturns =>
              /\ call # NoCall /\ call.node \in Nodes
              /\ node'[call.node].object = node[call.node].object
              /\ node'[call.node].head = node[call.node].head
              /\ \A m \in Nodes \ {call.node} : node'[m] = node[m]
<1>1. \A n \in Nodes : node[n] \in NodeType
  BY DEF StreamTypes
<1>2. ASSUME NEW n \in Nodes, CreateNode(n)
      PROVE  /\ node'[n].phase = "up" /\ node'[n].object = node[n].object + 1
             /\ node'[n].head \in 0 .. MaxHeight
             /\ skipped'[n] = skipped[n] \cup ((1 .. node'[n].head) \ ToSet(series[n]))
             /\ \A m \in Nodes \ {n} : skipped'[m] = skipped[m]
             /\ \A m \in Nodes \ {n} : node'[m] = node[m]
  <2>0. PICK m \in Nodes : \E h \in 0 .. node[m].head :
          /\ node' = [node EXCEPT ![n] = [phase |-> "up", object |-> node[n].object + 1,
                                          client |-> "on", head |-> h]]
          /\ skipped' = [skipped EXCEPT ![n] = skipped[n] \cup ((1 .. h) \ ToSet(series[n]))]
    BY <1>2 DEF CreateNode
  <2>1. PICK h \in 0 .. node[m].head :
          /\ node' = [node EXCEPT ![n] = [phase |-> "up", object |-> node[n].object + 1,
                                          client |-> "on", head |-> h]]
          /\ skipped' = [skipped EXCEPT ![n] = skipped[n] \cup ((1 .. h) \ ToSet(series[n]))]
    BY <2>0
  <2>2. h \in 0 .. MaxHeight
    BY <1>1, Bounds DEF NodeType
  <2>3. node'[n] = [phase |-> "up", object |-> node[n].object + 1, client |-> "on", head |-> h]
    BY <2>1 DEF StreamTypes
  <2>4. /\ skipped'[n] = skipped[n] \cup ((1 .. h) \ ToSet(series[n]))
        /\ \A k \in Nodes \ {n} : skipped'[k] = skipped[k] /\ node'[k] = node[k]
    BY <2>1 DEF StreamTypes
  <2>5. QED
    BY <2>2, <2>3, <2>4
<1>3. ASSUME NEW n \in Nodes, ResumeNode(n)
      PROVE  /\ node[n].phase = "suspended" /\ node'[n].phase = "up"
             /\ node'[n].object = node[n].object /\ node'[n].head \in 0 .. node[n].head
             /\ \A m \in Nodes \ {n} : node'[m] = node[m]
  <2>1. PICK h \in 0 .. node[n].head :
          node' = [node EXCEPT ![n].phase = "up", ![n].client = "on", ![n].head = h]
    BY <1>3 DEF ResumeNode
  <2>2. h \in 0 .. MaxHeight
    BY <1>1, <2>1, Bounds DEF NodeType
  <2>3. /\ node'[n] = [node[n] EXCEPT !.phase = "up", !.client = "on", !.head = h]
        /\ \A m \in Nodes \ {n} : node'[m] = node[m]
    BY <2>1 DEF StreamTypes
  <2>4. node[n].phase = "suspended"
    BY <1>3 DEF ResumeNode
  <2>5. node'[n].phase = "up" /\ node'[n].object = node[n].object /\ node'[n].head = h
    BY <1>1, <2>2, <2>3 DEF NodeType
  <2>6. QED
    BY <2>1, <2>3, <2>4, <2>5
<1>4. ASSUME NEW n \in Nodes, publish(n)
      PROVE  /\ node'[n].phase = node[n].phase /\ node'[n].object = node[n].object
             /\ node'[n].head = node[n].head + 1
             /\ \A m \in Nodes \ {n} : node'[m] = node[m]
  <2>1. /\ node' = [node EXCEPT ![n].head = node[n].head + 1]
        /\ node[n].head + 1 <= MaxHeight
    BY <1>4 DEF publish
  <2>2. node[n].head + 1 \in 0 .. MaxHeight
    BY <1>1, <2>1, Bounds DEF NodeType
  <2>3. /\ node'[n] = [node[n] EXCEPT !.head = node[n].head + 1]
        /\ \A m \in Nodes \ {n} : node'[m] = node[m]
    BY <2>1 DEF StreamTypes
  <2>4. QED
    BY <1>1, <2>2, <2>3 DEF NodeType
<1>5. ASSUME CallReturns
      PROVE  /\ call # NoCall /\ call.node \in Nodes
             /\ node'[call.node].object = node[call.node].object
             /\ node'[call.node].head = node[call.node].head
             /\ \A m \in Nodes \ {call.node} : node'[m] = node[m]
  <2>1. call # NoCall /\ call.node \in Nodes
    BY <1>5, CallFacts DEF CallReturns, Idle
  <2> DEFINE n == call.node
  <2>2. \/ node' = [node EXCEPT ![n].phase = "suspended", ![n].client = "off"]
        \/ node' = [node EXCEPT ![n].phase = "stopped", ![n].client = "off"]
        \/ node' = node
    BY <1>5 DEF CallReturns
  <2>3. /\ \/ node'[n] = [node[n] EXCEPT !.phase = "suspended", !.client = "off"]
           \/ node'[n] = [node[n] EXCEPT !.phase = "stopped", !.client = "off"]
           \/ node'[n] = node[n]
        /\ \A m \in Nodes \ {n} : node'[m] = node[m]
    BY <2>1, <2>2 DEF StreamTypes
  <2>4. /\ node'[n].object = node[n].object
        /\ node'[n].head = node[n].head
    BY <1>1, <2>1, <2>3 DEF NodeType
  <2>5. QED
    BY <2>1, <2>3, <2>4
<1>6. QED
  BY <1>2, <1>3, <1>4, <1>5

(* The steps that begin a callback, serve a listener or end the callback   *)
(* keep to the callback's type.                                            *)
LEMMA CallStep ==
  ASSUME StreamTypes, CallInv, Next
  PROVE  CallInv'
<1>1. ASSUME NEW n \in Nodes, CreateNode(n) \/ SuspendNode(n) \/ ResumeNode(n) \/ RemoveNode(n)
      PROVE  CallInv'
  <2>1. call' \in CallType /\ call'.node = n /\ monitor' = "running"
    <3>1. /\ monitor' = "running"
          /\ \E kind \in {"created", "removed"}, then \in {"nothing", "kill", "stop"} :
               call' = [kind |-> kind, node |-> n, todo |-> Listeners, at |-> "start",
                        then |-> then]
      BY <1>1 DEF CreateNode, SuspendNode, ResumeNode, RemoveNode, Begin
    <3>2. QED
      BY <3>1 DEF CallType
  <2>2. /\ node'[n].phase # "absent" /\ node'[n].object >= 1
        /\ \A m \in Nodes \ {n} : node'[m] = node[m]
    <3>1. CASE CreateNode(n)
      <4>1. node[n].object + 1 >= 1
        BY DEF StreamTypes, NodeType
      <4>2. QED
        BY <3>1, <4>1, NodeFacts
    <3>2. CASE ResumeNode(n)
      BY <3>2, NodeFacts DEF CallInv
    <3>3. CASE SuspendNode(n) \/ RemoveNode(n)
      BY <3>3 DEF SuspendNode, RemoveNode, CallInv
    <3>4. QED
      BY <1>1, <3>1, <3>2, <3>3
  <2>3. QED
    BY <2>1, <2>2 DEF CallInv
<1>2. CASE CallReturns
  <2>1. call' = NoCall /\ call.node \in Nodes
    BY <1>2, CallFacts DEF CallReturns, Idle
  <2>2. \A m \in Nodes : node'[m].phase # "absent" => node'[m].object >= 1
    <3> TAKE m \in Nodes
    <3>1. node'[m].object = node[m].object /\ (node'[m] = node[m] \/ m = call.node)
      BY <1>2, <2>1, NodeFacts
    <3>2. node[call.node].object >= 1
      BY <1>2, <2>1, NodeFacts DEF CallInv
    <3>3. QED
      BY <3>1, <3>2 DEF CallInv
  <2>3. QED
    BY <2>1, <2>2 DEF CallInv
<1>3. CASE \/ LogCreated \/ LogAttach \/ LogAttachFails \/ LogRemoval
           \/ PromCreated \/ PromCreateFails \/ PromRemoved
           \/ AddSubject \/ RemoveSubject
  <2>1. call # NoCall /\ UNCHANGED <<node, monitor>>
    BY <1>3, CallFacts
    DEF LogCreated, LogAttach, LogAttachFails, LogRemoval, PromCreated, PromCreateFails,
        PromRemoved, AddSubject,
        RemoveSubject, Serving, promOnly, periodOnly
  <2>2. (\E listener : Served(listener)) \/ call' = [call EXCEPT !.at = "attach"]
    BY <1>3
    DEF LogCreated, LogAttach, LogAttachFails, LogRemoval, PromCreated, PromCreateFails,
        PromRemoved, AddSubject,
        RemoveSubject
  <2>3. call' \in CallType /\ call'.node = call.node
    BY <2>1, <2>2, ServedFacts
  <2>4. QED
    BY <2>1, <2>3 DEF CallInv
<1>4. CASE Shutdown \/ PromIsDown \/ SourcesAreDown
  <2>1. call = NoCall /\ UNCHANGED <<node, call>>
    BY <1>4, CallFacts DEF Shutdown, PromIsDown, SourcesAreDown, Idle, CallInv
  <2>2. QED
    BY <2>1 DEF CallInv
<1>5. ASSUME NEW n \in Nodes, publish(n) PROVE CallInv'
  <2>1. UNCHANGED <<call, monitor>>
    BY <1>5 DEF publish
  <2>2. \A m \in Nodes : node'[m].phase = node[m].phase /\ node'[m].object = node[m].object
    BY <1>5, NodeFacts
  <2>3. call # NoCall => call.node \in Nodes
    BY CallFacts
  <2>4. QED
    BY <2>1, <2>2, <2>3 DEF CallInv
<1>6. ASSUME NEW n \in Nodes, NEW k \in Objects, LogFails(n, k) \/ OnBlock(n, k) \/ LogEnds(n, k)
      PROVE  CallInv'
  <2>1. UNCHANGED <<call, monitor, node>>
    BY <1>6 DEF LogFails, OnBlock, LogEnds, readerEnds
  <2>2. QED
    BY <2>1 DEF CallInv
<1>7. CASE \/ \E n \in Nodes : SendTick(n) \/ StopSource(n)
           \/ \E n \in Nodes, k \in Objects :
                \/ ReadFails(n, k) \/ ReadSensor(n, k) \/ TakeTick(n, k)
                \/ distributeLog(n, k) \/ ReportFailure(n, k) \/ SensorRead(n, k)
           \/ TickerFires \/ StopTicker
  <2>1. UNCHANGED <<call, monitor, node>>
    BY <1>7
    DEF SendTick, StopSource, ReadFails, ReadSensor, TakeTick, distributeLog,
        ReportFailure, SensorRead, TickerFires, StopTicker, promOnly, periodOnly
  <2>2. QED
    BY <2>1 DEF CallInv
<1>8. QED
  BY <1>1, <1>2, <1>3, <1>4, <1>5, <1>6, <1>7 DEF Next, Network, Environment, Work

(* The logs, the series and the callbacks keep their types. *)
LEMMA StreamInvariant == Spec => [](StreamTypes /\ CallInv)
<1>1. StreamTypes /\ CallInv /\ [Next]_vars => StreamTypes' /\ CallInv'
  <2> SUFFICES ASSUME StreamTypes, CallInv, [Next]_vars PROVE StreamTypes' /\ CallInv'
    OBVIOUS
  <2>1. CASE Next
    <3>1. StreamTypes'
      BY <2>1, Steps, AsideFrame, StreamStepTypes DEF streamVars, StreamTypes
    <3>2. QED
      BY <2>1, <3>1, CallStep
  <2>2. CASE UNCHANGED vars
    BY <2>2 DEF vars, StreamTypes, CallInv
  <2>3. QED
    BY <2>1, <2>2
<1>2. QED
  BY <1>1, InitTypes, InitCall, PTL DEF Spec

-----------------------------------------------------------------------------
(* Why a stream has one reader: the dispatcher remembers the object whose  *)
(* stream it consumes (state.source), no reader is ahead of its node, and  *)
(* while AfterNodeCreation attaches, nobody reads that object.             *)
Reads(n, r) == reader[n][r].at = "reading"

ReaderInv ==
  /\ \A n \in Nodes, r \in Objects : Reads(n, r) =>
       /\ reader[n][r].object <= node[n].object
       /\ reader[n][r].object = node[n].object => state[n].source = node[n].object
  /\ \A n \in Nodes, r, q \in Objects :
       r # q /\ Reads(n, r) /\ Reads(n, q) => reader[n][r].object # reader[n][q].object
  /\ call.at = "attach" => state[call.node].source # node[call.node].object

(* A step that attaches no reader. *)
LEMMA ReaderFrame ==
  ASSUME ReaderInv, state' = state, UNCHANGED <<call>>,
         \A n \in Nodes : node'[n].object = node[n].object,
         \A n \in Nodes, r \in Objects : Reads(n, r)' =>
           Reads(n, r) /\ reader'[n][r].object = reader[n][r].object,
         call.at = "attach" => call.node \in Nodes
  PROVE  ReaderInv'
  BY DEF ReaderInv

(* A reader that ends gives up its own object only, which nobody else reads. *)
LEMMA ReaderEnds ==
  ASSUME StreamTypes, CallInv, ReaderInv, NEW n \in Nodes, NEW r \in Objects,
         Reads(n, r), readerEnds(n, r)
  PROVE  ReaderInv'
<1>1. /\ ~Reads(n, r)'
      /\ \A m \in Nodes, q \in Objects : m # n \/ q # r => reader'[m][q] = reader[m][q]
  <2>1. reader[n][r] \in ReaderType /\ <<>> \in Seq(Heights)
    BY DEF StreamTypes
  <2>2. [reader[n][r] EXCEPT !.at = "ended", !.queue = <<>>].at = "ended"
    BY <2>1, ReaderEdits
  <2>3. QED
    BY <2>2 DEF readerEnds, StreamTypes, Reads
<1>2. UNCHANGED <<node, call>>
  BY DEF readerEnds
<1>3. \/ state' = state
      \/ /\ state[n].source = reader[n][r].object /\ state'[n].source = 0
         /\ \A m \in Nodes \ {n} : state'[m] = state[m]
  <2>1. state[n] \in StateType
    BY DEF StreamTypes
  <2>2. [state[n] EXCEPT !.source = 0].source = 0
    BY <2>1 DEF StateType
  <2>3. QED
    BY <2>2 DEF readerEnds, StreamTypes
<1>4. call.at = "attach" => call.node \in Nodes /\ node[call.node].object # 0
  <2> SUFFICES ASSUME call.at = "attach"
               PROVE  call.node \in Nodes /\ node[call.node].object # 0
    OBVIOUS
  <2>1. call # NoCall /\ call.node \in Nodes
    BY CallFacts
  <2>2. node[call.node].object >= 1 /\ node[call.node].object \in Nat
    BY <2>1 DEF CallInv, StreamTypes, NodeType
  <2>3. QED
    BY <2>1, <2>2
<1>5. \A m \in Nodes, q \in Objects : Reads(m, q)' =>
        Reads(m, q) /\ reader'[m][q] = reader[m][q] /\ (m # n \/ q # r)
  BY <1>1 DEF Reads
<1>6. ASSUME NEW m \in Nodes, NEW q \in Objects, Reads(m, q)'
      PROVE  /\ reader'[m][q].object <= node'[m].object
             /\ reader'[m][q].object = node'[m].object => state'[m].source = node'[m].object
  <2>1. Reads(m, q) /\ reader'[m][q] = reader[m][q] /\ (m # n \/ q # r)
    BY <1>5, <1>6
  <2>2. m = n => reader[m][q].object # reader[n][r].object
    BY <2>1 DEF ReaderInv
  <2>3. QED
    BY <1>2, <1>3, <2>1, <2>2 DEF ReaderInv
<1>7. \A m \in Nodes, p, q \in Objects :
        p # q /\ Reads(m, p)' /\ Reads(m, q)' => reader'[m][p].object # reader'[m][q].object
  BY <1>5 DEF ReaderInv
<1>8. call'.at = "attach" => state'[call'.node].source # node'[call'.node].object
  BY <1>2, <1>3, <1>4 DEF ReaderInv
<1>9. QED
  BY <1>6, <1>7, <1>8 DEF ReaderInv

(* Every step of the network, the broadcaster and the dispatcher. *)
LEMMA ReaderStream ==
  ASSUME StreamTypes, CallInv, ReaderInv, Stream
  PROVE  ReaderInv'
<1>0. /\ \A n \in Nodes : node[n].object \in Nat /\ state[n] \in StateType
      /\ \A n \in Nodes, r \in Objects : reader[n][r] \in ReaderType
      /\ call.at = "attach" => call.node \in Nodes
  BY CallFacts DEF StreamTypes, NodeType
<1>1. ASSUME NEW n \in Nodes, CreateNode(n) PROVE ReaderInv'
  <2>1. /\ UNCHANGED <<reader, state>> /\ call'.at = "start"
        /\ node'[n].object = node[n].object + 1
        /\ \A m \in Nodes \ {n} : node'[m] = node[m]
    BY <1>1, NodeFacts DEF CreateNode, Begin
  <2>2. \A r \in Objects : Reads(n, r) => reader[n][r].object < node[n].object + 1
    BY <1>0 DEF ReaderInv, ReaderType
  <2>3. ASSUME NEW m \in Nodes, NEW r \in Objects, Reads(m, r)
        PROVE  /\ reader[m][r].object <= node'[m].object
               /\ reader[m][r].object = node'[m].object => state[m].source = node'[m].object
    <3>1. CASE m = n
      BY <1>0, <2>1, <2>2, <2>3, <3>1 DEF ReaderType
    <3>2. CASE m # n
      BY <2>1, <2>3, <3>2 DEF ReaderInv
    <3>3. QED
      BY <3>1, <3>2
  <2>4. QED
    BY <2>1, <2>3 DEF ReaderInv, Reads
<1>2. ASSUME NEW n \in Nodes, ResumeNode(n) PROVE ReaderInv'
  <2>1. /\ UNCHANGED <<reader, state>> /\ call'.at = "start"
        /\ \A m \in Nodes : node'[m].object = node[m].object
    BY <1>2, NodeFacts DEF ResumeNode, Begin, logVars
  <2>2. QED
    BY <2>1 DEF ReaderInv, Reads
<1>3. ASSUME NEW n \in Nodes, publish(n) PROVE ReaderInv'
  <2>1. /\ UNCHANGED <<call, state>> /\ reader' = [reader EXCEPT ![n] = offerToAll(n, node[n].head + 1)]
    BY <1>3 DEF publish
  <2>2. \A m \in Nodes : node'[m].object = node[m].object
    BY <1>3, NodeFacts
  <2>3. \A m \in Nodes, r \in Objects :
          reader'[m][r].at = reader[m][r].at /\ reader'[m][r].object = reader[m][r].object
    <3> TAKE m \in Nodes, r \in Objects
    <3>1. CASE m # n
      BY <2>1, <3>1 DEF StreamTypes
    <3>2. CASE m = n
      <4>1. reader'[m][r] = reader[n][r]
            \/ \E q : reader'[m][r] = [reader[n][r] EXCEPT !.queue = q]
        BY <2>1, <3>2 DEF StreamTypes, offerToAll
      <4>2. QED
        BY <1>0, <3>2, <4>1 DEF ReaderType
    <3>3. QED
      BY <3>1, <3>2
  <2>4. QED
    BY <1>0, <2>1, <2>2, <2>3, ReaderFrame DEF Reads
<1>4. ASSUME NEW n \in Nodes, NEW r \in Objects, OnBlock(n, r) PROVE ReaderInv'
  <2>1. /\ UNCHANGED <<call, state, node>>
        /\ reader' = [reader EXCEPT ![n][r].queue = Tail(reader[n][r].queue)]
    BY <1>4 DEF OnBlock
  <2>2. \A m \in Nodes, q \in Objects :
          reader'[m][q].at = reader[m][q].at /\ reader'[m][q].object = reader[m][q].object
    <3> TAKE m \in Nodes, q \in Objects
    <3>1. \/ reader'[m][q] = reader[m][q]
          \/ reader'[m][q] = [reader[m][q] EXCEPT !.queue = Tail(reader[n][r].queue)]
      BY <2>1 DEF StreamTypes
    <3>2. QED
      BY <1>0, <3>1 DEF ReaderType
  <2>3. QED
    BY <1>0, <2>1, <2>2, ReaderFrame DEF Reads
<1>5. ASSUME NEW n \in Nodes, NEW r \in Objects, LogEnds(n, r) \/ LogFails(n, r)
      PROVE  ReaderInv'
  BY <1>5, ReaderEnds DEF LogEnds, LogFails, Reads
<1>6. CASE CallReturns
  <2>1. /\ UNCHANGED <<reader, state>> /\ call' = NoCall
        /\ \A m \in Nodes : node'[m].object = node[m].object
    BY <1>6, NodeFacts, ZenonT(60) DEF CallReturns
  <2>2. NoCall.at # "attach"
    BY CallFacts
  <2>3. QED
    BY <2>1, <2>2 DEF ReaderInv, Reads
<1>7. CASE LogCreated
  <2>1. UNCHANGED <<reader, node>> /\ call.node \in Nodes /\ call # NoCall
    BY <1>7, CallFacts DEF LogCreated, Serving
  <2>2. \A m \in Nodes : state'[m].source = state[m].source
    BY <1>0, <1>7, <2>1 DEF LogCreated, StreamTypes, StateType
  <2>3. \/ call'.at = "start"
        \/ call'.node = call.node /\ ~isConsumed(call.node)
    BY <1>7, <2>1, ServedFacts DEF LogCreated
  <2>4. call'.at = "attach" => state'[call'.node].source # node'[call'.node].object
    BY <2>1, <2>2, <2>3 DEF isConsumed
  <2>5. QED
    BY <2>1, <2>2, <2>4 DEF ReaderInv, Reads
<1>8. CASE LogAttach
  <2> DEFINE n == call.node
             r == state[n].attached + 1
  <2>1. /\ n \in Nodes /\ node' = node /\ call'.at = "start"
        /\ reader' = [reader EXCEPT ![n][r] = subscribe(n)]
        /\ state' = [state EXCEPT ![n].source = node[n].object, ![n].attached = r]
    BY <1>8, CallFacts, ServedFacts DEF LogAttach
  <2>2. state[n].source # node[n].object
    BY <1>8 DEF LogAttach, ReaderInv
  <2>3. \A q \in Objects : Reads(n, q) => reader[n][q].object # node[n].object
    BY <2>1, <2>2 DEF ReaderInv
  <2>4. \A m \in Nodes, q \in Objects :
          \/ reader'[m][q] = reader[m][q]
          \/ m = n /\ q = r /\ reader'[m][q].object = node[n].object
    <3>1. subscribe(n).object = node[n].object
      BY DEF subscribe
    <3>2. QED
      BY <2>1, <3>1 DEF StreamTypes
  <2>5. /\ state'[n].source = node[n].object
        /\ \A m \in Nodes \ {n} : state'[m] = state[m]
    BY <1>0, <2>1 DEF StreamTypes, StateType
  <2>6. ASSUME NEW m \in Nodes, NEW q \in Objects, Reads(m, q)'
        PROVE  /\ reader'[m][q].object <= node'[m].object
               /\ reader'[m][q].object = node'[m].object => state'[m].source = node'[m].object
    <3>1. node[n].object <= node[n].object
      BY <1>0, <2>1
    <3>2. CASE reader'[m][q] = reader[m][q]
      <4>1. Reads(m, q)
        BY <2>6, <3>2 DEF Reads
      <4>2. /\ reader[m][q].object <= node[m].object
            /\ reader[m][q].object = node[m].object => state[m].source = node[m].object
        BY <4>1 DEF ReaderInv
      <4>3. m = n => state'[m].source = node[m].object
        BY <2>5
      <4>4. m # n => state'[m] = state[m]
        BY <2>5
      <4>5. QED
        BY <2>1, <3>2, <4>2, <4>3, <4>4
    <3>3. CASE m = n /\ q = r /\ reader'[m][q].object = node[n].object
      BY <2>1, <2>5, <3>1, <3>3
    <3>4. QED
      BY <2>4, <3>2, <3>3
  <2>7. \A m \in Nodes, p, q \in Objects :
          p # q /\ Reads(m, p)' /\ Reads(m, q)' => reader'[m][p].object # reader'[m][q].object
    BY <2>3, <2>4 DEF ReaderInv, Reads
  <2>8. QED
    BY <2>1, <2>6, <2>7 DEF ReaderInv
<1>9. QED
  BY <1>1, <1>2, <1>3, <1>4, <1>5, <1>6, <1>7, <1>8 DEF Stream

-----------------------------------------------------------------------------
(* Why a node has one sampler, and why the dump is final: a sampler that   *)
(* runs is the current one of a node in the map of subjects, and once the  *)
(* Prometheus dispatcher is down no reader of metrics comes back.          *)
SubjectType == [current : Nat, exists : BOOLEAN,
                sampler : [Objects -> {"none", "idle", "reading", "gone"}]]
PromReaders == [Objects -> {"none", "idle", "reading", "failed", "gone"}]
PromType == [channel : [Nodes -> Nat], open : [Nodes -> BOOLEAN], queue : [Nodes -> Int],
             reader : [Nodes -> PromReaders], ticker : {"idle", "sending", "gone"},
             todo : SUBSET Nodes, done : BOOLEAN]

FeedTypes == subject \in [Nodes -> SubjectType] /\ prom \in PromType

Samples(n, k) == subject[n].sampler[k] \in {"idle", "reading"}

SamplerInv ==
  \A n \in Nodes, k \in Objects : Samples(n, k) =>
    subject[n].exists /\ k = subject[n].current

FinalInv ==
  /\ monitor \in {"sources", "dumped"} => PromReadersAreDone
  /\ monitor = "dumped" => \A n \in Nodes, k \in Objects : ~Samples(n, k)

(* Nothing feeds a series at first. *)
LEMMA InitFeeds == Init => FeedTypes /\ SamplerInv /\ FinalInv
<1> SUFFICES ASSUME Init PROVE FeedTypes /\ SamplerInv /\ FinalInv
  OBVIOUS
<1>1. subject \in [Nodes -> SubjectType]
  BY DEF Init, SubjectType
<1>2. prom \in PromType
  BY DEF Init, PromType, PromReaders
<1>3. SamplerInv
  BY DEF Init, SamplerInv, Samples
<1>4. QED
  BY <1>1, <1>2, <1>3 DEF Init, FeedTypes, FinalInv

(* The readers of metrics after each step of the Prometheus dispatcher: a  *)
(* reader comes to life for a callback only, and changes where it is       *)
(* otherwise only if it has not gone.                                      *)
StayGone ==
  \A n \in Nodes, k \in Objects :
    prom.reader[n][k] \in {"none", "gone"} => prom'.reader[n][k] = prom.reader[n][k]

(* One reader moves on. *)
LEMMA PromMoves ==
  ASSUME prom \in PromType, NEW n \in Nodes, NEW k \in Objects,
         NEW at \in {"idle", "reading", "failed", "gone"},
         prom.reader[n][k] \notin {"none", "gone"}, setPromReader(n, k, at)
  PROVE  prom' \in PromType /\ StayGone
  BY DEF PromType, PromReaders, StayGone, setPromReader

(* The readers of a channel that is closed. *)
LEMMA ReadersType ==
  ASSUME prom \in PromType, NEW n \in Nodes, NEW takes \in BOOLEAN
  PROVE  /\ readersOf(n, takes) \in PromReaders
         /\ \A k \in Objects : prom.reader[n][k] \in {"none", "gone"} =>
              readersOf(n, takes)[k] = prom.reader[n][k]
  BY DEF readersOf, PromType, PromReaders

(* A step keeps the dispatcher's types, and outside of a callback no reader *)
(* of metrics comes to life.                                                *)
LEMMA PromStep ==
  ASSUME prom \in PromType, CallInv, Next
  PROVE  prom' \in PromType /\ (call = NoCall => StayGone)
<1>1. CASE PromCreated
  <2>1. call # NoCall /\ call.node \in Nodes
    BY <1>1, CallFacts DEF PromCreated, Serving
  <2>2. prom' \in PromType
    <3> DEFINE n == call.node
               k == prom.channel[n] + 1
               ch == [prom.channel EXCEPT ![n] = k]
               op == [prom.open EXCEPT ![n] = TRUE]
               qu == [prom.queue EXCEPT ![n] = 0]
               re == [prom.reader EXCEPT ![n][k] = "idle"]
    <3>1. \/ prom' = prom
          \/ prom' = [prom EXCEPT !.channel = ch, !.open = op, !.queue = qu, !.reader = re]
      BY <1>1 DEF PromCreated
    <3>2. ch \in [Nodes -> Nat]
      BY <2>1 DEF PromType
    <3>3. op \in [Nodes -> BOOLEAN]
      BY <2>1, Zenon DEF PromType
    <3>4. qu \in [Nodes -> Int]
      BY <2>1 DEF PromType
    <3>5. re \in [Nodes -> PromReaders]
      BY <2>1 DEF PromType, PromReaders
    <3> HIDE DEF ch, op, qu, re
    <3>6. QED
      BY <3>1, <3>2, <3>3, <3>4, <3>5 DEF PromType
  <2>3. QED
    BY <2>1, <2>2
<1>2. CASE PromRemoved
  <2>1. call # NoCall /\ call.node \in Nodes
    BY <1>2, CallFacts DEF PromRemoved, Serving
  <2>2. \A takes \in BOOLEAN : readersOf(call.node, takes) \in PromReaders
    BY <2>1, ReadersType
  <2>3. prom' \in PromType
    <3> DEFINE n == call.node
    <3>0. PICK takes \in BOOLEAN : prom' = closeChannel(n, takes)
      BY <1>2 DEF PromRemoved
    <3> DEFINE op == [prom.open EXCEPT ![n] = FALSE]
               qu == [prom.queue EXCEPT ![n] = 0]
               re == [prom.reader EXCEPT ![n] = readersOf(n, takes)]
    <3>1. prom' = [prom EXCEPT !.open = op, !.queue = qu, !.reader = re]
      BY <3>0 DEF closeChannel
    <3>2. op \in [Nodes -> BOOLEAN]
      BY <2>1 DEF PromType
    <3>3. qu \in [Nodes -> Int]
      BY <2>1 DEF PromType
    <3>4. re \in [Nodes -> PromReaders]
      BY <2>1, <2>2 DEF PromType
    <3> HIDE DEF op, qu, re
    <3>5. QED
      BY <3>1, <3>2, <3>3, <3>4 DEF PromType
  <2>4. QED
    BY <2>1, <2>3
<1>3. CASE TickerFires
  BY <1>3 DEF TickerFires, PromType, StayGone
<1>4. ASSUME NEW n \in Nodes, SendTick(n) PROVE prom' \in PromType /\ StayGone
  <2> DEFINE qu == [prom.queue EXCEPT ![n] = prom.queue[n] + 1]
             to == prom.todo \ {n}
             ti == IF prom.todo = {n} THEN "idle" ELSE prom.ticker
  <2>1. prom' = [prom EXCEPT !.queue = qu, !.todo = to, !.ticker = ti]
    BY <1>4 DEF SendTick
  <2>2. /\ qu \in [Nodes -> Int] /\ to \in SUBSET Nodes
        /\ ti \in {"idle", "sending", "gone"}
    BY DEF PromType
  <2> HIDE DEF qu, to, ti
  <2>3. prom' \in PromType /\ prom'.reader = prom.reader
    BY <2>1, <2>2 DEF PromType
  <2>4. QED
    BY <2>3 DEF StayGone
<1>5. CASE StopTicker
  <2>0. PICK takers \in SUBSET Nodes : prom' = closeChannels(takers)
    BY <1>5 DEF StopTicker
  <2>1. \A n \in Nodes : (n \in takers) \in BOOLEAN
    OBVIOUS
  <2>2. \A n \in Nodes :
          /\ readersOf(n, n \in takers) \in PromReaders
          /\ \A k \in Objects : prom.reader[n][k] \in {"none", "gone"} =>
               readersOf(n, n \in takers)[k] = prom.reader[n][k]
    BY <2>1, ReadersType, Zenon
  <2>3. QED
    <3> DEFINE op == [n \in Nodes |-> FALSE]
               qu == [n \in Nodes |-> 0]
               re == [n \in Nodes |-> readersOf(n, n \in takers)]
    <3>1. prom' = [prom EXCEPT !.open = op, !.queue = qu, !.reader = re, !.ticker = "gone"]
      BY <2>0 DEF closeChannels
    <3>2. op \in [Nodes -> BOOLEAN] /\ qu \in [Nodes -> Int]
      OBVIOUS
    <3>3. re \in [Nodes -> PromReaders] /\ \A n \in Nodes : re[n] = readersOf(n, n \in takers)
      BY <2>2
    <3> HIDE DEF op, qu, re
    <3>4. prom' \in PromType /\ prom'.reader = re
      BY <3>1, <3>2, <3>3 DEF PromType
    <3>5. QED
      BY <2>2, <3>3, <3>4 DEF StayGone
<1>6. ASSUME NEW n \in Nodes, NEW k \in Objects, TakeTick(n, k)
      PROVE  prom' \in PromType /\ StayGone
  <2> DEFINE qu == [prom.queue EXCEPT ![n] = prom.queue[n] - 1]
             re == [prom.reader EXCEPT ![n][k] = "reading"]
  <2>1. prom' = [prom EXCEPT !.queue = qu, !.reader = re] /\ prom.reader[n][k] = "idle"
    BY <1>6 DEF TakeTick
  <2>2. qu \in [Nodes -> Int]
    BY DEF PromType
  <2>4. re \in [Nodes -> PromReaders]
    BY DEF PromType, PromReaders
  <2>5. \A m \in Nodes, j \in Objects : re[m][j] = prom.reader[m][j] \/ (m = n /\ j = k)
    BY DEF PromType, PromReaders
  <2> HIDE DEF qu, re
  <2>6. prom' \in PromType /\ prom'.reader = re
    BY <2>1, <2>2, <2>4 DEF PromType
  <2>7. QED
    BY <2>1, <2>5, <2>6 DEF StayGone
<1>7. ASSUME NEW n \in Nodes, NEW k \in Objects,
             distributeLog(n, k) \/ ReadFails(n, k) \/ ReportFailure(n, k)
      PROVE  prom' \in PromType /\ StayGone
  <2>1. prom.reader[n][k] \in {"reading", "failed"}
    BY <1>7 DEF distributeLog, ReadFails, ReportFailure
  <2>2. \E at \in {"idle", "gone", "failed"} : setPromReader(n, k, at)
    BY <1>7 DEF distributeLog, ReadFails, ReportFailure, nextTick
  <2>3. QED
    BY <2>1, <2>2, PromMoves
<1>8. CASE Shutdown
  BY <1>8 DEF Shutdown, PromType, StayGone
<1>9. CASE UNCHANGED prom
  BY <1>9 DEF StayGone
<1>10. CASE /\ ~PromCreated /\ ~PromRemoved /\ ~TickerFires /\ ~StopTicker /\ ~Shutdown
            /\ \A n \in Nodes : ~SendTick(n)
            /\ \A n \in Nodes, k \in Objects :
                 /\ ~TakeTick(n, k) /\ ~distributeLog(n, k)
                 /\ ~ReadFails(n, k) /\ ~ReportFailure(n, k)
  <2>1. UNCHANGED prom
    BY <1>10, ZenonT(60)
    DEF Next, Network, Environment, Work, CreateNode, SuspendNode, ResumeNode, RemoveNode,
        publish, LogFails, readerEnds, ReadSensor, CallReturns, LogCreated, LogAttach,
        LogAttachFails, PromCreateFails,
        LogRemoval, StopSource, OnBlock, LogEnds, SensorRead, AddSubject, RemoveSubject,
        PromIsDown, SourcesAreDown, periodOnly
  <2>2. QED
    BY <2>1, <1>9
<1>11. QED
  BY <1>1, <1>2, <1>3, <1>4, <1>5, <1>6, <1>7, <1>8, <1>10

(* A node's sampler is stopped, and one is started in its place. *)
LEMMA Stopped ==
  ASSUME FeedTypes, SamplerInv, NEW n \in Nodes
  PROVE  /\ stopped(n) \in SubjectType
         /\ stopped(n).current = subject[n].current /\ stopped(n).exists = subject[n].exists
         /\ \A k \in Objects : stopped(n).sampler[k] \notin {"idle", "reading"}
<1>1. subject[n] \in SubjectType
  BY DEF FeedTypes
<1>2. CASE subject[n].exists
  <2> DEFINE c == subject[n].current
  <2>1. stopped(n) = [subject[n] EXCEPT !.sampler[c] = "gone"]
    BY <1>2 DEF stopped
  <2>2. \A k \in Objects : subject[n].sampler[k] \in {"idle", "reading"} => k = c
    BY DEF SamplerInv, Samples
  <2>3. QED
    BY <1>1, <2>1, <2>2 DEF SubjectType
<1>3. CASE ~subject[n].exists
  <2>1. stopped(n) = subject[n]
    BY <1>3 DEF stopped
  <2>2. QED
    BY <1>1, <1>3, <2>1 DEF SamplerInv, Samples
<1>4. QED
  BY <1>2, <1>3

(* The subject of one node changes, to one whose sampler is the current one. *)
LEMMA SubjectChanges ==
  ASSUME FeedTypes, SamplerInv, NEW n \in Nodes, NEW x \in SubjectType,
         \A k \in Objects : x.sampler[k] \in {"idle", "reading"} => x.exists /\ k = x.current,
         subject' = [subject EXCEPT ![n] = x]
  PROVE  subject' \in [Nodes -> SubjectType] /\ SamplerInv'
<1>1. subject' \in [Nodes -> SubjectType]
  BY DEF FeedTypes
<1>2. subject'[n] = x /\ \A m \in Nodes \ {n} : subject'[m] = subject[m]
  BY DEF FeedTypes
<1>3. QED
  BY <1>1, <1>2 DEF SamplerInv, Samples

(* Who changes the subjects, and who takes the shutdown further. *)
LEMMA FeedFrame ==
  ASSUME Next
  PROVE  /\ \/ UNCHANGED subject
            \/ AddSubject \/ RemoveSubject \/ \E n \in Nodes : StopSource(n)
            \/ \E n \in Nodes, k \in Objects : ReadSensor(n, k) \/ SensorRead(n, k)
         /\ UNCHANGED monitor \/ Shutdown \/ PromIsDown \/ SourcesAreDown
<1>1. CASE Network
  BY <1>1 DEF Network, CreateNode, SuspendNode, ResumeNode, RemoveNode, Shutdown
<1>2. CASE Environment
  BY <1>2 DEF Environment, publish, LogFails, readerEnds, ReadFails, TickerFires, ReadSensor,
              LogAttachFails, PromCreateFails, promOnly, periodOnly
<1>3. CASE Work
  <2>1. CASE CallReturns \/ LogCreated \/ LogAttach \/ LogRemoval
    BY <2>1 DEF CallReturns, LogCreated, LogAttach, LogRemoval
  <2>2. CASE PromCreated \/ PromRemoved \/ StopTicker \/ \E n \in Nodes : SendTick(n)
    BY <2>2 DEF PromCreated, PromRemoved, StopTicker, SendTick, promOnly
  <2>3. CASE \E n \in Nodes, k \in Objects :
               \/ OnBlock(n, k) \/ LogEnds(n, k)
               \/ TakeTick(n, k) \/ distributeLog(n, k) \/ ReportFailure(n, k)
    BY <2>3 DEF OnBlock, LogEnds, readerEnds, TakeTick, distributeLog, ReportFailure, promOnly
  <2>4. CASE \/ AddSubject \/ RemoveSubject \/ \E n \in Nodes : StopSource(n)
             \/ \E n \in Nodes, k \in Objects : SensorRead(n, k)
    <3>1. UNCHANGED monitor
      BY <2>4 DEF AddSubject, RemoveSubject, StopSource, SensorRead, periodOnly
    <3>2. QED
      BY <2>4, <3>1
  <2>5. CASE PromIsDown \/ SourcesAreDown
    BY <2>5 DEF PromIsDown, SourcesAreDown
  <2>6. QED
    BY <1>3, <2>1, <2>2, <2>3, <2>4, <2>5 DEF Work
<1>4. QED
  BY <1>1, <1>2, <1>3 DEF Next

(* Every step of the periodic sources. *)
LEMMA SubjectStep ==
  ASSUME FeedTypes, CallInv, SamplerInv, Next
  PROVE  subject' \in [Nodes -> SubjectType] /\ SamplerInv'
<1>1. CASE AddSubject
  <2> DEFINE n == call.node
             k == subject[n].current + 1
             x == [stopped(n) EXCEPT !.current = k, !.exists = TRUE, !.sampler[k] = "idle"]
  <2>1. n \in Nodes /\ subject' = [subject EXCEPT ![n] = x]
    BY <1>1, CallFacts DEF AddSubject, Serving
  <2>2. k \in Nat /\ stopped(n) \in SubjectType
    BY <2>1, Stopped DEF FeedTypes, SubjectType
  <2>3. \A j \in Objects : stopped(n).sampler[j] \notin {"idle", "reading"}
    BY <2>1, Stopped
  <2> HIDE DEF k
  <2>4. x \in SubjectType
    BY <2>2 DEF SubjectType
  <2>5. \A j \in Objects : x.sampler[j] \in {"idle", "reading"} => x.exists /\ j = x.current
    BY <2>2, <2>3 DEF SubjectType
  <2> HIDE DEF x, n
  <2>6. QED
    BY <2>1, <2>4, <2>5, SubjectChanges
<1>2. CASE RemoveSubject
  <2> DEFINE n == call.node
             x == removed(n)
  <2>1. n \in Nodes /\ subject' = [subject EXCEPT ![n] = x]
    BY <1>2, CallFacts DEF RemoveSubject, Serving
  <2>2. stopped(n) \in SubjectType
    BY <2>1, Stopped
  <2>3. \A j \in Objects : stopped(n).sampler[j] \notin {"idle", "reading"}
    BY <2>1, Stopped
  <2>4. x \in SubjectType /\ x.sampler = stopped(n).sampler
    BY <2>2 DEF SubjectType, removed
  <2> HIDE DEF x, n
  <2>5. QED
    BY <2>1, <2>3, <2>4, SubjectChanges
<1>3. ASSUME NEW n \in Nodes, StopSource(n)
      PROVE  subject' \in [Nodes -> SubjectType] /\ SamplerInv'
  <2>1. subject' = [subject EXCEPT ![n] = stopped(n)]
    BY <1>3 DEF StopSource
  <2>2. QED
    BY <2>1, Stopped, SubjectChanges
<1>4. ASSUME NEW n \in Nodes, NEW k \in Objects, ReadSensor(n, k) \/ SensorRead(n, k)
      PROVE  subject' \in [Nodes -> SubjectType] /\ SamplerInv'
  <2>1. PICK at \in {"idle", "reading"} : setSampler(n, k, at)
    BY <1>4 DEF ReadSensor, SensorRead
  <2>2. Samples(n, k)
    BY <1>4 DEF ReadSensor, SensorRead, Samples
  <2> DEFINE x == [subject[n] EXCEPT !.sampler[k] = at]
  <2>3. subject' = [subject EXCEPT ![n] = x]
    BY <2>1 DEF setSampler, FeedTypes
  <2>4. subject[n] \in SubjectType
    BY DEF FeedTypes
  <2>5. /\ x \in SubjectType /\ x.exists = subject[n].exists /\ x.current = subject[n].current
        /\ \A j \in Objects \ {k} : x.sampler[j] = subject[n].sampler[j]
    BY <2>4 DEF SubjectType
  <2>6. \A j \in Objects : x.sampler[j] \in {"idle", "reading"} => x.exists /\ j = x.current
    BY <2>2, <2>5 DEF SamplerInv, Samples
  <2> HIDE DEF x
  <2>7. QED
    BY <2>3, <2>5, <2>6, SubjectChanges
<1>5. CASE UNCHANGED subject
  BY <1>5 DEF FeedTypes, SamplerInv, Samples
<1>6. QED
  BY <1>1, <1>2, <1>3, <1>4, <1>5, FeedFrame

(* The shutdown goes on by its own steps, and once the samplers are stopped *)
(* none comes to life.                                                      *)
LEMMA FinalStep ==
  ASSUME FeedTypes, CallInv, SamplerInv, FinalInv, Next
  PROVE  FinalInv'
<1>1. CASE Shutdown
  BY <1>1 DEF Shutdown, FinalInv
<1>2. CASE PromIsDown
  BY <1>2 DEF PromIsDown, FinalInv, PromReadersAreDone
<1>3. CASE SourcesAreDown
  <2>1. \A n \in Nodes : subject[n].exists => subject[n].sampler[subject[n].current] = "gone"
    BY <1>3 DEF SourcesAreDown
  <2>2. \A n \in Nodes, k \in Objects : ~Samples(n, k)
    BY <2>1 DEF SamplerInv, Samples
  <2>3. QED
    BY <1>3, <2>2 DEF SourcesAreDown, FinalInv, PromReadersAreDone, Samples
<1>4. CASE UNCHANGED monitor
  <2>1. monitor \in {"sources", "dumped"} => call = NoCall
    BY DEF CallInv
  <2>2. monitor \in {"sources", "dumped"} => PromReadersAreDone'
    BY <2>1, PromStep DEF FinalInv, FeedTypes, PromReadersAreDone, StayGone
  <2>3. ASSUME monitor = "dumped" PROVE UNCHANGED subject
    <3>1. ~AddSubject /\ ~RemoveSubject
      BY <2>1, <2>3, CallFacts DEF AddSubject, RemoveSubject, Serving
    <3>2. \A n \in Nodes, k \in Objects : ~ReadSensor(n, k) /\ ~SensorRead(n, k)
      BY <2>3 DEF ReadSensor, SensorRead, FinalInv, Samples
    <3>3. \A n \in Nodes : ~StopSource(n)
      BY <2>3 DEF StopSource
    <3>4. QED
      BY <3>1, <3>2, <3>3, FeedFrame
  <2>4. QED
    BY <1>4, <2>2, <2>3 DEF FinalInv, Samples
<1>5. QED
  BY <1>1, <1>2, <1>3, <1>4, FeedFrame

(* The samplers and the readers of metrics, in every reachable state. *)
LEMMA FeedInvariant == Spec => [](FeedTypes /\ SamplerInv /\ FinalInv)
<1>1. CallInv /\ FeedTypes /\ SamplerInv /\ FinalInv /\ [Next]_vars
        => (FeedTypes /\ SamplerInv /\ FinalInv)'
  <2> SUFFICES ASSUME CallInv, FeedTypes, SamplerInv, FinalInv, [Next]_vars
               PROVE  (FeedTypes /\ SamplerInv /\ FinalInv)'
    OBVIOUS
  <2>1. CASE Next
    <3>1. FeedTypes'
      BY <2>1, PromStep, SubjectStep DEF FeedTypes
    <3>2. QED
      BY <2>1, <3>1, SubjectStep, FinalStep
  <2>2. CASE UNCHANGED vars
    BY <2>2 DEF vars, FeedTypes, SamplerInv, FinalInv, Samples, PromReadersAreDone
  <2>3. QED
    BY <2>1, <2>2
<1>2. QED
  BY <1>1, InitFeeds, StreamInvariant, PTL DEF Spec

(* The steps beside the streams attach no reader and let none attach. *)
LEMMA ReaderAside ==
  ASSUME CallInv, ReaderInv, Aside
  PROVE  ReaderInv'
<1>1. UNCHANGED streamVars
  BY AsideFrame
<1>2. call' = call \/ call'.at = "start"
  <2>1. CASE \/ LogRemoval \/ LogAttachFails \/ PromCreated \/ PromCreateFails
             \/ PromRemoved \/ AddSubject \/ RemoveSubject
    <3>1. call # NoCall
      BY <2>1, CallFacts
      DEF LogRemoval, LogAttachFails, PromCreated, PromCreateFails, PromRemoved, AddSubject,
          RemoveSubject, Serving
    <3>2. \E listener : Served(listener)
      BY <2>1
      DEF LogRemoval, LogAttachFails, PromCreated, PromCreateFails, PromRemoved, AddSubject,
          RemoveSubject
    <3>3. QED
      BY <3>1, <3>2, ServedFacts
  <2>2. CASE \E n \in Nodes : SuspendNode(n) \/ RemoveNode(n)
    BY <2>2 DEF SuspendNode, RemoveNode, Begin
  <2>3. CASE \/ Shutdown \/ TickerFires \/ StopTicker \/ PromIsDown \/ SourcesAreDown
             \/ \E n \in Nodes : SendTick(n) \/ StopSource(n)
             \/ \E n \in Nodes, k \in Objects :
                  \/ ReadFails(n, k) \/ ReadSensor(n, k) \/ TakeTick(n, k)
                  \/ distributeLog(n, k) \/ ReportFailure(n, k) \/ SensorRead(n, k)
    BY <2>3
    DEF Shutdown, TickerFires, StopTicker, PromIsDown, SourcesAreDown, SendTick, StopSource,
        ReadFails, ReadSensor, TakeTick, distributeLog, ReportFailure, SensorRead
  <2>4. QED
    BY <2>1, <2>2, <2>3 DEF Aside
<1>3. QED
  BY <1>1, <1>2 DEF streamVars, ReaderInv, Reads

(* The readers of the streams, in every reachable state. *)
LEMMA ReaderInvariant == Spec => []ReaderInv
<1>1. Init => ReaderInv
  <2>1. NoCall.at # "attach"
    BY DEF NoCall
  <2>2. Init => \A n \in Nodes, r \in Objects : ~Reads(n, r)
    BY DEF Init, Reads, NoReader
  <2>3. QED
    BY <2>1, <2>2 DEF Init, ReaderInv
<1>2. StreamTypes /\ CallInv /\ ReaderInv /\ [Next]_vars => ReaderInv'
  <2> SUFFICES ASSUME StreamTypes, CallInv, ReaderInv, [Next]_vars PROVE ReaderInv'
    OBVIOUS
  <2>1. CASE UNCHANGED vars
    BY <2>1 DEF vars, ReaderInv, Reads
  <2>2. QED
    BY <2>1, Steps, ReaderAside, ReaderStream
<1>3. QED
  BY <1>1, <1>2, StreamInvariant, PTL DEF Spec

-----------------------------------------------------------------------------
(* However often nodes are killed, restarted, stopped and started, a log    *)
(* stream has one reader and a node one sampler, for any number of nodes    *)
(* and callbacks (node_log_provider.go AfterNodeCreation, periodic_source.go *)
(* AddSubject and RemoveSubject).                                           *)
THEOREM StreamsHaveOneReader == Spec => []OneReaderPerStream
<1>1. ReaderInv /\ SamplerInv => OneReaderPerStream
  <2> SUFFICES ASSUME ReaderInv, SamplerInv, NEW n \in Nodes,
                      NEW r \in Objects, NEW q \in Objects, r # q
               PROVE  /\ ~ /\ reader[n][r].at = "reading" /\ reader[n][q].at = "reading"
                           /\ reader[n][r].object = reader[n][q].object
                      /\ ~ {subject[n].sampler[r], subject[n].sampler[q]} \subseteq {"idle", "reading"}
    BY DEF OneReaderPerStream
  <2>1. ~ /\ reader[n][r].at = "reading" /\ reader[n][q].at = "reading"
          /\ reader[n][r].object = reader[n][q].object
    BY DEF ReaderInv, Reads
  <2>2. ~(Samples(n, r) /\ Samples(n, q))
    BY DEF SamplerInv
  <2>3. QED
    BY <2>1, <2>2 DEF Samples
<1>2. QED
  BY <1>1, ReaderInvariant, FeedInvariant, PTL

(* When Monitor.Shutdown writes the measurements, every reader of metrics   *)
(* and every sampler has ended, the ones of earlier registrations too       *)
(* (monitor.go Shutdown, prom_log_provider.go Shutdown, periodic_source.go). *)
THEOREM NothingFeedsAfterDump == Spec => []DumpIsFinal
<1>1. FeedTypes /\ FinalInv => DumpIsFinal
  <2> SUFFICES ASSUME FeedTypes, FinalInv, monitor = "dumped",
                      NEW n \in Nodes, NEW k \in Objects
               PROVE  /\ prom.reader[n][k] \in {"none", "gone"}
                      /\ subject[n].sampler[k] \in {"none", "gone"}
    BY DEF DumpIsFinal
  <2>1. prom.reader[n][k] \in {"none", "gone"}
    BY DEF FinalInv, PromReadersAreDone
  <2>2. ~Samples(n, k) /\ subject[n].sampler[k] \in {"none", "idle", "reading", "gone"}
    BY DEF FinalInv, FeedTypes, SubjectType
  <2>3. QED
    BY <2>1, <2>2 DEF Samples
<1>2. QED
  BY <1>1, FeedInvariant, PTL

-----------------------------------------------------------------------------
(* Why a gap is a drop: what is buffered comes in order, up to what was    *)
(* seen (recorded in the series, lost, or skipped by a client that started *)
(* on a used data volume), and a client's head is covered by what was seen *)
(* and by the buffer that the next line goes to: the queue of the          *)
(* subscriber, or the replay buffer when there is none.                    *)
Covers(x, S) == \A y \in Heights : y <= x => y \in S
Ordered(q, S) ==
  \A i \in 1 .. Len(q) : \A y \in Heights :
    y < q[i] => y \in S \/ \E j \in 1 .. i - 1 : q[j] = y

Seen(n) == ToSet(series[n]) \cup lost[n] \cup skipped[n]
AllSeen == ToSet(netSeries) \cup UNION {lost[n] \cup skipped[n] : n \in Nodes}

StreamGaps(n) ==
  /\ \A r \in Objects : Reads(n, r) => Ordered(reader[n][r].queue, Seen(n))
  /\ \A r \in subscribers(n) :
       /\ Covers(node[n].head, Seen(n) \cup ToSet(reader[n][r].queue))
       /\ \A x \in ToSet(logs[n].replay) : Covers(x, Seen(n) \cup ToSet(reader[n][r].queue))
  /\ subscribers(n) = {} =>
       /\ Covers(node[n].head, Seen(n) \cup ToSet(logs[n].replay))
       /\ Ordered(logs[n].replay, Seen(n))

SeriesGaps ==
  /\ \A n \in Nodes : series[n] # <<>> => Covers(Last(series[n]), Seen(n))
  /\ \A n \in Nodes : ToSet(series[n]) \subseteq AllSeen
  /\ netSeries # <<>> => Covers(Last(netSeries), AllSeen)

GapInv ==
  /\ SeriesGaps
  /\ monitor \notin {"sources", "dumped"} => \A n \in Nodes : StreamGaps(n)

(* The heights are numbers. *)
LEMMA HeightsAreNumbers == Heights \subseteq Nat
  BY Bounds DEF Heights

(* What a sequence of heights holds with one more, ... *)
LEMMA AppendFacts ==
  ASSUME NEW q \in Seq(Heights), NEW h \in Heights
  PROVE  ToSet(Append(q, h)) = ToSet(q) \cup {h} /\ Last(Append(q, h)) = h
<1>1. ToSet(Append(q, h)) = ToSet(q) \cup {h}
  <2>1. \A i \in 1 .. Len(q) : Append(q, h)[i] = q[i]
    OBVIOUS
  <2>2. /\ Append(q, h)[Len(q) + 1] = h /\ DOMAIN Append(q, h) = 1 .. Len(q) + 1
        /\ DOMAIN q = 1 .. Len(q) /\ Len(q) \in Nat
    OBVIOUS
  <2>3. 1 .. Len(q) + 1 = (1 .. Len(q)) \cup {Len(q) + 1}
    BY <2>2
  <2>4. QED
    BY <2>1, <2>2, <2>3 DEF ToSet
<1>2. Last(Append(q, h)) = h
  BY DEF Last
<1>3. QED
  BY <1>1, <1>2

(* ... and how its first, its last and the others make it up. *)
LEMMA SeqFacts ==
  ASSUME NEW q \in Seq(Heights)
  PROVE  /\ ToSet(<<>>) = {} /\ ToSet(q) \subseteq Heights
         /\ q # <<>> => /\ Head(q) \in Heights /\ Tail(q) \in Seq(Heights)
                        /\ ToSet(q) = {Head(q)} \cup ToSet(Tail(q))
                        /\ Last(q) \in ToSet(q)
<1>1. ToSet(<<>>) = {} /\ ToSet(q) \subseteq Heights
  BY DEF ToSet
<1>2. ASSUME q # <<>>
      PROVE  /\ Head(q) \in Heights /\ Tail(q) \in Seq(Heights)
             /\ ToSet(q) = {Head(q)} \cup ToSet(Tail(q))
             /\ Last(q) \in ToSet(q)
  <2>1. Len(q) \in Nat /\ Len(q) >= 1 /\ DOMAIN q = 1 .. Len(q)
    BY <1>2
  <2>2. /\ Head(q) = q[1] /\ Len(Tail(q)) = Len(q) - 1 /\ Tail(q) \in Seq(Heights)
        /\ \A i \in 1 .. Len(q) - 1 : Tail(q)[i] = q[i + 1]
    BY <1>2
  <2>3. DOMAIN Tail(q) = 1 .. Len(q) - 1
    BY <2>2
  <2>4. ASSUME NEW x \in ToSet(q) PROVE x \in {Head(q)} \cup ToSet(Tail(q))
    <3>1. PICK i \in 1 .. Len(q) : q[i] = x
      BY <2>1, <2>4 DEF ToSet
    <3>2. CASE i = 1
      BY <2>2, <3>1, <3>2
    <3>3. CASE i # 1
      <4>1. i - 1 \in 1 .. Len(q) - 1 /\ (i - 1) + 1 = i
        BY <2>1, <3>3
      <4>2. Tail(q)[i - 1] = x
        BY <2>2, <3>1, <4>1
      <4>3. QED
        BY <2>3, <4>1, <4>2 DEF ToSet
    <3>4. QED
      BY <3>2, <3>3
  <2>5. ASSUME NEW x \in ToSet(Tail(q)) PROVE x \in ToSet(q)
    <3>1. PICK i \in 1 .. Len(q) - 1 : Tail(q)[i] = x
      BY <2>3, <2>5 DEF ToSet
    <3>2. i + 1 \in 1 .. Len(q) /\ q[i + 1] = x
      BY <2>1, <2>2, <3>1
    <3>3. QED
      BY <2>1, <3>2 DEF ToSet
  <2>6. Head(q) \in ToSet(q) /\ Last(q) \in ToSet(q)
    BY <2>1, <2>2 DEF ToSet, Last
  <2>7. Head(q) \in Heights
    BY <1>2
  <2>8. QED
    BY <2>2, <2>4, <2>5, <2>6, <2>7
<1>3. QED
  BY <1>1, <1>2

(* Seeing more keeps a buffer in order, and a covered height covered. *)
LEMMA MoreIsSeen ==
  ASSUME NEW S, NEW T, S \subseteq T
  PROVE  /\ \A q : Ordered(q, S) => Ordered(q, T)
         /\ \A x : Covers(x, S) => Covers(x, T)
  BY DEF Ordered, Covers

(* An ordered buffer covers what it holds; its first line follows on what   *)
(* was seen, and once that is seen too the rest is in order.                *)
LEMMA OrderedTakes ==
  ASSUME NEW q \in Seq(Heights), NEW S, Ordered(q, S)
  PROVE  /\ \A x \in ToSet(q) : Covers(x, S \cup ToSet(q))
         /\ q # <<>> => /\ \A y \in Heights : y < Head(q) => y \in S
                        /\ Ordered(Tail(q), S \cup {Head(q)})
<1>0. DOMAIN q = 1 .. Len(q) /\ Len(q) \in Nat
  OBVIOUS
<1>1. ASSUME NEW x \in ToSet(q) PROVE Covers(x, S \cup ToSet(q))
  <2>1. PICK i \in 1 .. Len(q) : q[i] = x
    BY <1>0, <1>1 DEF ToSet
  <2>2. ASSUME NEW y \in Heights, y <= x PROVE y \in S \cup ToSet(q)
    <3>1. x \in Nat /\ y \in Nat
      <4>1. q[i] \in Heights
        BY <1>0, <2>1
      <4>2. QED
        BY <2>1, <4>1, HeightsAreNumbers
    <3>2. CASE y = x
      BY <1>1, <3>2
    <3>3. CASE y < x
      <4>1. y \in S \/ \E j \in 1 .. i - 1 : q[j] = y
        BY <2>1, <3>3 DEF Ordered
      <4>2. \A j \in 1 .. i - 1 : q[j] \in ToSet(q)
        BY <1>0, <2>1 DEF ToSet
      <4>3. QED
        BY <4>1, <4>2
    <3>4. QED
      BY <2>2, <3>1, <3>2, <3>3
  <2>3. QED
    BY <2>2 DEF Covers
<1>2. ASSUME q # <<>>
      PROVE  /\ \A y \in Heights : y < Head(q) => y \in S
             /\ Ordered(Tail(q), S \cup {Head(q)})
  <2>1. /\ Head(q) = q[1] /\ Len(Tail(q)) = Len(q) - 1 /\ Len(q) >= 1
        /\ \A i \in 1 .. Len(q) - 1 : Tail(q)[i] = q[i + 1]
    BY <1>2
  <2>2. \A y \in Heights : y < Head(q) => y \in S
    <3>1. 1 \in 1 .. Len(q) /\ 1 .. 1 - 1 = {}
      BY <1>0, <2>1
    <3>2. QED
      BY <2>1, <3>1 DEF Ordered
  <2>3. ASSUME NEW i \in 1 .. Len(Tail(q)), NEW y \in Heights, y < Tail(q)[i]
        PROVE  y \in S \cup {Head(q)} \/ \E j \in 1 .. i - 1 : Tail(q)[j] = y
    <3>1. i + 1 \in 1 .. Len(q) /\ i \in 1 .. Len(q) - 1 /\ y < q[i + 1]
      BY <1>0, <2>1, <2>3
    <3>2. y \in S \/ \E j \in 1 .. (i + 1) - 1 : q[j] = y
      BY <3>1 DEF Ordered
    <3>3. ASSUME NEW j \in 1 .. (i + 1) - 1, q[j] = y, y # Head(q)
          PROVE  j - 1 \in 1 .. i - 1 /\ Tail(q)[j - 1] = y
      <4>1. j # 1
        BY <2>1, <3>3
      <4>2. j - 1 \in 1 .. i - 1 /\ j - 1 \in 1 .. Len(q) - 1 /\ (j - 1) + 1 = j
        BY <1>0, <3>1, <4>1
      <4>3. QED
        BY <2>1, <3>3, <4>2
    <3>4. QED
      BY <3>2, <3>3
  <2>4. QED
    BY <2>2, <2>3 DEF Ordered
<1>3. QED
  BY <1>1, <1>2

(* A line that follows on what was seen and buffered may be buffered. *)
LEMMA OrderedGains ==
  ASSUME NEW q \in Seq(Heights), NEW S, NEW h \in Heights, Ordered(q, S),
         \A y \in Heights : y < h => y \in S \cup ToSet(q)
  PROVE  Ordered(Append(q, h), S)
<1>1. /\ Len(Append(q, h)) = Len(q) + 1 /\ Append(q, h)[Len(q) + 1] = h /\ Len(q) \in Nat
      /\ \A i \in 1 .. Len(q) : Append(q, h)[i] = q[i]
      /\ DOMAIN q = 1 .. Len(q)
  OBVIOUS
<1>2. ASSUME NEW i \in 1 .. Len(q) + 1, NEW y \in Heights, y < Append(q, h)[i]
      PROVE  y \in S \/ \E j \in 1 .. i - 1 : Append(q, h)[j] = y
  <2>1. CASE i \in 1 .. Len(q)
    <3>1. y \in S \/ \E j \in 1 .. i - 1 : q[j] = y
      BY <1>1, <1>2, <2>1 DEF Ordered
    <3>2. \A j \in 1 .. i - 1 : j \in 1 .. Len(q)
      BY <1>1, <2>1
    <3>3. QED
      BY <1>1, <3>1, <3>2
  <2>2. CASE i = Len(q) + 1
    <3>1. y \in S \/ \E j \in 1 .. Len(q) : q[j] = y
      BY <1>1, <1>2, <2>2 DEF ToSet
    <3>2. i - 1 = Len(q)
      BY <1>1, <2>2
    <3>3. QED
      BY <1>1, <3>1, <3>2
  <2>3. QED
    BY <1>1, <2>1, <2>2
<1>3. QED
  BY <1>1, <1>2 DEF Ordered

(* A step that leaves the readers and the replay buffer of a node alone,    *)
(* and after which its client is no further.                                *)
LEMMA GapFrame ==
  ASSUME StreamTypes, NEW n \in Nodes, StreamGaps(n),
         reader'[n] = reader[n], logs'[n].replay = logs[n].replay,
         node'[n].object = node[n].object,
         node'[n].head \in Nat, node'[n].head <= node[n].head,
         Seen(n) \subseteq Seen(n)'
  PROVE  StreamGaps(n)'
<1>1. subscribers(n)' = subscribers(n)
  BY DEF subscribers
<1>2. \A r \in Objects : Reads(n, r)' => Ordered(reader'[n][r].queue, Seen(n)')
  <2>1. \A r \in Objects : Reads(n, r)' => Reads(n, r)
    BY DEF Reads
  <2>2. QED
    BY <2>1, MoreIsSeen DEF StreamGaps
<1>3. \A S, T : Covers(node[n].head, S) /\ S \subseteq T => Covers(node'[n].head, T)
  <2>1. node[n].head \in Nat
    BY DEF StreamTypes, NodeType
  <2>2. \A y \in Heights : y <= node'[n].head => y <= node[n].head
    BY <2>1, HeightsAreNumbers
  <2>3. QED
    BY <2>2 DEF Covers
<1>4. \A S, T, x : Covers(x, S) /\ S \subseteq T => Covers(x, T)
  BY MoreIsSeen
<1>5. ASSUME NEW r \in subscribers(n)
      PROVE  /\ Covers(node'[n].head, Seen(n)' \cup ToSet(reader'[n][r].queue))
             /\ \A x \in ToSet(logs'[n].replay) :
                  Covers(x, Seen(n)' \cup ToSet(reader'[n][r].queue))
  <2>1. /\ Covers(node[n].head, Seen(n) \cup ToSet(reader[n][r].queue))
        /\ \A x \in ToSet(logs[n].replay) : Covers(x, Seen(n) \cup ToSet(reader[n][r].queue))
    BY <1>5 DEF StreamGaps
  <2>2. Seen(n) \cup ToSet(reader[n][r].queue) \subseteq Seen(n)' \cup ToSet(reader'[n][r].queue)
    OBVIOUS
  <2>3. QED
    BY <1>3, <1>4, <2>1, <2>2
<1>6. ASSUME subscribers(n) = {}
      PROVE  /\ Covers(node'[n].head, Seen(n)' \cup ToSet(logs'[n].replay))
             /\ Ordered(logs'[n].replay, Seen(n)')
  <2>1. /\ Covers(node[n].head, Seen(n) \cup ToSet(logs[n].replay))
        /\ Ordered(logs[n].replay, Seen(n))
    BY <1>6 DEF StreamGaps
  <2>2. Seen(n) \cup ToSet(logs[n].replay) \subseteq Seen(n)' \cup ToSet(logs'[n].replay)
    OBVIOUS
  <2>3. Ordered(logs'[n].replay, Seen(n)')
    BY <2>1, MoreIsSeen
  <2>4. QED
    BY <1>3, <2>1, <2>2, <2>3
<1>7. QED
  BY <1>1, <1>2, <1>5, <1>6 DEF StreamGaps

(* The series do not change, and more may be lost or skipped. *)
LEMMA SeriesFrame ==
  ASSUME SeriesGaps, UNCHANGED <<series, netSeries>>,
         \A n \in Nodes : lost[n] \subseteq lost'[n] /\ skipped[n] \subseteq skipped'[n]
  PROVE  SeriesGaps' /\ \A n \in Nodes : Seen(n) \subseteq Seen(n)'
<1>1. \A n \in Nodes : Seen(n) \subseteq Seen(n)'
  BY DEF Seen
<1>2. AllSeen \subseteq AllSeen'
  BY DEF AllSeen
<1>3. \A n \in Nodes : series[n] # <<>> => Covers(Last(series[n]), Seen(n)')
  BY <1>1, MoreIsSeen DEF SeriesGaps
<1>4. netSeries # <<>> => Covers(Last(netSeries), AllSeen')
  BY <1>2, MoreIsSeen DEF SeriesGaps
<1>5. QED
  BY <1>1, <1>2, <1>3, <1>4 DEF SeriesGaps

(* A block is published: to its subscriber, or else for one that comes late. *)
LEMMA PublishGaps ==
  ASSUME StreamTypes, CallInv, ReaderInv, NEW n \in Nodes, StreamGaps(n), publish(n)
  PROVE  StreamGaps(n)'
<1> DEFINE h == node[n].head + 1
<1>1. h \in Heights /\ node[n].head \in Nat /\ node'[n].head = h
  BY NodeFacts, Bounds DEF publish, StreamTypes, NodeType, Heights
<1>2. /\ logs'[n].replay = retain(n, h) /\ reader'[n] = offerToAll(n, h)
      /\ Seen(n)' = Seen(n) \cup droppedBy(n, h)
  <2>1. logs[n] \in LogType
    BY DEF StreamTypes
  <2>2. logs' = [logs EXCEPT ![n].replay = retain(n, h)] /\ reader' = [reader EXCEPT ![n] = offerToAll(n, h)]
    BY DEF publish
  <2>3. lost' = [lost EXCEPT ![n] = lost[n] \cup droppedBy(n, h)] /\ UNCHANGED <<series, skipped>>
    BY DEF publish
  <2>4. logs'[n].replay = retain(n, h)
    BY <2>1, <2>2 DEF StreamTypes, LogType
  <2>5. reader'[n] = offerToAll(n, h)
    BY <2>2 DEF StreamTypes
  <2>6. Seen(n)' = Seen(n) \cup droppedBy(n, h)
    BY <2>3 DEF StreamTypes, Seen
  <2>7. QED
    BY <2>4, <2>5, <2>6
<1>3. logs[n].replay \in Seq(Heights) /\ \A r \in Objects : reader[n][r] \in ReaderType
  BY DEF StreamTypes, LogType
<1>4. \A r \in Objects : reader[n][r].queue \in Seq(Heights)
  BY <1>3 DEF ReaderType
<1>5. ASSUME NEW y \in Heights, y < h PROVE y <= node[n].head
  <2>1. y \in Nat
    BY HeightsAreNumbers
  <2>2. QED
    BY <1>1, <1>5, <2>1
<1> HIDE DEF h
<1>6. /\ \A r \in Objects \ subscribers(n) : reader'[n][r] = reader[n][r]
      /\ \A r \in subscribers(n) :
           /\ reader'[n][r].queue = offer(reader[n][r].queue, h)
           /\ reader'[n][r].at = reader[n][r].at /\ reader'[n][r].object = reader[n][r].object
  <2>1. \A r \in Objects \ subscribers(n) : reader'[n][r] = reader[n][r]
    BY <1>2 DEF offerToAll
  <2>2. ASSUME NEW r \in subscribers(n)
        PROVE  /\ reader'[n][r].queue = offer(reader[n][r].queue, h)
               /\ reader'[n][r].at = reader[n][r].at /\ reader'[n][r].object = reader[n][r].object
    <3>1. r \in Objects
      BY <2>2 DEF subscribers
    <3>2. reader'[n][r] = [reader[n][r] EXCEPT !.queue = offer(reader[n][r].queue, h)]
      BY <1>2, <2>2, <3>1 DEF offerToAll
    <3>3. offer(reader[n][r].queue, h) \in Seq(Heights)
      BY <1>1, <1>4, <3>1 DEF offer
    <3>4. QED
      BY <1>3, <3>1, <3>2, <3>3 DEF ReaderType
  <2>3. QED
    BY <2>1, <2>2
<1>7. subscribers(n)' = subscribers(n)
  <2>1. node'[n].object = node[n].object
    BY NodeFacts
  <2>2. \A r \in Objects : reader'[n][r].at = reader[n][r].at /\ reader'[n][r].object = reader[n][r].object
    BY <1>6
  <2>3. QED
    BY <2>1, <2>2 DEF subscribers
<1>8. \A r \in Objects : Reads(n, r)' => Reads(n, r)
  BY <1>6 DEF Reads
<1>9. ToSet(retain(n, h)) \subseteq ToSet(logs[n].replay) \cup {h}
  <2>1. logs[n].replay # <<>> => ToSet(Tail(logs[n].replay)) \subseteq ToSet(logs[n].replay)
                                /\ Tail(logs[n].replay) \in Seq(Heights)
    BY <1>1, <1>3, SeqFacts
  <2>2. isFull(n) => logs[n].replay # <<>>
    BY <1>3, Bounds DEF isFull
  <2>3. CASE isFull(n)
    <3>1. retain(n, h) = Append(Tail(logs[n].replay), h)
      BY <2>3 DEF retain
    <3>2. QED
      BY <1>1, <2>1, <2>2, <2>3, <3>1, AppendFacts
  <2>4. CASE ~isFull(n)
    <3>1. retain(n, h) = Append(logs[n].replay, h)
      BY <2>4 DEF retain
    <3>2. QED
      BY <1>1, <1>3, <3>1, AppendFacts
  <2>5. QED
    BY <2>3, <2>4
<1>10. CASE subscribers(n) = {}
  <2> DEFINE q == logs[n].replay
  <2>1. Covers(node[n].head, Seen(n) \cup ToSet(q)) /\ Ordered(q, Seen(n))
    BY <1>10 DEF StreamGaps
  <2>2. \A y \in Heights : y < h => y \in Seen(n) \cup ToSet(q)
    BY <1>5, <2>1 DEF Covers
  <2>3. /\ Ordered(retain(n, h), Seen(n)')
        /\ Seen(n)' \cup ToSet(retain(n, h)) = Seen(n) \cup ToSet(q) \cup {h}
    <3>1. CASE isFull(n)
      <4>1. q # <<>>
        BY <1>3, <3>1, Bounds DEF isFull
      <4>2. retain(n, h) = Append(Tail(q), h) /\ droppedBy(n, h) = {Head(q)}
        BY <1>10, <3>1 DEF retain, droppedBy
      <4>3. Tail(q) \in Seq(Heights) /\ ToSet(q) = {Head(q)} \cup ToSet(Tail(q))
        BY <1>1, <1>3, <4>1, SeqFacts
      <4>4. Ordered(Tail(q), Seen(n)')
        BY <1>2, <1>3, <2>1, <4>1, <4>2, OrderedTakes
      <4>5. \A y \in Heights : y < h => y \in Seen(n)' \cup ToSet(Tail(q))
        BY <1>2, <2>2, <4>2, <4>3
      <4>6. Ordered(retain(n, h), Seen(n)')
        BY <1>1, <4>2, <4>3, <4>4, <4>5, OrderedGains
      <4>7. ToSet(retain(n, h)) = ToSet(Tail(q)) \cup {h}
        BY <1>1, <4>2, <4>3, AppendFacts
      <4>8. QED
        BY <1>2, <4>2, <4>3, <4>6, <4>7
    <3>2. CASE ~isFull(n)
      <4>1. retain(n, h) = Append(q, h) /\ droppedBy(n, h) = {}
        BY <1>10, <3>2 DEF retain, droppedBy
      <4>2. Ordered(retain(n, h), Seen(n))
        BY <1>1, <1>3, <2>1, <2>2, <4>1, OrderedGains
      <4>3. ToSet(retain(n, h)) = ToSet(q) \cup {h}
        BY <1>1, <1>3, <4>1, AppendFacts
      <4>4. QED
        BY <1>2, <4>1, <4>2, <4>3
    <3>3. QED
      BY <3>1, <3>2
  <2>4. Covers(h, Seen(n)' \cup ToSet(retain(n, h)))
    <3>1. \A y \in Heights : y <= h => y < h \/ y = h
      BY <1>1, HeightsAreNumbers
    <3>2. QED
      BY <2>2, <2>3, <3>1 DEF Covers
  <2>5. \A r \in Objects : Reads(n, r)' => Ordered(reader'[n][r].queue, Seen(n)')
    BY <1>2, <1>6, <1>8, <1>10, MoreIsSeen DEF StreamGaps
  <2>6. QED
    BY <1>1, <1>2, <1>7, <1>10, <2>3, <2>4, <2>5 DEF StreamGaps
<1>11. CASE subscribers(n) # {}
  <2>1. \A r \in subscribers(n) : r \in Objects /\ Reads(n, r)
    BY DEF subscribers, Reads
  <2>2. ASSUME NEW r \in subscribers(n)
        PROVE  /\ Ordered(reader'[n][r].queue, Seen(n)')
               /\ Covers(h, Seen(n)' \cup ToSet(reader'[n][r].queue))
               /\ Seen(n) \cup ToSet(reader[n][r].queue) \subseteq
                    Seen(n)' \cup ToSet(reader'[n][r].queue)
    <3> DEFINE q == reader[n][r].queue
    <3>1. q \in Seq(Heights) /\ Ordered(q, Seen(n)) /\ Covers(node[n].head, Seen(n) \cup ToSet(q))
      BY <1>4, <2>1, <2>2 DEF StreamGaps
    <3>2. \A y \in Heights : y < h => y \in Seen(n) \cup ToSet(q)
      BY <1>5, <3>1 DEF Covers
    <3>3. reader'[n][r].queue = offer(q, h)
      BY <1>6, <2>2
    <3>4. Ordered(q, Seen(n)')
      BY <1>2, <3>1, MoreIsSeen
    <3>5. /\ Ordered(offer(q, h), Seen(n)')
          /\ Seen(n) \cup ToSet(q) \cup {h} \subseteq Seen(n)' \cup ToSet(offer(q, h))
      <4>1. CASE Len(q) < logSubscriberBuffer
        <5>1. offer(q, h) = Append(q, h) /\ ToSet(Append(q, h)) = ToSet(q) \cup {h}
          BY <1>1, <3>1, <4>1, AppendFacts DEF offer
        <5>2. \A y \in Heights : y < h => y \in Seen(n)' \cup ToSet(q)
          BY <1>2, <3>2
        <5>3. Ordered(Append(q, h), Seen(n)')
          BY <1>1, <3>1, <3>4, <5>2, OrderedGains
        <5>4. QED
          BY <1>2, <5>1, <5>3
      <4>2. CASE ~(Len(q) < logSubscriberBuffer)
        <5>1. offer(q, h) = q
          BY <4>2 DEF offer
        <5>2. Len(q) \in Nat /\ logSubscriberBuffer \in Nat
          BY <3>1, Bounds
        <5>3. Len(reader[n][r].queue) >= logSubscriberBuffer
          BY <4>2, <5>2
        <5>4. h \in Seen(n)'
          BY <1>2, <1>11, <2>2, <5>3 DEF droppedBy
        <5>5. QED
          BY <1>2, <3>4, <5>1, <5>4
      <4>3. QED
        BY <4>1, <4>2
    <3>6. Covers(h, Seen(n)' \cup ToSet(offer(q, h)))
      <4>1. \A y \in Heights : y <= h => y < h \/ y = h
        BY <1>1, HeightsAreNumbers
      <4>2. QED
        BY <3>2, <3>5, <4>1 DEF Covers
    <3>7. QED
      BY <3>3, <3>5, <3>6
  <2>3. \A r \in Objects : Reads(n, r)' => Ordered(reader'[n][r].queue, Seen(n)')
    BY <1>2, <1>6, <1>8, <2>2, MoreIsSeen DEF StreamGaps
  <2>4. ASSUME NEW r \in subscribers(n), NEW x \in ToSet(retain(n, h))
        PROVE  Covers(x, Seen(n)' \cup ToSet(reader'[n][r].queue))
    <3>1. CASE x = h
      BY <2>2, <3>1
    <3>2. CASE x \in ToSet(logs[n].replay)
      <4>1. Covers(x, Seen(n) \cup ToSet(reader[n][r].queue))
        BY <3>2, <2>4 DEF StreamGaps
      <4>2. QED
        BY <2>2, <4>1, MoreIsSeen
    <3>3. QED
      BY <1>9, <2>4, <3>1, <3>2
  <2>5. QED
    BY <1>1, <1>2, <1>7, <1>11, <2>2, <2>3, <2>4 DEF StreamGaps
<1>12. QED
  BY <1>10, <1>11

(* The series of a node and of the network after the next block of a        *)
(* reader: either it is recorded, or it is covered by what was.             *)
LEMMA SeriesGrow ==
  ASSUME StreamTypes, SeriesGaps, NEW n \in Nodes, NEW h \in Heights,
         \A y \in Heights : y < h => y \in Seen(n), UNCHANGED <<lost, skipped>>,
         series' = IF OutOfOrder(series[n], h) THEN series
                   ELSE [series EXCEPT ![n] = Append(series[n], h)],
         netSeries' = IF OutOfOrder(netSeries, h) THEN netSeries ELSE Append(netSeries, h)
  PROVE  /\ SeriesGaps' /\ Seen(n)' = Seen(n) \cup {h}
         /\ \A m \in Nodes \ {n} : Seen(m)' = Seen(m)
<1>1. series[n] \in Seq(Heights) /\ netSeries \in Seq(Heights) /\ h \in Nat
  BY HeightsAreNumbers DEF StreamTypes
<1>2. \A S : Covers(h, S \cup {h}) <=> \A y \in Heights : y < h => y \in S
  <2>1. \A y \in Heights : y <= h <=> y < h \/ y = h
    BY <1>1, HeightsAreNumbers
  <2>2. ~(h < h)
    BY <1>1
  <2>3. QED
    BY <2>1, <2>2 DEF Covers
<1>3. /\ Seen(n)' = Seen(n) \cup {h}
      /\ ToSet(series'[n]) \subseteq ToSet(series[n]) \cup {h}
      /\ series'[n] # <<>> => Covers(Last(series'[n]), Seen(n) \cup {h})
      /\ \A m \in Nodes \ {n} : series'[m] = series[m]
  <2>1. CASE OutOfOrder(series[n], h)
    <3>1. series' = series /\ Covers(Last(series[n]), Seen(n)) /\ h <= Last(series[n])
      BY <2>1 DEF OutOfOrder, SeriesGaps
    <3>2. h \in Seen(n)
      BY <3>1 DEF Covers
    <3>3. QED
      BY <3>1, <3>2, MoreIsSeen DEF Seen
  <2>2. CASE ~OutOfOrder(series[n], h)
    <3>1. /\ series'[n] = Append(series[n], h)
          /\ \A m \in Nodes \ {n} : series'[m] = series[m]
      BY <2>2 DEF StreamTypes
    <3>2. ToSet(series'[n]) = ToSet(series[n]) \cup {h} /\ Last(series'[n]) = h
      BY <1>1, <3>1, AppendFacts
    <3>3. QED
      BY <1>2, <3>1, <3>2 DEF Seen
  <2>3. QED
    BY <2>1, <2>2
<1>4. Seen(n) \subseteq AllSeen
  BY DEF Seen, AllSeen, SeriesGaps
<1>5. AllSeen' = AllSeen \cup {h} /\ (netSeries' # <<>> => Covers(Last(netSeries'), AllSeen \cup {h}))
  <2>1. CASE OutOfOrder(netSeries, h)
    <3>1. netSeries' = netSeries /\ Covers(Last(netSeries), AllSeen) /\ h <= Last(netSeries)
      BY <2>1 DEF OutOfOrder, SeriesGaps
    <3>2. h \in AllSeen
      BY <3>1 DEF Covers
    <3>3. AllSeen' = AllSeen /\ AllSeen \cup {h} = AllSeen
      BY <3>1, <3>2 DEF AllSeen
    <3>4. QED
      BY <3>1, <3>3
  <2>2. CASE ~OutOfOrder(netSeries, h)
    <3>1. netSeries' = Append(netSeries, h)
      BY <2>2
    <3>2. ToSet(netSeries') = ToSet(netSeries) \cup {h} /\ Last(netSeries') = h
      BY <1>1, <3>1, AppendFacts
    <3>3. Covers(h, AllSeen \cup {h})
      BY <1>2, <1>4
    <3>4. QED
      BY <3>2, <3>3 DEF AllSeen
  <2>3. QED
    BY <2>1, <2>2
<1>6. \A m \in Nodes \ {n} : Seen(m)' = Seen(m)
  BY <1>3 DEF Seen
<1>7. \A m \in Nodes : series'[m] # <<>> => Covers(Last(series'[m]), Seen(m)')
  <2> TAKE m \in Nodes
  <2>1. CASE m = n
    BY <1>3, <2>1
  <2>2. CASE m # n
    BY <1>3, <1>6, <2>2 DEF SeriesGaps
  <2>3. QED
    BY <2>1, <2>2
<1>8. \A m \in Nodes : ToSet(series'[m]) \subseteq AllSeen'
  <2> TAKE m \in Nodes
  <2>1. ToSet(series[m]) \subseteq AllSeen
    BY DEF SeriesGaps
  <2>2. m # n => series'[m] = series[m]
    BY <1>3
  <2>3. QED
    BY <1>3, <1>5, <2>1, <2>2
<1>9. QED
  BY <1>3, <1>5, <1>6, <1>7, <1>8 DEF SeriesGaps

(* A reader passes a block to the series. *)
LEMMA OnBlockGaps ==
  ASSUME StreamTypes, GapInv, NEW n \in Nodes, NEW r \in Objects, OnBlock(n, r)
  PROVE  GapInv'
<1>1. CASE monitor \in {"sources", "dumped"}
  <2>1. UNCHANGED <<series, netSeries, lost, skipped, monitor>>
    BY <1>1 DEF OnBlock
  <2>2. SeriesGaps'
    BY <2>1, SeriesFrame DEF GapInv
  <2>3. QED
    BY <1>1, <2>1, <2>2 DEF GapInv
<1>2. CASE monitor \notin {"sources", "dumped"}
  <2> DEFINE q == reader[n][r].queue
             h == Head(q)
  <2>1. Reads(n, r) /\ q # <<>> /\ q \in Seq(Heights) /\ reader[n][r] \in ReaderType
    BY DEF OnBlock, Reads, StreamTypes, ReaderType
  <2>2. h \in Heights /\ Tail(q) \in Seq(Heights) /\ ToSet(q) = {h} \cup ToSet(Tail(q))
    BY <2>1, SeqFacts
  <2>3. \A m \in Nodes : StreamGaps(m)
    BY <1>2 DEF GapInv
  <2>4. Ordered(q, Seen(n))
    BY <2>1, <2>3 DEF StreamGaps
  <2>5. /\ \A y \in Heights : y < h => y \in Seen(n)
        /\ Ordered(Tail(q), Seen(n) \cup {h})
    BY <2>1, <2>4, OrderedTakes
  <2>6. /\ series' = IF OutOfOrder(series[n], h) THEN series
                     ELSE [series EXCEPT ![n] = Append(series[n], h)]
        /\ netSeries' = IF OutOfOrder(netSeries, h) THEN netSeries ELSE Append(netSeries, h)
        /\ UNCHANGED <<lost, skipped, node, logs, monitor>>
    BY <1>2 DEF OnBlock
  <2>7. reader' = [reader EXCEPT ![n][r].queue = Tail(q)]
    BY DEF OnBlock
  <2>8. /\ reader'[n][r] = [reader[n][r] EXCEPT !.queue = Tail(q)]
        /\ \A m \in Nodes, k \in Objects : m # n \/ k # r => reader'[m][k] = reader[m][k]
        /\ \A m \in Nodes \ {n} : reader'[m] = reader[m]
    BY <2>7 DEF StreamTypes
  <2>9. /\ reader'[n][r].queue = Tail(q)
        /\ reader'[n][r].at = reader[n][r].at /\ reader'[n][r].object = reader[n][r].object
    BY <2>1, <2>2, <2>8 DEF ReaderType
  <2> HIDE DEF h, q
  <2>10. /\ SeriesGaps' /\ Seen(n)' = Seen(n) \cup {h}
         /\ \A m \in Nodes \ {n} : Seen(m)' = Seen(m)
    BY <2>2, <2>5, <2>6, SeriesGrow DEF GapInv
  <2>11. ASSUME NEW m \in Nodes \ {n} PROVE StreamGaps(m)'
    <3>1. node[m].head \in Nat /\ node[m].head <= node[m].head
      BY DEF StreamTypes, NodeType
    <3>2. QED
      BY <2>3, <2>6, <2>8, <2>10, <2>11, <3>1, GapFrame
  <2>12. StreamGaps(n)'
    <3>1. subscribers(n)' = subscribers(n)
      BY <2>6, <2>8, <2>9 DEF subscribers
    <3>2. Seen(n) \subseteq Seen(n)'
      BY <2>10
    <3>3. \A k \in Objects : Reads(n, k)' => Ordered(reader'[n][k].queue, Seen(n)')
      <4> TAKE k \in Objects
      <4>1. CASE k = r
        BY <2>5, <2>9, <2>10, <4>1
      <4>2. CASE k # r
        <5>1. Reads(n, k)' => Reads(n, k) /\ reader'[n][k] = reader[n][k]
          BY <2>8, <4>2 DEF Reads
        <5>2. Reads(n, k) => Ordered(reader[n][k].queue, Seen(n))
          BY <2>3 DEF StreamGaps
        <5>3. QED
          BY <3>2, <5>1, <5>2, MoreIsSeen
      <4>3. QED
        BY <4>1, <4>2
    <3>4. \A k \in Objects : Seen(n) \cup ToSet(reader[n][k].queue) \subseteq
                              Seen(n)' \cup ToSet(reader'[n][k].queue)
      <4> TAKE k \in Objects
      <4>1. CASE k = r
        BY <2>2, <2>9, <2>10, <4>1 DEF q
      <4>2. CASE k # r
        BY <2>8, <3>2, <4>2
      <4>3. QED
        BY <4>1, <4>2
    <3>5. ASSUME NEW k \in subscribers(n)
          PROVE  /\ Covers(node[n].head, Seen(n)' \cup ToSet(reader'[n][k].queue))
                 /\ \A x \in ToSet(logs[n].replay) :
                      Covers(x, Seen(n)' \cup ToSet(reader'[n][k].queue))
      <4>1. k \in Objects
        BY <3>5 DEF subscribers
      <4>2. /\ Covers(node[n].head, Seen(n) \cup ToSet(reader[n][k].queue))
            /\ \A x \in ToSet(logs[n].replay) : Covers(x, Seen(n) \cup ToSet(reader[n][k].queue))
        BY <2>3, <3>5 DEF StreamGaps
      <4>3. QED
        BY <3>4, <4>1, <4>2, MoreIsSeen
    <3>6. ASSUME subscribers(n) = {}
          PROVE  /\ Covers(node[n].head, Seen(n)' \cup ToSet(logs[n].replay))
                 /\ Ordered(logs[n].replay, Seen(n)')
      <4>1. /\ Covers(node[n].head, Seen(n) \cup ToSet(logs[n].replay))
            /\ Ordered(logs[n].replay, Seen(n))
        BY <2>3, <3>6 DEF StreamGaps
      <4>2. Seen(n) \cup ToSet(logs[n].replay) \subseteq Seen(n)' \cup ToSet(logs[n].replay)
        BY <3>2
      <4>3. QED
        BY <3>2, <4>1, <4>2, MoreIsSeen
    <3>7. QED
      BY <2>6, <3>1, <3>3, <3>5, <3>6 DEF StreamGaps
  <2>13. QED
    BY <2>10, <2>11, <2>12 DEF GapInv
<1>3. QED
  BY <1>1, <1>2

(* A reader ends, with its queue drained or given up: the replay buffer is  *)
(* all a next one needs.                                                    *)
LEMMA EndGaps ==
  ASSUME StreamTypes, ReaderInv, NEW n \in Nodes, StreamGaps(n), NEW r \in Objects,
         Reads(n, r), readerEnds(n, r),
         Seen(n)' = Seen(n) \cup ToSet(reader[n][r].queue)
  PROVE  StreamGaps(n)'
<1>1. /\ ~Reads(n, r)' /\ UNCHANGED <<node, logs>>
      /\ \A k \in Objects \ {r} : reader'[n][k] = reader[n][k]
  <2>1. reader[n][r] \in ReaderType /\ <<>> \in Seq(Heights)
    BY DEF StreamTypes
  <2>2. [reader[n][r] EXCEPT !.at = "ended", !.queue = <<>>].at = "ended"
    BY <2>1, ReaderEdits
  <2>3. QED
    BY <2>2 DEF readerEnds, StreamTypes, Reads
<1>2. subscribers(n)' = subscribers(n) \ {r}
  BY <1>1 DEF subscribers, Reads
<1>3. Seen(n) \subseteq Seen(n)' /\ logs[n].replay \in Seq(Heights)
  BY DEF StreamTypes, LogType
<1>4. \A k \in Objects : Reads(n, k)' => Ordered(reader'[n][k].queue, Seen(n)')
  <2>1. \A k \in Objects : Reads(n, k)' => Reads(n, k) /\ reader'[n][k] = reader[n][k]
    BY <1>1 DEF Reads
  <2>2. QED
    BY <1>3, <2>1, MoreIsSeen DEF StreamGaps
<1>5. CASE r \in subscribers(n)
  <2>1. subscribers(n)' = {}
    <3>1. \A k \in subscribers(n) : k = r
      BY <1>5 DEF ReaderInv, subscribers, Reads
    <3>2. QED
      BY <1>2, <3>1
  <2>2. /\ Covers(node[n].head, Seen(n)')
        /\ \A x \in ToSet(logs[n].replay) : Covers(x, Seen(n)')
    BY <1>5 DEF StreamGaps
  <2>3. Covers(node[n].head, Seen(n)' \cup ToSet(logs[n].replay))
    BY <2>2, MoreIsSeen
  <2>4. Ordered(logs[n].replay, Seen(n)')
    <3>1. \A i \in 1 .. Len(logs[n].replay) : logs[n].replay[i] \in ToSet(logs[n].replay)
      BY <1>3 DEF ToSet
    <3>2. \A i \in 1 .. Len(logs[n].replay) : logs[n].replay[i] \in Nat
      <4>1. \A i \in 1 .. Len(logs[n].replay) : logs[n].replay[i] \in Heights
        BY <1>3
      <4>2. QED
        BY <4>1, HeightsAreNumbers
    <3>3. ASSUME NEW i \in 1 .. Len(logs[n].replay), NEW y \in Heights, y < logs[n].replay[i]
          PROVE  y \in Seen(n)'
      <4>1. y \in Nat
        BY HeightsAreNumbers
      <4>2. y <= logs[n].replay[i]
        BY <3>2, <3>3, <4>1
      <4>3. QED
        BY <2>2, <3>1, <4>2 DEF Covers
    <3>4. QED
      BY <3>3 DEF Ordered
  <2>5. QED
    BY <1>1, <1>4, <2>1, <2>3, <2>4 DEF StreamGaps
<1>6. CASE r \notin subscribers(n)
  <2>1. subscribers(n)' = subscribers(n) /\ \A k \in subscribers(n) : reader'[n][k] = reader[n][k]
    BY <1>1, <1>2, <1>6 DEF subscribers
  <2>2. \A k \in subscribers(n) :
          /\ Covers(node[n].head, Seen(n)' \cup ToSet(reader[n][k].queue))
          /\ \A x \in ToSet(logs[n].replay) : Covers(x, Seen(n)' \cup ToSet(reader[n][k].queue))
    <3> TAKE k \in subscribers(n)
    <3>1. Seen(n) \cup ToSet(reader[n][k].queue) \subseteq Seen(n)' \cup ToSet(reader[n][k].queue)
      BY <1>3
    <3>2. QED
      BY <3>1, MoreIsSeen, ZenonT(60) DEF StreamGaps
  <2>3. ASSUME subscribers(n) = {}
        PROVE  /\ Covers(node[n].head, Seen(n)' \cup ToSet(logs[n].replay))
               /\ Ordered(logs[n].replay, Seen(n)')
    <3>1. Seen(n) \cup ToSet(logs[n].replay) \subseteq Seen(n)' \cup ToSet(logs[n].replay)
      BY <1>3
    <3>2. /\ Covers(node[n].head, Seen(n) \cup ToSet(logs[n].replay))
          /\ Ordered(logs[n].replay, Seen(n))
      BY <2>3 DEF StreamGaps
    <3>3. Covers(node[n].head, Seen(n)' \cup ToSet(logs[n].replay))
      BY <3>1, <3>2, MoreIsSeen
    <3>4. Ordered(logs[n].replay, Seen(n)')
      BY <1>3, <3>2, MoreIsSeen
    <3>5. QED
      BY <3>3, <3>4
  <2>4. QED
    BY <1>1, <1>4, <2>1, <2>2, <2>3 DEF StreamGaps
<1>7. QED
  BY <1>5, <1>6

(* A subscriber comes late: nobody reads the object, and it starts with the *)
(* replay buffer.                                                           *)
LEMMA AttachGaps ==
  ASSUME StreamTypes, ReaderInv, NEW n \in Nodes, call.node = n, LogAttach, StreamGaps(n)
  PROVE  StreamGaps(n)' /\ \A m \in Nodes \ {n} : reader'[m] = reader[m]
<1> DEFINE s == state[n].attached + 1
           q == logs[n].replay
<1>1. UNCHANGED <<node, logs, series, lost, skipped>>
  BY DEF LogAttach
<1>2. reader' = [reader EXCEPT ![n][s] = subscribe(n)]
  BY DEF LogAttach
<1>3. \A m \in Nodes \ {n} : reader'[m] = reader[m]
  BY <1>1, <1>2 DEF StreamTypes
<1>4. \A k \in Objects : \/ reader'[n][k] = reader[n][k]
                         \/ k = s /\ reader'[n][k] = subscribe(n)
  BY <1>1, <1>2 DEF StreamTypes
<1>5. subscribers(n) = {}
  <2>1. state[n].source # node[n].object
    BY DEF LogAttach, ReaderInv
  <2>2. QED
    BY <1>1, <2>1 DEF ReaderInv, subscribers, Reads
<1>6. Seen(n)' = Seen(n) /\ q \in Seq(Heights)
  BY <1>1 DEF Seen, StreamTypes, LogType
<1>7. Covers(node[n].head, Seen(n) \cup ToSet(q)) /\ Ordered(q, Seen(n))
  BY <1>5 DEF StreamGaps
<1>8. \A x \in ToSet(q) : Covers(x, Seen(n) \cup ToSet(q))
  BY <1>6, <1>7, OrderedTakes
<1>9. subscribe(n).queue = q
  BY DEF subscribe
<1> HIDE DEF s
<1>10. \A k \in Objects : Reads(n, k)' => Ordered(reader'[n][k].queue, Seen(n)')
  <2> TAKE k \in Objects
  <2>1. CASE reader'[n][k] = reader[n][k]
    BY <1>6, <2>1 DEF StreamGaps, Reads
  <2>2. CASE reader'[n][k] = subscribe(n)
    BY <1>6, <1>7, <1>9, <2>2
  <2>3. QED
    BY <1>4, <2>1, <2>2
<1>11. \A k \in subscribers(n)' : reader'[n][k] = subscribe(n)
  BY <1>1, <1>4, <1>5 DEF subscribers
<1>12. QED
  BY <1>1, <1>3, <1>6, <1>7, <1>8, <1>9, <1>10, <1>11 DEF StreamGaps

(* A new container has a new object, which nobody reads yet. *)
LEMMA CreateGaps ==
  ASSUME StreamTypes, CallInv, ReaderInv, NEW n \in Nodes, StreamGaps(n), CreateNode(n)
  PROVE  StreamGaps(n)'
<1>1. /\ UNCHANGED <<reader, series, lost>> /\ logs'[n].replay = <<>>
      /\ node'[n].object = node[n].object + 1 /\ node'[n].head \in 0 .. MaxHeight
      /\ skipped'[n] = skipped[n] \cup ((1 .. node'[n].head) \ ToSet(series[n]))
  BY NodeFacts DEF CreateNode, StreamTypes
<1>2. subscribers(n)' = {}
  <2>1. \A r \in Objects : Reads(n, r) => reader[n][r].object # node[n].object + 1
    <3> SUFFICES ASSUME NEW r \in Objects, Reads(n, r)
                 PROVE  reader[n][r].object # node[n].object + 1
      OBVIOUS
    <3>1. reader[n][r].object \in Nat /\ node[n].object \in Nat
      BY DEF StreamTypes, ReaderType, NodeType
    <3>2. reader[n][r].object <= node[n].object
      BY DEF ReaderInv
    <3>3. QED
      BY <3>1, <3>2
  <2>2. QED
    BY <1>1, <2>1 DEF subscribers, Reads
<1>3. Seen(n) \subseteq Seen(n)' /\ (1 .. node'[n].head) \subseteq Seen(n)'
  BY <1>1 DEF Seen
<1>4. \A S : Covers(node'[n].head, Seen(n)' \cup S)
  <2>1. \A y \in Heights : y <= node'[n].head => y \in 1 .. node'[n].head
    BY <1>1, Bounds DEF Heights
  <2>2. QED
    BY <1>3, <2>1 DEF Covers
<1>5. \A S : Ordered(<<>>, S)
  BY DEF Ordered
<1>6. \A r \in Objects : Reads(n, r)' => Ordered(reader'[n][r].queue, Seen(n)')
  BY <1>1, <1>3, MoreIsSeen DEF StreamGaps, Reads
<1>7. QED
  BY <1>1, <1>2, <1>4, <1>5, <1>6 DEF StreamGaps

(* Every step of the network, the broadcaster and the dispatcher. *)
LEMMA GapStream ==
  ASSUME StreamTypes, CallInv, ReaderInv, GapInv, Stream, StreamTypes'
  PROVE  GapInv'
<1>1. \A n \in Nodes : node'[n].head \in Nat /\ node[n].head \in Nat
  BY DEF StreamTypes, NodeType
<1>2. ASSUME NEW n \in Nodes, CreateNode(n) \/ ResumeNode(n) \/ publish(n) PROVE GapInv'
  <2>1. UNCHANGED <<series, netSeries, monitor>>
    BY <1>2 DEF CreateNode, ResumeNode, publish, logVars
  <2>2. \A m \in Nodes : lost[m] \subseteq lost'[m] /\ skipped[m] \subseteq skipped'[m]
    <3>1. lost' = lost \/ lost' = [lost EXCEPT ![n] = lost[n] \cup droppedBy(n, node[n].head + 1)]
      BY <1>2 DEF CreateNode, ResumeNode, publish, logVars
    <3>2. CASE CreateNode(n)
      <4>1. UNCHANGED lost
        BY <3>2 DEF CreateNode
      <4>2. /\ skipped'[n] = skipped[n] \cup ((1 .. node'[n].head) \ ToSet(series[n]))
            /\ \A m \in Nodes \ {n} : skipped'[m] = skipped[m]
        BY <3>2, NodeFacts
      <4>3. QED
        BY <4>1, <4>2
    <3>3. CASE ~CreateNode(n)
      <4>1. skipped' = skipped
        BY <1>2, <3>3 DEF ResumeNode, publish, logVars
      <4>2. QED
        BY <3>1, <4>1 DEF StreamTypes
    <3>4. QED
      BY <3>2, <3>3
  <2>3. SeriesGaps' /\ \A m \in Nodes : Seen(m) \subseteq Seen(m)'
    BY <2>1, <2>2, SeriesFrame DEF GapInv
  <2>4. \A m \in Nodes \ {n} : reader'[m] = reader[m] /\ logs'[m] = logs[m] /\ node'[m] = node[m]
    <3>1. \A m \in Nodes \ {n} : node'[m] = node[m]
      BY <1>2, NodeFacts
    <3>2. \A m \in Nodes \ {n} : reader'[m] = reader[m] /\ logs'[m] = logs[m]
      BY <1>2 DEF CreateNode, ResumeNode, publish, logVars, StreamTypes
    <3>3. QED
      BY <3>1, <3>2
  <2>5. ASSUME NEW m \in Nodes \ {n}, StreamGaps(m) PROVE StreamGaps(m)'
    <3>1. node[m].head <= node[m].head
      BY <1>1
    <3>2. QED
      BY <1>1, <2>3, <2>4, <2>5, <3>1, GapFrame
  <2>6. ASSUME StreamGaps(n) PROVE StreamGaps(n)'
    <3>1. CASE ResumeNode(n)
      <4>1. node'[n].object = node[n].object /\ node'[n].head \in 0 .. node[n].head
        BY <3>1, NodeFacts
      <4>2. UNCHANGED <<reader, logs>> /\ node'[n].head <= node[n].head
        BY <1>1, <3>1, <4>1 DEF ResumeNode, logVars
      <4>3. QED
        BY <1>1, <2>3, <2>6, <4>1, <4>2, GapFrame
    <3>2. QED
      BY <1>2, <2>6, <3>1, CreateGaps, PublishGaps
  <2>7. QED
    BY <2>1, <2>3, <2>5, <2>6 DEF GapInv
<1>3. ASSUME NEW n \in Nodes, NEW r \in Objects, LogEnds(n, r) \/ LogFails(n, r) PROVE GapInv'
  <2>1. UNCHANGED <<series, netSeries, skipped, monitor, node, logs>> /\ readerEnds(n, r) /\ Reads(n, r)
    BY <1>3 DEF LogEnds, LogFails, readerEnds, Reads
  <2>2. /\ lost'[n] = lost[n] \cup ToSet(reader[n][r].queue)
        /\ \A m \in Nodes \ {n} : lost'[m] = lost[m]
    <3>1. CASE LogEnds(n, r)
      <4>1. lost' = lost /\ reader[n][r].queue = <<>>
        BY <3>1 DEF LogEnds
      <4>2. ToSet(<<>>) = {}
        BY DEF ToSet
      <4>3. QED
        BY <4>1, <4>2
    <3>2. CASE LogFails(n, r)
      <4>1. lost' = [lost EXCEPT ![n] = lost[n] \cup ToSet(reader[n][r].queue)]
        BY <3>2 DEF LogFails
      <4>2. QED
        BY <4>1 DEF StreamTypes
    <3>3. QED
      BY <1>3, <3>1, <3>2
  <2>3. \A m \in Nodes : lost[m] \subseteq lost'[m] /\ skipped[m] \subseteq skipped'[m]
    BY <2>1, <2>2
  <2>4. SeriesGaps' /\ \A m \in Nodes : Seen(m) \subseteq Seen(m)'
    BY <2>1, <2>3, SeriesFrame DEF GapInv
  <2>5. Seen(n)' = Seen(n) \cup ToSet(reader[n][r].queue)
    BY <2>1, <2>2 DEF Seen
  <2>6. ASSUME NEW m \in Nodes \ {n}, StreamGaps(m) PROVE StreamGaps(m)'
    <3>1. node[m].head <= node[m].head
      BY <1>1
    <3>2. reader'[m] = reader[m]
      BY <2>1, <2>6 DEF readerEnds, StreamTypes
    <3>3. QED
      BY <1>1, <2>1, <2>4, <2>6, <3>1, <3>2, GapFrame
  <2>7. StreamGaps(n) => StreamGaps(n)'
    BY <2>1, <2>5, EndGaps
  <2>8. QED
    BY <2>1, <2>4, <2>6, <2>7 DEF GapInv
<1>4. CASE CallReturns
  <2>1. UNCHANGED <<series, netSeries, lost, skipped, reader, monitor>>
    BY <1>4 DEF CallReturns
  <2>2. SeriesGaps' /\ \A m \in Nodes : Seen(m) \subseteq Seen(m)'
    BY <2>1, SeriesFrame DEF GapInv
  <2>3. \A m \in Nodes : logs'[m].replay = logs[m].replay
    BY <1>4 DEF CallReturns, StreamTypes, LogType
  <2>4. ASSUME NEW m \in Nodes
        PROVE  node'[m].object = node[m].object /\ node'[m].head = node[m].head
    <3>1. CASE m = call.node
      BY <1>4, <3>1, NodeFacts
    <3>2. CASE m # call.node
      BY <1>4, <3>2, NodeFacts
    <3>3. QED
      BY <3>1, <3>2
  <2>5. \A m \in Nodes : node'[m].head <= node[m].head
    BY <1>1, <2>4
  <2>6. ASSUME NEW m \in Nodes, StreamGaps(m) PROVE StreamGaps(m)'
    BY <1>1, <2>1, <2>2, <2>3, <2>4, <2>5, <2>6, GapFrame
  <2>7. QED
    BY <2>1, <2>2, <2>6 DEF GapInv
<1>5. CASE LogCreated
  <2>1. UNCHANGED <<series, netSeries, lost, skipped, reader, monitor, node, logs>>
    BY <1>5 DEF LogCreated
  <2>2. SeriesGaps' /\ \A m \in Nodes : Seen(m) \subseteq Seen(m)'
    BY <2>1, SeriesFrame DEF GapInv
  <2>3. \A m \in Nodes : node[m].head <= node[m].head
    BY <1>1
  <2>4. ASSUME NEW m \in Nodes, StreamGaps(m) PROVE StreamGaps(m)'
    BY <1>1, <2>1, <2>2, <2>3, <2>4, GapFrame
  <2>5. QED
    BY <2>1, <2>2, <2>4 DEF GapInv
<1>6. CASE LogAttach
  <2>1. PICK n \in Nodes : n = call.node
    BY <1>6, CallFacts DEF LogAttach
  <2>2. UNCHANGED <<series, netSeries, lost, skipped, monitor, node, logs>>
    BY <1>6 DEF LogAttach
  <2>3. SeriesGaps' /\ \A m \in Nodes : Seen(m) \subseteq Seen(m)'
    BY <2>2, SeriesFrame DEF GapInv
  <2>4. ASSUME \A m \in Nodes : StreamGaps(m) PROVE \A m \in Nodes : StreamGaps(m)'
    <3>1. StreamGaps(n)' /\ \A m \in Nodes \ {n} : reader'[m] = reader[m]
      BY <1>6, <2>1, <2>4, AttachGaps
    <3>2. ASSUME NEW m \in Nodes \ {n} PROVE StreamGaps(m)'
      <4>1. node[m].head <= node[m].head
        BY <1>1
      <4>2. QED
        BY <1>1, <2>2, <2>3, <2>4, <3>1, <3>2, <4>1, GapFrame
    <3>3. QED
      BY <3>1, <3>2
  <2>5. QED
    BY <2>2, <2>3, <2>4 DEF GapInv
<1>7. QED
  BY <1>2, <1>3, <1>4, <1>5, <1>6, OnBlockGaps DEF Stream

(* The steps beside the streams. *)
LEMMA GapAside ==
  ASSUME GapInv, UNCHANGED streamVars,
         monitor \in {"sources", "dumped"} => monitor' \in {"sources", "dumped"}
  PROVE  GapInv'
<1>1. SeriesGaps'
  BY DEF streamVars, GapInv, SeriesGaps, Seen, AllSeen
<1>2. ASSUME NEW n \in Nodes, StreamGaps(n) PROVE StreamGaps(n)'
  <2>1. Seen(n)' = Seen(n) /\ subscribers(n)' = subscribers(n)
    BY DEF streamVars, Seen, subscribers
  <2>2. QED
    BY <1>2, <2>1 DEF streamVars, StreamGaps, Reads
<1>3. QED
  BY <1>1, <1>2 DEF GapInv

(* For any buffers and any number of restarts, a block missing in the       *)
(* series of a node or of the network below its last point was dropped by   *)
(* a bounded buffer, given up with a failing reader, or skipped by a client *)
(* that started on a used data volume (logs.go publish and subscribe,       *)
(* node_log_provider.go startDispatcher, block_metrics.go).                 *)
THEOREM OnlyDropsLeaveGaps == Spec => []GapsAreDrops
<1>1. Init => GapInv
  <2> SUFFICES ASSUME Init PROVE GapInv
    OBVIOUS
  <2>1. ToSet(<<>>) = {}
    BY DEF ToSet
  <2>2. /\ \A n \in Nodes : series[n] = <<>> /\ logs[n].replay = <<>> /\ node[n].head = 0
        /\ netSeries = <<>>
    BY DEF Init
  <2>3. \A n \in Nodes : subscribers(n) = {} /\ \A r \in Objects : ~Reads(n, r)
    BY DEF Init, subscribers, Reads, NoReader
  <2>4. \A S : Covers(0, S) /\ Ordered(<<>>, S)
    BY Bounds DEF Covers, Ordered, Heights
  <2>5. SeriesGaps
    BY <2>1, <2>2 DEF SeriesGaps
  <2>6. \A n \in Nodes : StreamGaps(n)
    BY <2>2, <2>3, <2>4 DEF StreamGaps
  <2>7. QED
    BY <2>5, <2>6 DEF GapInv
<1>2. ASSUME StreamTypes, StreamTypes', CallInv, ReaderInv, GapInv, [Next]_vars PROVE GapInv'
  <2>1. CASE UNCHANGED vars
    BY <1>2, <2>1, GapAside DEF vars, streamVars
  <2>2. CASE Aside /\ Next
    <3>1. monitor \in {"sources", "dumped"} => monitor' \in {"sources", "dumped"}
      BY <2>2, FeedFrame DEF Shutdown, PromIsDown, SourcesAreDown
    <3>2. QED
      BY <1>2, <2>2, <3>1, AsideFrame, GapAside
  <2>3. CASE Stream
    BY <1>2, <2>3, GapStream
  <2>4. QED
    BY <1>2, <2>1, <2>2, <2>3, Steps
<1>3. StreamTypes /\ GapInv => GapsAreDrops
  <2> SUFFICES ASSUME StreamTypes, GapInv PROVE GapsAreDrops
    OBVIOUS
  <2>1. ASSUME NEW q \in Seq(Heights), NEW S, q # <<>> => Covers(Last(q), ToSet(q) \cup S)
        PROVE  MissingBelow(q) \subseteq S
    <3>1. CASE q = <<>>
      BY <3>1 DEF MissingBelow
    <3>2. CASE q # <<>>
      <4>1. Last(q) \in Heights
        BY <3>2, SeqFacts
      <4>2. \A y \in 1 .. Last(q) : y \in Heights /\ y <= Last(q)
        BY <4>1, Bounds DEF Heights
      <4>3. MissingBelow(q) = (1 .. Last(q)) \ ToSet(q)
        BY <3>2 DEF MissingBelow
      <4>4. QED
        BY <2>1, <3>2, <4>2, <4>3 DEF Covers
    <3>3. QED
      BY <3>1, <3>2
  <2>2. /\ \A n \in Nodes : series[n] \in Seq(Heights)
        /\ netSeries \in Seq(Heights)
    BY DEF StreamTypes
  <2>3. /\ \A n \in Nodes : series[n] # <<>> =>
             Covers(Last(series[n]), ToSet(series[n]) \cup (lost[n] \cup skipped[n]))
        /\ netSeries # <<>> =>
             Covers(Last(netSeries), ToSet(netSeries) \cup
                                       UNION {lost[n] \cup skipped[n] : n \in Nodes})
    <3>1. \A n \in Nodes : Seen(n) = ToSet(series[n]) \cup (lost[n] \cup skipped[n])
      BY DEF Seen
    <3>2. QED
      BY <3>1 DEF GapInv, SeriesGaps, AllSeen
  <2>4. QED
    BY <2>1, <2>2, <2>3 DEF GapsAreDrops
<1>4. QED
  BY <1>1, <1>2, <1>3, StreamInvariant, ReaderInvariant, PTL DEF Spec

=============================================================================
