-------------------------- MODULE InclusionObserver --------------------------
(***************************************************************************)
(* The inclusion observer (driver/monitoring/transactions/inclusions.go):  *)
(* the log reader of every node announces the blocks it sees by calling    *)
(* OnBlock, one goroutine (run) reads the announced blocks from some node  *)
(* and reports their transactions to the tracker.                          *)
(*                                                                         *)
(* OnBlock locks twice, to record the height and, when the queue is full,  *)
(* to count the block as missed; in between it sends without blocking. The *)
(* log readers and run are interleaved at these points.                    *)
(***************************************************************************)
EXTENDS Naturals, Sequences, FiniteSets, Functions

CONSTANTS
  Nodes,             \* the nodes whose logs announce blocks
  Heights,           \* the heights of the blocks, a finite set of numbers > 0
  PendingBlocks,     \* pendingBlocks, the capacity of the queue
  BlockReadAttempts  \* blockReadAttempts

ASSUME HeightsAssumption == Heights \subseteq Nat \ {0} /\ IsFiniteSet(Heights)
ASSUME LimitsAssumption ==
  PendingBlocks \in Nat \ {0} /\ BlockReadAttempts \in Nat \ {0}

VARIABLES
  seen,      \* inclusionObserver.seen
  sending,   \* the height each log reader is about to send, or 0
  queue,     \* the channel inclusionObserver.blocks
  missed,    \* inclusionObserver.missed
  lost,      \* the heights counted by missed
  connected, \* whether run holds a connection
  reading,   \* the height run is reading, or 0
  attempt,   \* the attempts of readBlock used up
  marks,     \* the heights reported to the tracker
  ctx,       \* whether the context is "alive" or "cancelled"
  running    \* whether run has not returned

inclusionVars == <<seen, sending, queue, missed, lost, connected, reading, attempt,
                   marks, ctx, running>>

InclusionInit ==
  /\ seen = {} /\ sending = [n \in Nodes |-> 0] /\ queue = <<>>
  /\ missed = 0 /\ lost = {}
  /\ connected = FALSE /\ reading = 0 /\ attempt = 0 /\ marks = {}
  /\ ctx = "alive" /\ running = TRUE

(* Fault: a block that cannot be read is skipped. *)
SkipSilently(h) == UNCHANGED <<missed, lost>>
GiveUp(h) == missed' = missed + 1 /\ lost' = lost \cup {h}

-----------------------------------------------------------------------------
(* OnBlock, called by the log reader of node n *)

(* Fault: heights are forgotten once they left the queue. *)
unqueued(h) == h \notin Range(queue)
(* The height was not announced before; if it was, OnBlock returns. *)
unseen(h) == h \notin seen

OnBlock(n, h) ==
  /\ sending[n] = 0 /\ unseen(h)
  /\ seen' = seen \cup {h}
  /\ sending' = [sending EXCEPT ![n] = h]
  /\ UNCHANGED <<queue, missed, lost, connected, reading, attempt, marks, ctx,
                 running>>

OnBlockSend(n) ==
  /\ sending[n] # 0
  /\ sending' = [sending EXCEPT ![n] = 0]
  /\ \/ /\ Len(queue) < PendingBlocks
        /\ queue' = Append(queue, sending[n])
        /\ UNCHANGED <<missed, lost>>
     \/ /\ Len(queue) = PendingBlocks
        /\ GiveUp(sending[n])
        /\ UNCHANGED queue
  /\ UNCHANGED <<seen, connected, reading, attempt, marks, ctx, running>>

-----------------------------------------------------------------------------
(* run *)

(* Receives a block, and dials if there is no connection. *)
Receive ==
  /\ running /\ reading = 0 /\ queue # <<>>
  /\ queue' = Tail(queue)
  /\ \/ /\ connected' = TRUE
        /\ reading' = Head(queue)
        /\ UNCHANGED <<missed, lost>>
     \/ /\ ~connected
        /\ GiveUp(Head(queue))
        /\ UNCHANGED <<connected, reading>>
  /\ UNCHANGED <<seen, sending, attempt, marks, ctx, running>>

(* MarkBlock and MarkBlockLimits *)
ReadSucceeds ==
  /\ reading # 0
  /\ marks' = marks \cup {reading}
  /\ reading' = 0 /\ attempt' = 0
  /\ UNCHANGED <<seen, sending, queue, missed, lost, connected, ctx, running>>

(* The last attempt failed, or the context ended while waiting for the     *)
(* next one.                                                               *)
exhausted == attempt + 1 = BlockReadAttempts \/ ctx = "cancelled"

ReadFails ==
  /\ reading # 0
  /\ \/ /\ ~exhausted
        /\ attempt' = attempt + 1
        /\ UNCHANGED <<reading, connected, missed, lost>>
     \/ /\ exhausted
        /\ GiveUp(reading)
        /\ reading' = 0 /\ attempt' = 0 /\ connected' = FALSE
  /\ UNCHANGED <<seen, sending, queue, marks, ctx, running>>

InclusionCancel ==
  /\ ctx' = "cancelled"
  /\ UNCHANGED <<seen, sending, queue, missed, lost, connected, reading, attempt,
                 marks, running>>

(* The select of run may prefer a queued block to the end of the context. *)
Return ==
  /\ running /\ reading = 0 /\ ctx = "cancelled"
  /\ running' = FALSE /\ connected' = FALSE
  /\ UNCHANGED <<seen, sending, queue, missed, lost, reading, attempt, marks, ctx>>

-----------------------------------------------------------------------------
InclusionNext ==
  \/ \E n \in Nodes : OnBlockSend(n) \/ \E h \in Heights : OnBlock(n, h)
  \/ Receive \/ ReadSucceeds \/ ReadFails \/ InclusionCancel \/ Return

(* Goroutines are scheduled and calls return, one way or the other. *)
InclusionFairness ==
  /\ \A n \in Nodes : WF_inclusionVars(OnBlockSend(n))
  /\ WF_inclusionVars(Receive) /\ WF_inclusionVars(ReadSucceeds \/ ReadFails)
  /\ WF_inclusionVars(Return)

InclusionSpec == InclusionInit /\ [][InclusionNext]_inclusionVars /\ InclusionFairness

-----------------------------------------------------------------------------
InclusionTypeOK ==
  /\ seen \subseteq Heights /\ lost \subseteq Heights /\ marks \subseteq Heights
  /\ sending \in [Nodes -> Heights \cup {0}]
  /\ queue \in Seq(Heights) /\ Len(queue) <= PendingBlocks
  /\ missed \in Nat /\ connected \in BOOLEAN
  /\ reading \in Heights \cup {0} /\ attempt \in 0 .. BlockReadAttempts - 1
  /\ ctx \in {"alive", "cancelled"} /\ running \in BOOLEAN

(* Where a block is between its announcement and its report. *)
Places(h) ==
  {<<"log", n>> : n \in {n \in Nodes : sending[n] = h}}
    \cup {<<"queue", i>> : i \in {i \in DOMAIN queue : queue[i] = h}}
    \cup {<<p, 0>> : p \in {q \in {"read", "marked", "lost"} :
            \/ q = "read" /\ reading = h
            \/ q = "marked" /\ h \in marks
            \/ q = "lost" /\ h \in lost}}

(* Every announced block is in one place: sent twice it would overwrite    *)
(* its composition in the tracker, in none its transactions would stay in  *)
(* flight without the block being counted as missed.                       *)
BlockIsInOnePlace ==
  /\ \A h \in Heights : Cardinality(Places(h)) = IF h \in seen THEN 1 ELSE 0
  /\ missed = Cardinality(lost)

(* The observer is a BlockFeed: every announced block is settled once, and *)
(* eventually while run is not cancelled.                                  *)
Feed == INSTANCE BlockFeed WITH announced <- seen, marked <- marks, missed <- lost
ImplementsBlockFeed == Feed!Spec

(* The safety part of the same. *)
StepsAreFeedSteps == Feed!Init /\ [][Feed!Next]_(Feed!vars)
==============================================================================
