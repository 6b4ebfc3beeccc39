------------------------------ MODULE BlockFeed ------------------------------
(***************************************************************************)
(* What the block reader of the transaction monitor promises: however many *)
(* nodes announce a block, it is settled at most once, by reporting its    *)
(* transactions to the tracker or by counting it as missed; and while the  *)
(* reader runs every announced block is settled.                           *)
(***************************************************************************)
EXTENDS Naturals

CONSTANT Heights

VARIABLES announced, marked, missed, running

vars == <<announced, marked, missed, running>>

Init == announced = {} /\ marked = {} /\ missed = {} /\ running = TRUE

Announce(h) ==
  /\ announced' = announced \cup {h}
  /\ UNCHANGED <<marked, missed, running>>

Unsettled(h) == h \in announced \ (marked \cup missed)

Mark(h) ==
  /\ running /\ Unsettled(h)
  /\ marked' = marked \cup {h}
  /\ UNCHANGED <<announced, missed, running>>

(* A block can be given up also when it is announced to a stopped reader. *)
Miss(h) ==
  /\ Unsettled(h)
  /\ missed' = missed \cup {h}
  /\ UNCHANGED <<announced, marked, running>>

Stop == running' = FALSE /\ UNCHANGED <<announced, marked, missed>>

Next == Stop \/ \E h \in Heights : Announce(h) \/ Mark(h) \/ Miss(h)

Fairness == \A h \in Heights : WF_vars(running /\ (Mark(h) \/ Miss(h)))

Spec == Init /\ [][Next]_vars /\ Fairness
==============================================================================
