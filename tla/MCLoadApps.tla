----------------------------- MODULE MCLoadApps ------------------------------
(***************************************************************************)
(* The cases of LoadApps that TLC checks: every shape with a counter, and  *)
(* the auto shaper with a counter, every application at a steady rate, and *)
(* the mix.                                                                *)
(***************************************************************************)
EXTENDS LoadApps

Auto == [auto |-> [increase |-> 1, decrease |-> 1]]

Shapes ==
  {[constant |-> 1], [constant |-> -1], Auto @@ [constant |-> 1],
   [slope |-> [start |-> 0, increment |-> 1]],
   [slope |-> [start |-> 2, increment |-> -1]],
   [slope |-> [start |-> 1, increment |-> 0]],
   [slope |-> [start |-> -1, increment |-> 1]],
   [wave |-> [min |-> 0, max |-> 2, period |-> 2]],
   [wave |-> [min |-> 2, max |-> 1, period |-> 2]]}

MCCases ==
  (Shapes \X {{"counter"}} \X {5})
    \cup ({Auto} \X {{"counter"}} \X {6})
    \cup ({[constant |-> 6]} \X {{k} : k \in DOMAIN Apps} \X {1})
    \cup ({[constant |-> 4]} \X {Range(mixAppTypes)} \X {1})

Duplicated == {[constant |-> 6]} \X {{"duplicatedbundle"}} \X {1}

AutoCounter == {Auto} \X {{"counter"}} \X {6}
==============================================================================
