-------------------------------- MODULE Sums ---------------------------------
(***************************************************************************)
(* The sum of the values of a function over a set.                         *)
(***************************************************************************)
EXTENDS Integers, FiniteSets, FiniteSetsExt

SumOf(f, S) == MapThenSumSet(LAMBDA x : f[x], S)
==============================================================================
