------------------------------ MODULE SetLemmas ------------------------------
(***************************************************************************)
(* Lemmas about numbers, finite sets and sums that the proofs of several   *)
(* components need. Induction is by a least counterexample throughout.     *)
(***************************************************************************)
EXTENDS Sums, FiniteSetTheorems, WellFoundedInduction, TLAPS

-----------------------------------------------------------------------------
(* Numbers *)

(* Every nonempty set of natural numbers has a least element. *)
LEMMA LeastNumber ==
  ASSUME NEW S, S \subseteq Nat, S # {}
  PROVE  \E m \in S : \A y \in S : m <= y
<1>1. IsWellFoundedOn(OpToRel(<, Nat), Nat)
  BY NatLessThanWellFounded
<1>2. PICK m \in S : \A y \in S : ~ (<<y, m>> \in OpToRel(<, Nat))
  BY <1>1, WFMin
<1>3. \A y \in S : ~ (y < m)
  BY <1>2 DEF OpToRel
<1>4. QED
  BY <1>3

(* What holds of a finite set as soon as it holds of its proper subsets    *)
(* holds of all its subsets.                                               *)
LEMMA SmallerFirst ==
  ASSUME NEW S, IsFiniteSet(S), NEW G,
         \A T \in SUBSET S : (\A U \in SUBSET T : U # T => U \in G) => T \in G
  PROVE  \A T \in SUBSET S : T \in G
<1> SUFFICES ASSUME \E T \in SUBSET S : T \notin G PROVE FALSE
  OBVIOUS
<1> DEFINE Bad == {T \in SUBSET S : T \notin G}
           Sizes == {Cardinality(T) : T \in Bad}
<1>1. \A T \in SUBSET S : IsFiniteSet(T) /\ Cardinality(T) \in Nat
  BY FS_Subset, FS_CardinalityType
<1>2. Sizes \subseteq Nat /\ Sizes # {}
  BY <1>1
<1>3. PICK n \in Sizes : \A m \in Sizes : n <= m
  <2> HIDE DEF Sizes
  <2> QED BY <1>2, LeastNumber
<1>4. PICK T \in Bad : Cardinality(T) = n
  BY <1>3
<1>5. ASSUME NEW U \in SUBSET T, U # T PROVE U \in G
  <2>1. IsFiniteSet(T) /\ U \in SUBSET S /\ Cardinality(U) \in Nat /\ Cardinality(T) \in Nat
    BY <1>1
  <2>2. Cardinality(U) < Cardinality(T)
    BY <1>5, <2>1, FS_Subset
  <2>3. Cardinality(U) \notin Sizes
    BY <1>3, <1>4, <2>1, <2>2
  <2> QED BY <2>1, <2>3
<1> QED
  BY <1>4, <1>5

-----------------------------------------------------------------------------
(* Sums *)

Pick(s) == CHOOSE x \in s : TRUE

Adds(f, s, it) == IF s = {} THEN 0 ELSE f[Pick(s)] + it[s \ {Pick(s)}]

IsFold(f, D, it) == it = [s \in D |-> Adds(f, s, it)]

(* A sum is what the fold over all subsets gives for the set. *)
LEMMA SumIsFold ==
  ASSUME NEW f, NEW S
  PROVE  SumOf(f, S) = (CHOOSE it : IsFold(f, SUBSET S, it))[S]
  BY DEF SumOf, MapThenSumSet, MapThenFoldSet, IsFold, Adds, Pick

(* What is picked is an element. *)
LEMMA PickIsElement ==
  ASSUME NEW s, s # {}
  PROVE  Pick(s) \in s
  BY DEF Pick

Small(S, n) == {s \in SUBSET S : Cardinality(s) <= n}

(* The fold exists, for subsets up to any size. *)
LEMMA FoldExists ==
  ASSUME NEW f, NEW S, IsFiniteSet(S)
  PROVE  \E it : IsFold(f, SUBSET S, it)
<1> DEFINE Bad == {n \in Nat : ~ \E it : IsFold(f, Small(S, n), it)}
<1>0. \A s \in SUBSET S : IsFiniteSet(s) /\ Cardinality(s) \in Nat /\ Cardinality(s) <= Cardinality(S)
  BY FS_Subset, FS_CardinalityType
<1>1. Bad = {}
  <2> SUFFICES ASSUME Bad # {} PROVE FALSE
    OBVIOUS
  <2>1. PICK n \in Bad : \A m \in Bad : n <= m
    <3>1. Bad \subseteq Nat
      OBVIOUS
    <3> HIDE DEF Bad
    <3> QED BY <3>1, LeastNumber
  <2>2. n # 0
    <3> SUFFICES \E it : IsFold(f, Small(S, 0), it)
      BY <2>1
    <3>1. \A s \in Small(S, 0) : s = {}
      BY <1>0, FS_EmptySet DEF Small
    <3> DEFINE it == [s \in Small(S, 0) |-> 0]
    <3>2. IsFold(f, Small(S, 0), it)
      BY <3>1 DEF IsFold, Adds
    <3> QED BY <3>2
  <2>3. n - 1 \in Nat /\ n - 1 \notin Bad
    BY <2>1, <2>2
  <2>4. PICK it : IsFold(f, Small(S, n - 1), it)
    BY <2>3
  <2> DEFINE next == [s \in Small(S, n) |-> Adds(f, s, it)]
  <2>5. ASSUME NEW s \in Small(S, n), s # {}
        PROVE  next[s \ {Pick(s)}] = it[s \ {Pick(s)}]
    <3> DEFINE t == s \ {Pick(s)}
    <3>1. t \in SUBSET S /\ Cardinality(t) = Cardinality(s) - 1 /\ Cardinality(s) <= n
      BY <1>0, <2>5, PickIsElement, FS_RemoveElement DEF Small
    <3>2. t \in Small(S, n - 1) /\ t \in Small(S, n)
      BY <1>0, <2>3, <3>1 DEF Small
    <3>3. it[t] = Adds(f, t, it)
      <4> HIDE DEF t
      <4> QED BY <2>4, <3>2 DEF IsFold
    <3>4. next[t] = Adds(f, t, it)
      <4> HIDE DEF t
      <4> QED BY <3>2
    <3> QED BY <3>3, <3>4
  <2>6. \A s \in Small(S, n) : Adds(f, s, next) = Adds(f, s, it)
    <3> HIDE DEF next
    <3> QED BY <2>5 DEF Adds
  <2>7. next = [s \in Small(S, n) |-> Adds(f, s, next)]
    <3>1. \A s \in Small(S, n) : next[s] = Adds(f, s, it)
      OBVIOUS
    <3>2. next = [s \in Small(S, n) |-> next[s]]
      OBVIOUS
    <3> HIDE DEF next
    <3> QED BY <2>6, <3>1, <3>2
  <2>8. IsFold(f, Small(S, n), next)
    BY <2>7 DEF IsFold
  <2> QED BY <2>1, <2>8
<1>2. Cardinality(S) \in Nat /\ Small(S, Cardinality(S)) = SUBSET S
  BY <1>0 DEF Small
<1>3. \A n \in Nat : \E it : IsFold(f, Small(S, n), it)
  BY <1>1
<1>4. \E it : IsFold(f, Small(S, Cardinality(S)), it)
  BY <1>2, <1>3
<1> QED
  BY <1>2, <1>4

(* The fold for a set and the one for a subset agree. *)
LEMMA FoldsAgree ==
  ASSUME NEW f, NEW S, IsFiniteSet(S), NEW T \in SUBSET S, NEW a, NEW b,
         IsFold(f, SUBSET S, a), IsFold(f, SUBSET T, b)
  PROVE  a[T] = b[T]
<1> DEFINE G == {U \in SUBSET T : a[U] = b[U]}
<1>1. IsFiniteSet(T)
  BY FS_Subset
<1>2. ASSUME NEW U \in SUBSET T, \A V \in SUBSET U : V # U => V \in G
      PROVE  U \in G
  <2>1. a[U] = Adds(f, U, a) /\ b[U] = Adds(f, U, b)
    BY DEF IsFold
  <2>2. U # {} => U \ {Pick(U)} \in G
    BY <1>2, PickIsElement
  <2>3. Adds(f, U, a) = Adds(f, U, b)
    BY <2>2 DEF Adds
  <2> QED BY <2>1, <2>3
<1>3. \A U \in SUBSET T : U \in G
  <2> HIDE DEF G
  <2> QED BY <1>1, <1>2, SmallerFirst
<1> QED
  BY <1>3

(* The equation of a sum. *)
LEMMA SumEquation ==
  ASSUME NEW f, NEW S, IsFiniteSet(S)
  PROVE  SumOf(f, S) = IF S = {} THEN 0 ELSE f[Pick(S)] + SumOf(f, S \ {Pick(S)})
<1> DEFINE Fold(T) == CHOOSE it : IsFold(f, SUBSET T, it)
<1>1. \A T \in SUBSET S : IsFold(f, SUBSET T, Fold(T)) /\ SumOf(f, T) = Fold(T)[T]
  <2> TAKE T \in SUBSET S
  <2>1. \E it : IsFold(f, SUBSET T, it)
    BY FoldExists, FS_Subset
  <2>2. IsFold(f, SUBSET T, Fold(T))
    BY <2>1
  <2> QED BY <2>2, SumIsFold
<1> HIDE DEF Fold
<1>2. Fold(S)[S] = Adds(f, S, Fold(S))
  BY <1>1 DEF IsFold
<1>3. \A T \in SUBSET S : Fold(S)[T] = SumOf(f, T)
  <2> TAKE T \in SUBSET S
  <2>1. Fold(S)[T] = Fold(T)[T]
    <3>1. IsFold(f, SUBSET S, Fold(S)) /\ IsFold(f, SUBSET T, Fold(T))
      BY <1>1
    <3> QED BY <3>1, FoldsAgree
  <2> QED BY <1>1, <2>1
<1> QED
  BY <1>2, <1>3 DEF Adds

(* The empty sum. *)
LEMMA SumEmpty ==
  ASSUME NEW f
  PROVE  SumOf(f, {}) = 0
  BY SumEquation, FS_EmptySet

(* A sum of natural numbers is one. *)
LEMMA SumType ==
  ASSUME NEW f, NEW S, IsFiniteSet(S), \A x \in S : f[x] \in Nat
  PROVE  SumOf(f, S) \in Nat
<1> DEFINE G == {T \in SUBSET S : SumOf(f, T) \in Nat}
<1>1. ASSUME NEW T \in SUBSET S, \A U \in SUBSET T : U # T => U \in G
      PROVE  T \in G
  <2>1. SumOf(f, T) = IF T = {} THEN 0 ELSE f[Pick(T)] + SumOf(f, T \ {Pick(T)})
    BY SumEquation, FS_Subset
  <2>2. T # {} => Pick(T) \in T /\ SumOf(f, T \ {Pick(T)}) \in Nat
    BY <1>1, PickIsElement
  <2> QED BY <2>1, <2>2
<1>2. \A T \in SUBSET S : T \in G
  <2> HIDE DEF G
  <2> QED BY <1>1, SmallerFirst
<1> QED
  BY <1>2

(* A sum depends on the values in its set only. *)
LEMMA SumOfEqual ==
  ASSUME NEW f, NEW g, NEW S, IsFiniteSet(S), \A x \in S : f[x] = g[x]
  PROVE  SumOf(f, S) = SumOf(g, S)
<1> DEFINE G == {T \in SUBSET S : SumOf(f, T) = SumOf(g, T)}
<1>1. ASSUME NEW T \in SUBSET S, \A U \in SUBSET T : U # T => U \in G
      PROVE  T \in G
  <2>1. /\ SumOf(f, T) = IF T = {} THEN 0 ELSE f[Pick(T)] + SumOf(f, T \ {Pick(T)})
        /\ SumOf(g, T) = IF T = {} THEN 0 ELSE g[Pick(T)] + SumOf(g, T \ {Pick(T)})
    BY SumEquation, FS_Subset
  <2>2. T # {} => Pick(T) \in T /\ SumOf(f, T \ {Pick(T)}) = SumOf(g, T \ {Pick(T)})
    BY <1>1, PickIsElement
  <2>3. T # {} => f[Pick(T)] = g[Pick(T)]
    BY <2>2
  <2> QED BY <2>1, <2>2, <2>3
<1>2. \A T \in SUBSET S : T \in G
  <2> HIDE DEF G
  <2> QED BY <1>1, SmallerFirst
<1> QED
  BY <1>2

(* Any element may be taken out of a sum. *)
LEMMA SumRemove ==
  ASSUME NEW f, NEW S, IsFiniteSet(S), \A x \in S : f[x] \in Nat, NEW x \in S
  PROVE  SumOf(f, S) = f[x] + SumOf(f, S \ {x})
<1> DEFINE G == {T \in SUBSET S : \A y \in T : SumOf(f, T) = f[y] + SumOf(f, T \ {y})}
<1>0. \A T \in SUBSET S : IsFiniteSet(T) /\ SumOf(f, T) \in Nat
  BY SumType, FS_Subset
<1>1. ASSUME NEW T \in SUBSET S, \A U \in SUBSET T : U # T => U \in G
      PROVE  T \in G
  <2> SUFFICES ASSUME NEW y \in T PROVE SumOf(f, T) = f[y] + SumOf(f, T \ {y})
    OBVIOUS
  <2> DEFINE p == Pick(T)
  <2>1. p \in T /\ SumOf(f, T) = f[p] + SumOf(f, T \ {p})
    BY <1>0, SumEquation, PickIsElement
  <2>2. CASE y = p
    BY <2>1, <2>2
  <2>3. CASE y # p
    <3> HIDE DEF p
    <3>1. T \ {p} \in G /\ T \ {y} \in G
      <4> HIDE DEF G
      <4>1. T \ {p} \in SUBSET T /\ T \ {p} # T /\ T \ {y} \in SUBSET T /\ T \ {y} # T
        BY <2>1
      <4> QED BY <1>1, <4>1
    <3>2. SumOf(f, T \ {p}) = f[y] + SumOf(f, (T \ {p}) \ {y})
      BY <2>3, <3>1
    <3>3. SumOf(f, T \ {y}) = f[p] + SumOf(f, (T \ {y}) \ {p})
      BY <2>1, <2>3, <3>1
    <3>4. (T \ {p}) \ {y} = (T \ {y}) \ {p} /\ (T \ {p}) \ {y} \in SUBSET S
      OBVIOUS
    <3>5. f[p] \in Nat /\ f[y] \in Nat /\ SumOf(f, (T \ {p}) \ {y}) \in Nat
      BY <1>0, <2>1, <3>4
    <3> QED BY <2>1, <3>2, <3>3, <3>4, <3>5
  <2> QED BY <2>2, <2>3
<1>2. \A T \in SUBSET S : T \in G
  <2> HIDE DEF G
  <2> QED BY <1>1, SmallerFirst
<1> QED
  BY <1>2

(* One more element. *)
LEMMA SumAdd ==
  ASSUME NEW f, NEW S, IsFiniteSet(S), NEW x, x \notin S, \A y \in S \cup {x} : f[y] \in Nat
  PROVE  SumOf(f, S \cup {x}) = f[x] + SumOf(f, S)
<1>1. IsFiniteSet(S \cup {x}) /\ x \in S \cup {x} /\ (S \cup {x}) \ {x} = S
  BY FS_AddElement
<1> QED
  BY <1>1, SumRemove

(* A function that is changed at one place. *)
LEMMA SumChange ==
  ASSUME NEW f, NEW g, NEW S, IsFiniteSet(S), NEW x \in S,
         \A y \in S : f[y] \in Nat /\ g[y] \in Nat,
         \A y \in S \ {x} : g[y] = f[y]
  PROVE  SumOf(g, S) = SumOf(f, S) - f[x] + g[x]
<1>1. SumOf(f, S) = f[x] + SumOf(f, S \ {x}) /\ SumOf(g, S) = g[x] + SumOf(g, S \ {x})
  BY SumRemove
<1>2. IsFiniteSet(S \ {x})
  BY FS_RemoveElement
<1>3. SumOf(f, S \ {x}) = SumOf(g, S \ {x}) /\ SumOf(f, S \ {x}) \in Nat
  BY <1>2, SumOfEqual, SumType
<1> QED
  BY <1>1, <1>3

(* Zeros add up to zero. *)
LEMMA SumZero ==
  ASSUME NEW f, NEW S, IsFiniteSet(S), \A x \in S : f[x] = 0
  PROVE  SumOf(f, S) = 0
<1> DEFINE G == {T \in SUBSET S : SumOf(f, T) = 0}
<1>1. ASSUME NEW T \in SUBSET S, \A U \in SUBSET T : U # T => U \in G
      PROVE  T \in G
  <2>1. SumOf(f, T) = IF T = {} THEN 0 ELSE f[Pick(T)] + SumOf(f, T \ {Pick(T)})
    BY SumEquation, FS_Subset
  <2>2. T # {} => Pick(T) \in T /\ SumOf(f, T \ {Pick(T)}) = 0
    BY <1>1, PickIsElement
  <2>3. T # {} => f[Pick(T)] = 0
    BY <2>2
  <2> QED BY <2>1, <2>2, <2>3
<1>2. \A T \in SUBSET S : T \in G
  <2> HIDE DEF G
  <2> QED BY <1>1, SmallerFirst
<1> QED
  BY <1>2

-----------------------------------------------------------------------------
(* Largest and smallest numbers *)

(* A nonempty finite set of integers has a maximum and a minimum. *)
LEMMA MaxMinExist ==
  ASSUME NEW S, IsFiniteSet(S), S \subseteq Int, S # {}
  PROVE  (\E m \in S : \A y \in S : m >= y) /\ (\E m \in S : \A y \in S : m <= y)
<1> DEFINE G == {T \in SUBSET S : T # {} =>
                   (\E m \in T : \A y \in T : m >= y) /\ (\E m \in T : \A y \in T : m <= y)}
<1>1. ASSUME NEW T \in SUBSET S, \A U \in SUBSET T : U # T => U \in G
      PROVE  T \in G
  <2> SUFFICES ASSUME T # {}
               PROVE  (\E m \in T : \A y \in T : m >= y) /\ (\E m \in T : \A y \in T : m <= y)
    OBVIOUS
  <2>1. PICK x \in T : TRUE
    OBVIOUS
  <2>2. CASE T = {x}
    BY <2>2
  <2>3. CASE T # {x}
    <3>1. T \ {x} # {} /\ T \ {x} \in G
      <4>1. T \ {x} \in SUBSET T /\ T \ {x} # T
        BY <2>1
      <4>2. T \ {x} # {}
        BY <2>1, <2>3
      <4> HIDE DEF G
      <4> QED BY <1>1, <4>1, <4>2
    <3>2. PICK m \in T \ {x} : \A y \in T \ {x} : m >= y
      BY <3>1
    <3>3. PICK l \in T \ {x} : \A y \in T \ {x} : l <= y
      BY <3>1
    <3>4. \E k \in T : \A y \in T : k >= y
      BY <2>1, <3>2
    <3>5. \E k \in T : \A y \in T : k <= y
      BY <2>1, <3>3
    <3> QED BY <3>4, <3>5
  <2> QED BY <2>2, <2>3
<1>2. \A T \in SUBSET S : T \in G
  <2> HIDE DEF G
  <2> QED BY <1>1, SmallerFirst
<1> QED
  BY <1>2

(* The maximum of a finite set is an element that bounds the others. *)
LEMMA MaxOfFinite ==
  ASSUME NEW S, IsFiniteSet(S), S \subseteq Int, S # {}
  PROVE  Max(S) \in S /\ \A y \in S : y <= Max(S)
<1>1. \E m \in S : \A y \in S : m >= y
  BY MaxMinExist
<1>2. Max(S) \in S /\ \A y \in S : Max(S) >= y
  BY <1>1 DEF Max
<1> QED
  BY <1>2

(* The minimum of a finite set is an element that bounds the others. *)
LEMMA MinOfFinite ==
  ASSUME NEW S, IsFiniteSet(S), S \subseteq Int, S # {}
  PROVE  Min(S) \in S /\ \A y \in S : Min(S) <= y
<1>1. \E m \in S : \A y \in S : m <= y
  BY MaxMinExist
<1> QED
  BY <1>1 DEF Min
==============================================================================
