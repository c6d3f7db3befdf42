-------------------------------- MODULE Orders --------------------------------
(***************************************************************************)
(* Sorted slices.  An order is the set of the pairs whose first element    *)
(* comes before the second.  The operators are closed, not recursive, so   *)
(* that the length of what they return is known of any finite set.         *)
(***************************************************************************)
EXTENDS Integers, Sequences, FiniteSets

\* The elements of a finite set, each at the place that the number of elements
\* before it gives it.
Ordered(S, order) ==
  [n \in 1..Cardinality(S) |->
     CHOOSE x \in S : Cardinality({y \in S : <<y, x>> \in order}) = n - 1]

Increasing(S) == Ordered(S, {p \in S \X S : p[1] < p[2]})

\* The elements of a sequence at some of its indices, in their order.
Those(s, indices) ==
  LET at == Increasing(indices)
  IN  [n \in DOMAIN at |-> s[at[n]]]
===============================================================================
