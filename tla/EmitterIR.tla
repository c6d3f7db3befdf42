------------------------------- MODULE EmitterIR -------------------------------
(***************************************************************************)
(* The extension features of pkg/i2gw/emitter_intermediate.                *)
(*                                                                         *)
(* The features of a route, or of a Gateway, are a function from pairs     *)
(* <<feature, index>> to the IRs of the features.  Rules and listeners     *)
(* are counted from 1, so that 0 can stand for all of them.                *)
(*                                                                         *)
(* An IR is a record: fields, which has those that are set; source, which  *)
(* is <<>> for nil and else holds the Ingress; and id, the pointer, since  *)
(* two routes may have the same IR.  A list whose order does not matter to *)
(* Equals is a set.                                                        *)
(***************************************************************************)
EXTENDS Maps, Integers, FiniteSets

RouteRuleAllFirst == 1
RouteRuleAllIndex == 0

IndicesOf(features, f) == {at[2] : at \in {x \in DOMAIN features : x[1] = f}}

Equals(a, b) == a.fields = b.fields

AllEqual(features, f) ==
  \A m, n \in IndicesOf(features, f) : Equals(features[<<f, m>>], features[<<f, n>>])

MergeableIfEqual(features, f, size) ==
  IndicesOf(features, f) # {} /\ AllEqual(features, f)

\* As many IRs as rules, and no two that differ.
Mergeable(features, f, size) ==
  /\ IndicesOf(features, f) # {}
  /\ Cardinality(IndicesOf(features, f)) = size
  /\ AllEqual(features, f)

Merged(features, f, first) ==
  [at \in {x \in DOMAIN features : x[1] # f} \union {<<f, RouteRuleAllIndex>>} |->
     IF at[1] = f THEN first ELSE features[at]]

\* MergeExtensionFeature: the IR that is kept is the first that Go takes from
\* the map.
MergeExtensionFeature(features, f, size) ==
  IF Mergeable(features, f, size)
  THEN {Merged(features, f, features[<<f, n>>]) : n \in IndicesOf(features, f)}
  ELSE {features}
===============================================================================
