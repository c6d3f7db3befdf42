----------------------------- MODULE EmitterProofs -----------------------------
(***************************************************************************)
(* Proofs about the emitter IR and the Envoy Gateway emitter, for any      *)
(* emitter IR, whatever order resources and indices are visited in, and    *)
(* whichever features are merged: merging changes no rule; policies match  *)
(* features; resources and policies have their types; no feature is lost;  *)
(* secrets of other namespaces are granted; and rules keep their backends. *)
(***************************************************************************)
EXTENDS EnvoyEmitter, FiniteSetTheorems, WellFoundedInduction, TLAPS

(***************************************************************************)
(* Merging is sound: when the IRs of a feature are at indices of a route's *)
(* rules, MergeExtensionFeature changes what no rule asks for, of this     *)
(* feature and of others, whether these are merged already or not.         *)
(***************************************************************************)
\* What the features ask for at a rule: the fields of the IRs at its index and
\* at the index for all rules.
Asked(features, f, n) ==
  {features[at].fields : at \in DOMAIN features \cap {<<f, n>>, <<f, RouteRuleAllIndex>>}}

\* Features are at pairs of a name and one of the indices.
IndexedBy(features, indices) ==
  \A at \in DOMAIN features : at = <<at[1], at[2]>> /\ at[2] \in indices

\* The features of a route with as many rules as size, of which f is not merged.
IsFeatures(features, f, size) ==
  /\ IndexedBy(features, {RouteRuleAllIndex} \union 1..size)
  /\ <<f, RouteRuleAllIndex>> \notin DOMAIN features

\* As many indices as rules are all of them.
LEMMA AllIndices ==
  ASSUME NEW features, NEW f, NEW size \in Nat,
         IsFeatures(features, f, size), Mergeable(features, f, size)
  PROVE  IndicesOf(features, f) = 1..size
PROOF
<1>1. IndicesOf(features, f) \subseteq 1..size
  BY DEF IndicesOf, IsFeatures, IndexedBy
<1>2. IsFiniteSet(1..size) /\ Cardinality(1..size) = size
  BY FS_Interval
<1>3. Cardinality(IndicesOf(features, f)) = size
  BY DEF Mergeable
<1> QED
  BY <1>1, <1>2, <1>3, FS_Subset

\* An index of the feature is one of a pair in its domain.
LEMMA IndexAt ==
  ASSUME NEW features, NEW f, NEW size \in Nat, NEW n \in IndicesOf(features, f),
         IsFeatures(features, f, size)
  PROVE  <<f, n>> \in DOMAIN features /\ n \in 1..size
PROOF
<1>1. PICK at \in DOMAIN features : at[1] = f /\ n = at[2]
  BY DEF IndicesOf
<1>2. at = <<f, n>> /\ n \in {RouteRuleAllIndex} \union 1..size
  BY <1>1 DEF IsFeatures, IndexedBy
<1> QED
  BY <1>1, <1>2 DEF IsFeatures

\* "This consolidates redundant rule-level features into a single route-level
\* feature": whichever IR is kept, every rule asks for the same as before, of
\* this feature and of every other.
THEOREM MergingKeepsFeatures ==
  ASSUME NEW features, NEW f, NEW size \in Nat, IsFeatures(features, f, size),
         NEW merged \in MergeExtensionFeature(features, f, size),
         NEW g, NEW n \in 1..size
  PROVE  Asked(merged, g, n) = Asked(features, g, n)
PROOF
<1>1. CASE ~Mergeable(features, f, size)
  BY <1>1 DEF MergeExtensionFeature
<1>2. CASE Mergeable(features, f, size)
  <2>1. PICK m \in IndicesOf(features, f) : merged = Merged(features, f, features[<<f, m>>])
    BY <1>2 DEF MergeExtensionFeature
  <2>2. /\ \A k \in Nat : <<f, k>> \in DOMAIN merged <=> k = RouteRuleAllIndex
        /\ merged[<<f, RouteRuleAllIndex>>] = features[<<f, m>>]
        /\ \A at \in DOMAIN features : at[1] # f => at \in DOMAIN merged /\ merged[at] = features[at]
        /\ \A at \in DOMAIN merged : at[1] # f => at \in DOMAIN features
    <3>1. \A k \in Nat : <<f, k>> \in DOMAIN merged <=> k = RouteRuleAllIndex
      BY <2>1 DEF Merged
    <3>2. merged[<<f, RouteRuleAllIndex>>] = features[<<f, m>>]
      BY <2>1 DEF Merged
    <3>3. \A at \in DOMAIN features : at[1] # f => at \in DOMAIN merged /\ merged[at] = features[at]
      BY <2>1 DEF Merged
    <3>4. \A at \in DOMAIN merged : at[1] # f => at \in DOMAIN features
      <4>1. DOMAIN merged = {x \in DOMAIN features : x[1] # f} \union {<<f, RouteRuleAllIndex>>}
        BY <2>1 DEF Merged
      <4>2. <<f, RouteRuleAllIndex>>[1] = f
        OBVIOUS
      <4> QED
        BY <4>1, <4>2
    <3> QED
      BY <3>1, <3>2, <3>3, <3>4
  <2>3. CASE g # f
    <3>1. \A k : <<g, k>>[1] # f
      BY <2>3
    <3>2. \A at \in {<<g, n>>, <<g, RouteRuleAllIndex>>} :
            /\ at \in DOMAIN merged <=> at \in DOMAIN features
            /\ at \in DOMAIN features => merged[at] = features[at]
      BY <2>2, <3>1
    <3> QED
      BY <3>2 DEF Asked
  <2>4. CASE g = f
    <3>1. n \in IndicesOf(features, f)
      BY <1>2, AllIndices
    <3>2. features[<<f, m>>].fields = features[<<f, n>>].fields
      BY <1>2, <3>1 DEF Mergeable, AllEqual, Equals
    <3>3. <<f, n>> \in DOMAIN features /\ <<f, RouteRuleAllIndex>> \notin DOMAIN features
      <4>1. <<f, n>> \in DOMAIN features
        BY <3>1, IndexAt
      <4>2. RouteRuleAllIndex \notin 1..size
        BY DEF RouteRuleAllIndex
      <4> QED
        BY <4>1, <4>2 DEF IsFeatures
    <3>4. Asked(features, f, n) = {features[<<f, n>>].fields}
      BY <3>3 DEF Asked
    <3>5. Asked(merged, f, n) = {features[<<f, m>>].fields}
      <4>1. <<f, n>> \notin DOMAIN merged /\ <<f, RouteRuleAllIndex>> \in DOMAIN merged
        BY <2>2 DEF RouteRuleAllIndex
      <4> QED
        BY <2>2, <4>1 DEF Asked
    <3> QED
      BY <2>4, <3>2, <3>4, <3>5
  <2> QED
    BY <2>3, <2>4
<1> QED
  BY <1>1, <1>2

-------------------------------------------------------------------------------

PolicyFeatures == OfRoutePolicies \union {"mTLS"}

(***************************************************************************)
(* What the theorem assumes of the IR                                      *)
(***************************************************************************)
\* The indices at which a resource can have a feature, merged or not.
Indices(key) == {RouteRuleAllIndex} \union {at[2] : at \in DOMAIN ir[key].features}

\* No two routes, and no two Gateways, can have policies of one name.
PolicyNamesApart ==
  \A k, l \in DOMAIN ir : k.kind = l.kind /\ k.kind # "GRPCRoute" /\ k.ns = l.ns =>
    \A m \in Indices(k) : \A n \in Indices(l) :
      PolicyName(k.name, m) = PolicyName(l.name, n) => k = l /\ m = n

\* A rule or listener that has a feature has a name, and no other has it.
SectionsNamed ==
  \A key \in DOMAIN ir : \A at \in DOMAIN ir[key].features :
    at[2] \in DOMAIN Sections(key) =>
      /\ Sections(key)[at[2]].name # <<>>
      /\ \A n \in DOMAIN Sections(key) :
           Sections(key)[n].name = Sections(key)[at[2]].name => n = at[2]

(***************************************************************************)
(* The invariant.  Until the output is sorted, every resource keeps the    *)
(* names of its sections and asks for the same at every one of them; each  *)
(* policy belongs to one resource and one index, and each of its settings  *)
(* was made by a pass that is done with that index.                        *)
(***************************************************************************)
SectionsOf(key, r) == IF key.kind = "Gateway" THEN r.listeners ELSE r.rules

SameNames(s, s0) ==
  /\ s = [n \in DOMAIN s0 |-> s[n]]
  /\ \A n \in DOMAIN s0 : "name" \in DOMAIN s[n] /\ s[n].name = s0[n].name

Kept(key, r, r0) == DOMAIN r = DOMAIN r0 /\ SameNames(SectionsOf(key, r), SectionsOf(key, r0))

\* The features fs, of which visited may be merged, ask for what fs0, of which
\* none is, did.
AskTheSame(fs, fs0, size, visited) ==
  /\ \A at \in DOMAIN fs0 : at[2] \in 1..size
  /\ IndexedBy(fs, {RouteRuleAllIndex} \union 1..size)
  /\ \A f \in Features \ visited : <<f, RouteRuleAllIndex>> \notin DOMAIN fs
  /\ \A f \in Features : \A n \in 1..size : Asked(fs, f, n) = Asked(fs0, f, n)

Visited(key) ==
  {f \in Features : \E m \in DOMAIN Passes :
     Passes[m] = <<f, key.kind>> /\ (m < pass \/ (m = pass /\ key \notin pending))}

Sorting == \E m \in DOMAIN Passes : m <= pass /\ Passes[m][1] \in {"sort", "check"}
Filling == pass \in DOMAIN Passes /\ ~Sorting

LoopInv ==
  /\ pass \in Panicked..Ended
  /\ pending \subseteq DOMAIN ir
  /\ pass \in DOMAIN Passes => \A key \in pending : key.kind = Passes[pass][2]
  /\ Filling /\ todo # {} =>
       /\ current \in DOMAIN ir \ pending /\ current.kind = Passes[pass][2]
       /\ todo \subseteq IndicesOf(resources[current].features, Feature)

Faithful(key, r) ==
  /\ Kept(key, r, ir[key])
  /\ IndexedBy(r.features, Indices(key))
  /\ InRange(key) => AskTheSame(r.features, ir[key].features, Size(ir[key]), Visited(key))

ResourcesInv ==
  /\ ir \in EmitterIRs
  /\ DOMAIN resources = DOMAIN ir
  /\ Filling => \A key \in DOMAIN ir : Faithful(key, resources[key])

Done(f, key, idx) ==
  \E m \in DOMAIN Passes :
    /\ Passes[m] = <<f, key.kind>>
    /\ m < pass \/ (m = pass /\ key \notin pending /\ (key = current => idx \notin todo))

Outcome(f, fields, ns) == IF Fails(f, fields, ns) THEN EmptyMap ELSE Setting(f, fields, ns, EmptyMap)

\* The setting is what the feature f of every rule that idx stands for asks for.
Answers(setting, f, key, idx) ==
  InRange(key) =>
    \A n \in DOMAIN Sections(key) : idx \in {RouteRuleAllIndex, n} =>
      /\ <<f, n>> \in DOMAIN ir[key].features
      /\ setting = Outcome(f, ir[key].features[<<f, n>>].fields, key.ns)

\* The name of the section with the index.
NameAt(key, idx) == IF idx \in DOMAIN Sections(key) THEN Sections(key)[idx].name ELSE <<>>

IsPolicy(p, policy, key, idx) ==
  /\ p = <<p[1], key.ns, PolicyName(key.name, idx)>>
  /\ key.kind \in {"HTTPRoute", "Gateway"} /\ (p[1] = "ClientTrafficPolicy" <=> key.kind = "Gateway")
  /\ DOMAIN policy = {"target", "section", "spec"}
  /\ policy.target = key /\ policy.section = NameAt(key, idx)

Settled(spec, key, idx) ==
  \A f \in DOMAIN spec :
    /\ f \in PolicyFeatures /\ Answers(spec[f], f, key, idx)
    /\ pass # Panicked => Done(f, key, idx)

PoliciesInv ==
  \A p \in DOMAIN policies : \E key \in DOMAIN ir : \E idx \in Indices(key) :
    IsPolicy(p, policies[p], key, idx) /\ Settled(policies[p].spec, key, idx)

EmitterInv == LoopInv /\ ResourcesInv /\ (PolicyNamesApart => PoliciesInv)

(***************************************************************************)
(* The passes                                                              *)
(***************************************************************************)
LEMMA PassesDistinct ==
  /\ DOMAIN Passes = 1..20 /\ Ended = 21 /\ Panicked = 0
  /\ \A m, n \in DOMAIN Passes : Passes[m] = Passes[n] => m = n
PROOF
<1>1. DOMAIN Passes = 1..20 /\ Ended = 21 /\ Panicked = 0
  BY DEF Passes, Ended, Panicked
<1>2. \A m, n \in DOMAIN Passes : Passes[m] = Passes[n] => m = n
  BY DEF Passes
<1> QED
  BY <1>1, <1>2

\* Policies are for HTTPRoutes, or for Gateways with client certificates.
LEMMA PassesKinds ==
  ASSUME NEW n \in DOMAIN Passes
  PROVE  /\ Passes[n] = <<Passes[n][1], Passes[n][2]>>
         /\ Passes[n][1] \in OfRoutePolicies => Passes[n][2] = "HTTPRoute"
         /\ Passes[n][1] = "mTLS" => Passes[n][2] = "Gateway"
PROOF
<1>1. Passes[n] = <<Passes[n][1], Passes[n][2]>>
  BY DEF Passes
<1>2. Passes[n][1] \in OfRoutePolicies => Passes[n][2] = "HTTPRoute"
  BY DEF Passes, OfRoutePolicies
<1>3. Passes[n][1] = "mTLS" => Passes[n][2] = "Gateway"
  BY DEF Passes
<1> QED
  BY <1>1, <1>2, <1>3

LEMMA FeatureNames ==
  PolicyFeatures \subseteq Features
  BY DEF PolicyFeatures, Features, MergedFeatures, OfRoutePolicies

\* The output is sorted after the passes over features.
LEMMA SortingComesLast ==
  ASSUME NEW m \in DOMAIN Passes, NEW n \in DOMAIN Passes, m <= n, Passes[n][1] \in Features
  PROVE  Passes[m][1] \notin {"sort", "check"}
  BY DEF Passes, Features, MergedFeatures, OfRoutePolicies

LEMMA FillingAt ==
  ASSUME At(Features), LoopInv
  PROVE  Filling
  BY SortingComesLast, PassesDistinct DEF At, Filling, Sorting, LoopInv

(***************************************************************************)
(* Names of sections                                                       *)
(***************************************************************************)
LEMMA SameLength ==
  ASSUME NEW s, NEW s0, IsSections(s0), SameNames(s, s0)
  PROVE  Len(s) = Len(s0)
PROOF
<1> DEFINE T == {s[n] : n \in DOMAIN s0}
<1>1. s \in [1..Len(s0) -> T] /\ Len(s0) \in Nat
  BY DEF IsSections, IsList, SameNames
<1>2. s \in Seq(T)
  BY <1>1
<1> QED
  BY <1>1, <1>2

LEMMA KeptSize ==
  ASSUME NEW key, NEW r, NEW r0, IsResource(key, r0), Kept(key, r, r0)
  PROVE  Size(r) = Size(r0)
PROOF
<1>1. IsSections(SectionsOf(key, r0))
  BY DEF IsResource, SectionsOf
<1>2. Len(SectionsOf(key, r)) = Len(SectionsOf(key, r0))
  BY <1>1, SameLength DEF Kept
<1> QED
  BY <1>2 DEF Kept, IsResource, SectionsOf, Size

\* A resource of the IR: its sections and its size.
LEMMA SizeOfSections ==
  ASSUME ResourcesInv, NEW key \in DOMAIN ir
  PROVE  /\ IsResource(key, ir[key])
         /\ Sections(key) = SectionsOf(key, ir[key])
         /\ Size(ir[key]) \in Nat /\ DOMAIN Sections(key) = 1..Size(ir[key])
PROOF
<1>1. IsResource(key, ir[key])
  BY EmitterIRsAssumption DEF ResourcesInv
<1>2. Sections(key) = SectionsOf(key, ir[key])
  BY DEF Sections, SectionsOf
<1>3. Size(ir[key]) = Len(SectionsOf(key, ir[key]))
  BY <1>1 DEF IsResource, Size, SectionsOf
<1> QED
  BY <1>1, <1>2, <1>3 DEF IsResource, IsSections, IsList, SectionsOf

(***************************************************************************)
(* Merging                                                                 *)
(***************************************************************************)
LEMMA MergedIndices ==
  ASSUME NEW fs, NEW f, NEW size, NEW I, IndexedBy(fs, I), RouteRuleAllIndex \in I,
         NEW merged \in MergeExtensionFeature(fs, f, size)
  PROVE  /\ IndexedBy(merged, I)
         /\ \A g : g # f => (<<g, RouteRuleAllIndex>> \in DOMAIN merged
                               => <<g, RouteRuleAllIndex>> \in DOMAIN fs)
PROOF
<1>1. DOMAIN merged \subseteq DOMAIN fs \union {<<f, RouteRuleAllIndex>>}
  BY DEF MergeExtensionFeature, Merged
<1> QED
  BY <1>1 DEF IndexedBy

LEMMA MergingAsksTheSame ==
  ASSUME NEW fs, NEW fs0, NEW size \in Nat, NEW visited, AskTheSame(fs, fs0, size, visited),
         NEW f \in Features \ visited, NEW merged \in MergeExtensionFeature(fs, f, size)
  PROVE  AskTheSame(merged, fs0, size, visited \union {f})
PROOF
<1>1. IsFeatures(fs, f, size)
  BY DEF AskTheSame, IsFeatures
<1>2. /\ IndexedBy(merged, {RouteRuleAllIndex} \union 1..size)
      /\ \A g : g # f => (<<g, RouteRuleAllIndex>> \in DOMAIN merged
                            => <<g, RouteRuleAllIndex>> \in DOMAIN fs)
  BY MergedIndices DEF AskTheSame
<1>3. \A g \in Features : \A n \in 1..size : Asked(merged, g, n) = Asked(fs, g, n)
  BY <1>1, MergingKeepsFeatures
<1> QED
  BY <1>2, <1>3 DEF AskTheSame

LEMMA AsksTheSameIfMoreVisited ==
  ASSUME NEW fs, NEW fs0, NEW size, NEW visited, NEW more, visited \subseteq more,
         AskTheSame(fs, fs0, size, visited)
  PROVE  AskTheSame(fs, fs0, size, more)
  BY DEF AskTheSame

\* What fs asks for at a rule or listener is what fs0 does.
AsLoaded(fs, fs0, f, n) ==
  \A idx \in {RouteRuleAllIndex, n} : <<f, idx>> \in DOMAIN fs =>
    <<f, n>> \in DOMAIN fs0 /\ fs[<<f, idx>>].fields = fs0[<<f, n>>].fields

LEMMA AskedAtLoading ==
  ASSUME NEW fs, NEW fs0, NEW size, NEW visited, AskTheSame(fs, fs0, size, visited),
         NEW f \in Features, NEW n \in 1..size
  PROVE  AsLoaded(fs, fs0, f, n)
PROOF
<1>1. ASSUME NEW idx \in {RouteRuleAllIndex, n}, <<f, idx>> \in DOMAIN fs
      PROVE  <<f, n>> \in DOMAIN fs0 /\ fs[<<f, idx>>].fields = fs0[<<f, n>>].fields
  <2>1. fs[<<f, idx>>].fields \in Asked(fs0, f, n)
    BY <1>1 DEF AskTheSame, Asked
  <2>2. <<f, RouteRuleAllIndex>> \notin DOMAIN fs0
    <3>1. <<f, RouteRuleAllIndex>>[2] \notin 1..size
      BY DEF RouteRuleAllIndex
    <3> QED
      BY <3>1 DEF AskTheSame
  <2> QED
    BY <2>1, <2>2 DEF Asked
<1> QED
  BY <1>1 DEF AsLoaded

(***************************************************************************)
(* The loops                                                               *)
(***************************************************************************)
Continues == pass' = pass /\ current' = current /\ pending' \subseteq pending /\ todo' \subseteq todo

LEMMA StepOfLoops ==
  ASSUME [Next]_vars
  PROVE  /\ ir' = ir
         /\ Continues \/ pass' = Panicked \/ NextPass \/ VisitResource
PROOF
<1>1. CASE UNCHANGED vars
  BY <1>1 DEF vars, loop, Continues
<1>2. CASE NextPass
  BY <1>2 DEF NextPass
<1>3. CASE VisitResource
  BY <1>3 DEF VisitResource
<1>4. CASE AlreadyParsed
  BY <1>4 DEF AlreadyParsed, Continues
<1>5. CASE RemoveBackendRefsDuplicates
  BY <1>5 DEF RemoveBackendRefsDuplicates, Continues
<1>6. CASE EmitRegex
  BY <1>6 DEF EmitRegex, Continues, Panic, Succeed, Skip, Finish
<1>7. CASE EmitRewrite
  BY <1>7 DEF EmitRewrite, Continues, Panic, Succeed, Skip, Finish
<1>8. CASE EmitRedirect
  BY <1>8 DEF EmitRedirect, Continues, Panic, Succeed, Skip, Finish
<1>9. CASE EmitPolicy
  BY <1>9 DEF EmitPolicy, Continues, Panic, Succeed, Skip, Finish
<1>10. CASE EmitMTLS
  BY <1>10 DEF EmitMTLS, Continues, Panic, Succeed, Finish
<1>11. CASE EmitBackendTLS
  BY <1>11 DEF EmitBackendTLS, Continues, Panic, Succeed, Finish
<1>12. CASE SortResource
  BY <1>12 DEF SortResource, Continues
<1>13. CASE CheckConvertExtensionFeatures
  BY <1>13 DEF CheckConvertExtensionFeatures, Continues, Panic
<1>14. CASE EmissionEnded
  BY <1>14 DEF EmissionEnded, vars, loop, Continues
<1> QED
  BY <1>1, <1>2, <1>3, <1>4, <1>5, <1>6, <1>7, <1>8, <1>9, <1>10, <1>11, <1>12, <1>13, <1>14 DEF Next

\* What has been visited stays visited, and what is done, done.
LEMMA VisitedStays ==
  ASSUME LoopInv, [Next]_vars, pass' # Panicked, NEW key
  PROVE  Visited(key) \subseteq Visited(key)'
PROOF
<1>1. CASE Continues
  BY <1>1 DEF Continues, Visited
<1>2. CASE NextPass
  BY <1>2, PassesDistinct DEF NextPass, Visited
<1>3. CASE VisitResource
  BY <1>3 DEF VisitResource, Visited
<1> QED
  BY <1>1, <1>2, <1>3, StepOfLoops

LEMMA DoneStays ==
  ASSUME LoopInv, [Next]_vars, pass' # Panicked, NEW f, NEW key, NEW idx, Done(f, key, idx)
  PROVE  Done(f, key, idx)'
PROOF
<1>1. CASE Continues
  BY <1>1 DEF Continues, Done
<1>2. CASE NextPass
  BY <1>2, PassesDistinct DEF NextPass, Done
<1>3. CASE VisitResource
  BY <1>3 DEF VisitResource, Done
<1> QED
  BY <1>1, <1>2, <1>3, StepOfLoops

LEMMA FillingBefore ==
  ASSUME LoopInv, [Next]_vars, Filling'
  PROVE  Filling
PROOF
<1>1. CASE Continues
  BY <1>1 DEF Continues, Filling, Sorting
<1>2. CASE NextPass
  BY <1>2, PassesDistinct DEF NextPass, Filling, Sorting
<1>3. CASE VisitResource
  BY <1>3 DEF VisitResource, Filling, Sorting
<1>4. CASE pass' = Panicked
  BY <1>4, PassesDistinct DEF Filling
<1> QED
  BY <1>1, <1>2, <1>3, <1>4, StepOfLoops

(***************************************************************************)
(* What the passes do to resources                                         *)
(***************************************************************************)
\* The resource r becomes q: sections keep their names, and features stay.
Refilled(key, r, q) ==
  /\ q.features = r.features
  /\ \A r0 : IsResource(key, r0) /\ Kept(key, r, r0) => Kept(key, q, r0)

LEMMA RulesChanged ==
  ASSUME NEW key \in DOMAIN resources, key.kind # "Gateway", NEW rules,
         "features" \in DOMAIN resources[key],
         resources' = [resources EXCEPT ![key].rules = rules],
         \A s0 : SameNames(resources[key].rules, s0) => SameNames(rules, s0)
  PROVE  \A k \in DOMAIN resources : Refilled(k, resources[k], resources'[k])
PROOF
<1> SUFFICES ASSUME NEW k \in DOMAIN resources
             PROVE  Refilled(k, resources[k], resources'[k])
  OBVIOUS
<1>1. CASE k # key
  BY <1>1 DEF Refilled
<1>2. CASE k = key
  <2> DEFINE r == resources[key]
             q == resources'[key]
  <2>1. q = [r EXCEPT !.rules = rules]
    BY <1>2
  <2>2. q.features = r.features /\ DOMAIN q = DOMAIN r
    BY <2>1
  <2>3. ASSUME NEW r0, IsResource(key, r0), Kept(key, r, r0)
        PROVE  Kept(key, q, r0)
    <3>1. "rules" \in DOMAIN r
      BY <2>3 DEF Kept, IsResource
    <3>2. q.rules = rules
      BY <2>1, <3>1
    <3> QED
      BY <2>2, <2>3, <3>2 DEF Kept, SectionsOf
  <2> QED
    BY <1>2, <2>2, <2>3 DEF Refilled
<1> QED
  BY <1>1, <1>2

\* An index that is to be converted belongs to the resource that was visited.
LEMMA AtResource ==
  ASSUME LoopInv, ResourcesInv, Filling, NEW idx \in todo
  PROVE  /\ current \in DOMAIN ir /\ current \notin pending /\ current.kind = Passes[pass][2]
         /\ Kept(current, resources[current], ir[current])
         /\ DOMAIN resources[current] = DOMAIN ir[current]
         /\ "features" \in DOMAIN resources[current]
         /\ <<Feature, idx>> \in DOMAIN resources[current].features
         /\ idx \in Indices(current)
PROOF
<1>1. /\ current \in DOMAIN ir /\ current \notin pending /\ current.kind = Passes[pass][2]
      /\ idx \in IndicesOf(resources[current].features, Feature)
  BY DEF LoopInv
<1>2. Faithful(current, resources[current]) /\ IsResource(current, ir[current])
  BY <1>1, SizeOfSections DEF ResourcesInv
<1>3. PICK at \in DOMAIN resources[current].features : at[1] = Feature /\ at[2] = idx
  BY <1>1 DEF IndicesOf
<1>4. at = <<Feature, idx>> /\ idx \in Indices(current)
  BY <1>2, <1>3 DEF Faithful, IndexedBy
<1> QED
  BY <1>1, <1>2, <1>3, <1>4 DEF Faithful, Kept, IsResource

LEMMA AtRoute ==
  ASSUME LoopInv, ResourcesInv, At(Features \ {"mTLS"}), NEW idx \in todo
  PROVE  current \in DOMAIN resources /\ current.kind # "Gateway" /\ Filling
PROOF
<1>1. At(Features) /\ Feature # "mTLS" /\ Feature # "sort"
  BY DEF At, Feature, Features, MergedFeatures, OfRoutePolicies
<1>2. Filling
  BY <1>1, FillingAt
<1>3. current \in DOMAIN ir /\ current.kind = Passes[pass][2]
  BY <1>2, AtResource
<1>4. Passes[pass][2] # "Gateway"
  <2>1. \A n \in DOMAIN Passes : Passes[n][2] = "Gateway" => Passes[n][1] \in {"mTLS", "sort"}
    BY DEF Passes
  <2> QED
    BY <1>1, <2>1 DEF At, Feature
<1> QED
  BY <1>2, <1>3, <1>4 DEF ResourcesInv

\* A pass that changes one rule of a route, but not its name.
LEMMA OneRuleChanged ==
  ASSUME LoopInv, ResourcesInv, At(Features \ {"mTLS"}), NEW any \in todo,
         NEW idx \in DOMAIN resources[current].rules, NEW rule,
         resources' = [resources EXCEPT ![current].rules[idx] = rule],
         "name" \in DOMAIN resources[current].rules[idx] =>
           "name" \in DOMAIN rule /\ rule.name = resources[current].rules[idx].name
  PROVE  \A k \in DOMAIN resources : Refilled(k, resources[k], resources'[k])
PROOF
<1> DEFINE s == resources[current].rules
           t == [s EXCEPT ![idx] = rule]
<1>1. current \in DOMAIN resources /\ current.kind # "Gateway" /\ "features" \in DOMAIN resources[current]
  BY AtRoute, AtResource
<1>2. resources' = [resources EXCEPT ![current].rules = t]
  OBVIOUS
<1>3. ASSUME NEW s0, SameNames(s, s0)
      PROVE  SameNames(t, s0)
  BY <1>3 DEF SameNames
<1> HIDE DEF t
<1> QED
  BY <1>1, <1>2, <1>3, RulesChanged

LEMMA RegexRefills ==
  ASSUME LoopInv, ResourcesInv, EmitRegex
  PROVE  \A k \in DOMAIN resources : Refilled(k, resources[k], resources'[k])
PROOF
<1>1. PICK idx \in todo :
        /\ At({"regex"})
        /\ \/ UNCHANGED resources
           \/ /\ idx \in DOMAIN resources[current].rules
              /\ resources' = [resources EXCEPT ![current].rules[idx].path.type = "RegularExpression"]
  BY DEF EmitRegex, Emits, NoRule, Resource
<1>2. At(Features \ {"mTLS"})
  BY <1>1 DEF At, Features, MergedFeatures
<1>3. CASE UNCHANGED resources
  BY <1>3 DEF Refilled
<1>4. CASE resources' # resources
  <2> DEFINE old  == resources[current].rules[idx]
             rule == [old EXCEPT !.path.type = "RegularExpression"]
  <2>1. resources' = [resources EXCEPT ![current].rules[idx] = rule]
    BY <1>1, <1>4
  <2>2. "name" \in DOMAIN old => "name" \in DOMAIN rule /\ rule.name = old.name
    OBVIOUS
  <2> HIDE DEF rule
  <2> QED
    BY <1>1, <1>2, <1>4, <2>1, <2>2, OneRuleChanged
<1> QED
  BY <1>3, <1>4

LEMMA FilterAdded ==
  ASSUME NEW rule, NEW filter
  PROVE  "name" \in DOMAIN rule =>
           "name" \in DOMAIN WithFilter(rule, filter) /\ WithFilter(rule, filter).name = rule.name
  BY DEF WithFilter

LEMMA RewriteRefills ==
  ASSUME LoopInv, ResourcesInv, EmitRewrite
  PROVE  \A k \in DOMAIN resources : Refilled(k, resources[k], resources'[k])
PROOF
<1>1. PICK idx \in todo : \E filter :
        /\ At({"rewrite"})
        /\ \/ UNCHANGED resources
           \/ /\ idx \in DOMAIN resources[current].rules
              /\ resources' = [resources EXCEPT ![current].rules[idx] =
                   WithFilter([@ EXCEPT !.path = RootPath], filter)]
           \/ /\ idx \in DOMAIN resources[current].rules
              /\ resources' = [resources EXCEPT ![current].rules[idx] = WithFilter(@, filter)]
  BY DEF EmitRewrite, Emits, NoRule, Resource
<1>2. At(Features \ {"mTLS"})
  BY <1>1 DEF At, Features, MergedFeatures
<1>3. PICK filter :
        \/ UNCHANGED resources
        \/ /\ idx \in DOMAIN resources[current].rules
           /\ resources' = [resources EXCEPT ![current].rules[idx] =
                WithFilter([@ EXCEPT !.path = RootPath], filter)]
        \/ /\ idx \in DOMAIN resources[current].rules
           /\ resources' = [resources EXCEPT ![current].rules[idx] = WithFilter(@, filter)]
  BY <1>1
<1> DEFINE old    == resources[current].rules[idx]
           rooted == [old EXCEPT !.path = RootPath]
<1>4. "name" \in DOMAIN old => "name" \in DOMAIN rooted /\ rooted.name = old.name
  OBVIOUS
<1>5. CASE UNCHANGED resources
  BY <1>5 DEF Refilled
<1>6. CASE /\ idx \in DOMAIN resources[current].rules
           /\ resources' = [resources EXCEPT ![current].rules[idx] = WithFilter(rooted, filter)]
  <2>1. "name" \in DOMAIN old => /\ "name" \in DOMAIN WithFilter(rooted, filter)
                                 /\ WithFilter(rooted, filter).name = old.name
    BY <1>4, FilterAdded
  <2> HIDE DEF rooted
  <2> QED
    BY <1>2, <1>6, <2>1, OneRuleChanged
<1>7. CASE /\ idx \in DOMAIN resources[current].rules
           /\ resources' = [resources EXCEPT ![current].rules[idx] = WithFilter(old, filter)]
  BY <1>2, <1>7, FilterAdded, OneRuleChanged
<1> QED
  BY <1>3, <1>5, <1>6, <1>7

LEMMA RedirectRefills ==
  ASSUME LoopInv, ResourcesInv, EmitRedirect
  PROVE  \A k \in DOMAIN resources : Refilled(k, resources[k], resources'[k])
PROOF
<1>1. PICK idx \in todo :
        /\ At({"redirect"})
        /\ \/ UNCHANGED resources
           \/ /\ idx \in DOMAIN resources[current].rules
              /\ resources' = [resources EXCEPT ![current].rules[idx].filters =
                   @ \o RedirectFilters(IR(idx).fields)]
  BY DEF EmitRedirect, Emits, NoRule, Resource
<1>2. At(Features \ {"mTLS"})
  BY <1>1 DEF At, Features, MergedFeatures
<1> DEFINE old  == resources[current].rules[idx]
           rule == [old EXCEPT !.filters = @ \o RedirectFilters(IR(idx).fields)]
<1>3. CASE UNCHANGED resources
  BY <1>3 DEF Refilled
<1>4. CASE resources' # resources
  <2>1. resources' = [resources EXCEPT ![current].rules[idx] = rule]
    BY <1>1, <1>4
  <2>2. "name" \in DOMAIN old => "name" \in DOMAIN rule /\ rule.name = old.name
    OBVIOUS
  <2> HIDE DEF rule
  <2> QED
    BY <1>1, <1>2, <1>4, <2>1, <2>2, OneRuleChanged
<1> QED
  BY <1>3, <1>4

\* Rules that got other backends.
LEMMA BackendsChanged ==
  ASSUME NEW s, NEW s0, SameNames(s, s0), NEW t, DOMAIN t = DOMAIN s, t = [n \in DOMAIN s |-> t[n]],
         \A n \in DOMAIN s : t[n] = s[n] \/ \E refs : t[n] = [s[n] EXCEPT !.backends = refs]
  PROVE  SameNames(t, s0)
PROOF
<1>1. DOMAIN s = DOMAIN s0
  BY DEF SameNames
<1>2. ASSUME NEW n \in DOMAIN s
      PROVE  "name" \in DOMAIN t[n] /\ t[n].name = s0[n].name
  <2>1. "name" \in DOMAIN s[n] /\ s[n].name = s0[n].name
    BY <1>1 DEF SameNames
  <2>2. CASE t[n] = s[n]
    BY <2>1, <2>2
  <2>3. CASE \E refs : t[n] = [s[n] EXCEPT !.backends = refs]
    BY <2>1, <2>3
  <2> QED
    BY <2>2, <2>3
<1> QED
  BY <1>1, <1>2 DEF SameNames

LEMMA BackendTLSRefills ==
  ASSUME LoopInv, ResourcesInv, EmitBackendTLS
  PROVE  \A k \in DOMAIN resources : Refilled(k, resources[k], resources'[k])
PROOF
<1>1. PICK idx \in todo :
        /\ At({"backendTLS"})
        /\ \/ UNCHANGED resources
           \/ LET rules   == Resource.rules
                  targets == IF idx = RouteRuleAllIndex THEN DOMAIN rules ELSE {idx}
                  moved(ref) == [ref EXCEPT !.kind = "Backend", !.name = BackendName(idx, @), !.port = 0]
              IN  resources' = [resources EXCEPT ![current].rules =
                    [n \in DOMAIN rules |->
                       IF n \notin targets THEN rules[n]
                       ELSE [rules[n] EXCEPT !.backends = [x \in DOMAIN @ |-> moved(@[x])]]]]
  BY DEF EmitBackendTLS, Emits
<1>2. At(Features \ {"mTLS"})
  BY <1>1 DEF At, Features, MergedFeatures
<1>3. CASE UNCHANGED resources
  BY <1>3 DEF Refilled
<1>4. CASE resources' # resources
  <2> DEFINE s == resources[current].rules
             targets == IF idx = RouteRuleAllIndex THEN DOMAIN s ELSE {idx}
             moved(ref) == [ref EXCEPT !.kind = "Backend", !.name = BackendName(idx, @), !.port = 0]
             refs(n) == [x \in DOMAIN s[n].backends |-> moved(s[n].backends[x])]
             t == [n \in DOMAIN s |->
                     IF n \notin targets THEN s[n] ELSE [s[n] EXCEPT !.backends = refs(n)]]
  <2>1. resources' = [resources EXCEPT ![current].rules = t]
    BY <1>1, <1>4 DEF Resource
  <2>2. DOMAIN t = DOMAIN s /\ t = [n \in DOMAIN s |-> t[n]]
    OBVIOUS
  <2>3. \A n \in DOMAIN s : t[n] = s[n] \/ \E list : t[n] = [s[n] EXCEPT !.backends = list]
    <3> HIDE DEF targets, refs
    <3> QED
      OBVIOUS
  <2>4. \A s0 : SameNames(s, s0) => SameNames(t, s0)
    <3> HIDE DEF t
    <3> QED
      BY <2>2, <2>3, BackendsChanged
  <2>5. current \in DOMAIN resources /\ current.kind # "Gateway" /\ "features" \in DOMAIN resources[current]
    BY <1>1, <1>2, AtRoute, AtResource
  <2> HIDE DEF t
  <2> QED
    BY <2>1, <2>4, <2>5, RulesChanged
<1> QED
  BY <1>3, <1>4

LEMMA DuplicatesRefill ==
  ASSUME LoopInv, ResourcesInv, Filling, RemoveBackendRefsDuplicates
  PROVE  \A k \in DOMAIN resources : Refilled(k, resources[k], resources'[k])
PROOF
<1>1. PICK key \in pending : \E rules \in WithBackends(resources[key].rules, UniqueBackendRefs) :
        At({"duplicates"}) /\ resources' = [resources EXCEPT ![key].rules = rules]
  BY DEF RemoveBackendRefsDuplicates
<1> DEFINE s == resources[key].rules
<1>2. PICK lists : /\ At({"duplicates"})
                   /\ resources' = [resources EXCEPT ![key].rules =
                        [n \in DOMAIN s |-> [s[n] EXCEPT !.backends = lists[n]]]]
  BY <1>1 DEF WithBackends
<1> DEFINE t == [n \in DOMAIN s |-> [s[n] EXCEPT !.backends = lists[n]]]
<1>3. DOMAIN t = DOMAIN s /\ t = [n \in DOMAIN s |-> t[n]]
  OBVIOUS
<1>4. \A n \in DOMAIN s : t[n] = s[n] \/ \E refs : t[n] = [s[n] EXCEPT !.backends = refs]
  OBVIOUS
<1>5. \A s0 : SameNames(s, s0) => SameNames(t, s0)
  <2> HIDE DEF t
  <2> QED
    BY <1>3, <1>4, BackendsChanged
<1>6. key \in DOMAIN resources /\ key.kind # "Gateway"
  <2>1. pass \in DOMAIN Passes /\ key \in DOMAIN ir /\ key.kind = Passes[pass][2]
    BY DEF LoopInv, Filling
  <2>2. \A n \in DOMAIN Passes : Passes[n][1] = "duplicates" => Passes[n][2] = "HTTPRoute"
    BY DEF Passes
  <2> QED
    BY <1>2, <2>1, <2>2 DEF At, ResourcesInv
<1>7. "features" \in DOMAIN resources[key]
  BY <1>6, SizeOfSections DEF ResourcesInv, Faithful, Kept, IsResource
<1> HIDE DEF t
<1> QED
  BY <1>2, <1>5, <1>6, <1>7, RulesChanged DEF t

\* Until the output is sorted, a step that is not a visit keeps the features of
\* every resource and the names of its sections.
LEMMA ResourcesStep ==
  ASSUME LoopInv, ResourcesInv, Filling, [Next]_vars
  PROVE  VisitResource \/ \A k \in DOMAIN resources : Refilled(k, resources[k], resources'[k])
PROOF
<1>1. CASE UNCHANGED resources
  BY <1>1 DEF Refilled
<1>2. CASE RemoveBackendRefsDuplicates
  BY <1>2, DuplicatesRefill
<1>3. CASE EmitRegex
  BY <1>3, RegexRefills
<1>4. CASE EmitRewrite
  BY <1>4, RewriteRefills
<1>5. CASE EmitRedirect
  BY <1>5, RedirectRefills
<1>6. CASE EmitBackendTLS
  BY <1>6, BackendTLSRefills
<1>7. ~SortResource
  <2>1. pass \in DOMAIN Passes /\ Passes[pass][1] # "sort"
    BY PassesDistinct DEF Filling, Sorting
  <2> QED
    BY <2>1 DEF SortResource, At
<1>8. CASE NextPass \/ AlreadyParsed \/ EmitPolicy \/ EmitMTLS \/ CheckConvertExtensionFeatures
           \/ EmissionEnded \/ UNCHANGED vars
  <2>1. UNCHANGED resources
    BY <1>8 DEF NextPass, AlreadyParsed, EmitPolicy, EmitMTLS, CheckConvertExtensionFeatures,
                EmissionEnded, vars
  <2> QED
    BY <1>1, <2>1
<1> QED
  BY <1>2, <1>3, <1>4, <1>5, <1>6, <1>7, <1>8 DEF Next

LEMMA ResourcesStay ==
  ASSUME [Next]_vars
  PROVE  DOMAIN resources' = DOMAIN resources
PROOF
<1>1. CASE NextPass \/ AlreadyParsed \/ EmitPolicy \/ EmitMTLS \/ CheckConvertExtensionFeatures
           \/ EmissionEnded \/ UNCHANGED vars
  BY <1>1 DEF NextPass, AlreadyParsed, EmitPolicy, EmitMTLS, CheckConvertExtensionFeatures,
              EmissionEnded, vars
<1>2. CASE VisitResource
  BY <1>2 DEF VisitResource
<1>3. CASE RemoveBackendRefsDuplicates
  BY <1>3 DEF RemoveBackendRefsDuplicates
<1>4. CASE EmitRegex
  BY <1>4 DEF EmitRegex
<1>5. CASE EmitRewrite
  BY <1>5 DEF EmitRewrite
<1>6. CASE EmitRedirect
  BY <1>6 DEF EmitRedirect
<1>7. CASE EmitBackendTLS
  BY <1>7 DEF EmitBackendTLS
<1>8. CASE SortResource
  BY <1>8 DEF SortResource
<1> QED
  BY <1>1, <1>2, <1>3, <1>4, <1>5, <1>6, <1>7, <1>8 DEF Next

(***************************************************************************)
(* The steps of the invariant                                              *)
(***************************************************************************)
\* The resource a pass visits: its features may be merged, no other changes.
Visits(key) ==
  /\ key \in pending /\ key \in DOMAIN ir /\ key.kind = Passes[pass][2] /\ Feature \in Features
  /\ pass \in DOMAIN Passes /\ pass' = pass /\ ir' = ir
  /\ pending' = pending \ {key} /\ current' = key
  /\ resources' = [resources EXCEPT ![key].features = resources'[key].features]
  /\ \/ resources'[key].features = resources[key].features
     \/ resources'[key].features \in
          MergeExtensionFeature(resources[key].features, Feature, Size(resources[key]))
  /\ todo' = IndicesOf(resources'[key].features, Feature)

LEMMA VisitOfResource ==
  ASSUME LoopInv, ResourcesInv, VisitResource
  PROVE  Filling /\ \E key : Visits(key)
PROOF
<1>1. PICK key \in pending :
        \E features \in IF Feature \in MergedFeatures
                        THEN MergeExtensionFeature(resources[key].features, Feature, Size(resources[key]))
                        ELSE {resources[key].features} :
          /\ resources' = [resources EXCEPT ![key].features = features]
          /\ pending' = pending \ {key} /\ current' = key
          /\ todo' = IndicesOf(features, Feature)
  BY DEF VisitResource
<1>2. PICK features :
        /\ \/ features = resources[key].features
           \/ features \in MergeExtensionFeature(resources[key].features, Feature, Size(resources[key]))
        /\ resources' = [resources EXCEPT ![key].features = features]
        /\ pending' = pending \ {key} /\ current' = key
        /\ todo' = IndicesOf(features, Feature)
  BY <1>1
<1>3. At(Features) /\ pass' = pass /\ ir' = ir
  BY DEF VisitResource
<1>4. Filling
  BY <1>3, FillingAt
<1>5. /\ key \in DOMAIN ir /\ key.kind = Passes[pass][2]
      /\ pass \in DOMAIN Passes /\ Feature \in Features
  BY <1>3 DEF LoopInv, At, Feature
<1>6. "features" \in DOMAIN resources[key] /\ key \in DOMAIN resources
  BY <1>4, <1>5, SizeOfSections DEF ResourcesInv, Faithful, Kept, IsResource
<1>7. resources'[key].features = features
  BY <1>2, <1>6
<1> QED
  BY <1>1, <1>2, <1>3, <1>4, <1>5, <1>7 DEF Visits

LEMMA LoopStep ==
  ASSUME LoopInv, ResourcesInv, [Next]_vars
  PROVE  LoopInv'
PROOF
<1>1. ir' = ir /\ (Continues \/ pass' = Panicked \/ NextPass \/ VisitResource)
  BY StepOfLoops
<1>2. CASE NextPass
  <2>1. /\ pass \in DOMAIN Passes /\ pass' = pass + 1 /\ todo' = {}
        /\ pending' = KeysOf(resources, pass + 1)
    BY <1>2 DEF NextPass
  <2>2. pass' \in Panicked..Ended
    BY <2>1, PassesDistinct
  <2>3. /\ pending' \subseteq DOMAIN ir
        /\ pass' \in DOMAIN Passes => \A key \in pending' : key.kind = Passes[pass'][2]
    BY <2>1 DEF KeysOf, ResourcesInv
  <2> QED
    BY <1>1, <2>1, <2>2, <2>3 DEF LoopInv
<1>3. CASE VisitResource
  <2>1. PICK key : Visits(key)
    BY <1>3, VisitOfResource
  <2>2. resources'[key].features = resources[key]'.features
    OBVIOUS
  <2> QED
    BY <2>1, <2>2 DEF LoopInv, Visits, Filling, Feature
<1>4. CASE Continues /\ pass' # Panicked /\ ~VisitResource
  <2>1. Filling' /\ todo' # {} => todo' \subseteq IndicesOf(resources'[current].features, Feature)
    <3> SUFFICES ASSUME Filling', todo' # {}
                 PROVE  todo' \subseteq IndicesOf(resources'[current].features, Feature)
      OBVIOUS
    <3>1. Filling
      BY FillingBefore
    <3>2. current \in DOMAIN ir /\ todo \subseteq IndicesOf(resources[current].features, Feature)
      BY <1>4, <3>1 DEF LoopInv, Continues
    <3>3. resources'[current].features = resources[current].features
      BY <1>4, <3>1, <3>2, ResourcesStep DEF Refilled, ResourcesInv
    <3> QED
      BY <1>4, <3>2, <3>3 DEF Continues
  <2>2. Filling' /\ todo' # {} => current \in DOMAIN ir \ pending' /\ current.kind = Passes[pass][2]
    <3> SUFFICES ASSUME Filling', todo' # {}
                 PROVE  current \in DOMAIN ir \ pending' /\ current.kind = Passes[pass][2]
      OBVIOUS
    <3> QED
      BY <1>4, FillingBefore DEF LoopInv, Continues
  <2> QED
    BY <1>1, <1>4, <2>1, <2>2 DEF LoopInv, Continues, Feature
<1>5. CASE pass' = Panicked
  <2>1. ~Filling' /\ pass' \notin DOMAIN Passes /\ pass' \in Panicked..Ended
    BY <1>5, PassesDistinct DEF Filling
  <2>2. pending' \subseteq pending
    <3>1. \/ CheckConvertExtensionFeatures \/ EmitRegex \/ EmitRewrite \/ EmitRedirect \/ EmitPolicy
          \/ EmitMTLS \/ EmitBackendTLS \/ EmissionEnded \/ pending' \subseteq pending
      <4>1. CASE UNCHANGED vars \/ AlreadyParsed \/ RemoveBackendRefsDuplicates \/ SortResource
        BY <4>1 DEF vars, loop, AlreadyParsed, RemoveBackendRefsDuplicates, SortResource
      <4>2. ~NextPass
        BY <1>5, PassesDistinct DEF NextPass
      <4>3. CASE VisitResource
        BY <4>3 DEF VisitResource
      <4> QED
        BY <4>1, <4>2, <4>3 DEF Next
    <3> QED
      BY <3>1 DEF CheckConvertExtensionFeatures, EmitRegex, EmitRewrite, EmitRedirect, EmitPolicy,
                  EmitMTLS, EmitBackendTLS, EmissionEnded, vars, loop, Panic, Succeed, Skip, Finish
  <2> QED
    BY <1>1, <2>1, <2>2 DEF LoopInv
<1> QED
  BY <1>1, <1>2, <1>3, <1>4, <1>5

\* The premises speak of the IR that was loaded.
LEMMA IndicesStay ==
  ASSUME ir' = ir, NEW key
  PROVE  Indices(key)' = Indices(key)
  BY DEF Indices

LEMMA KeptByRefilling ==
  ASSUME ResourcesInv, Filling, ir' = ir, NEW key \in DOMAIN ir, Visited(key) \subseteq Visited(key)',
         Refilled(key, resources[key], resources'[key])
  PROVE  Faithful(key, resources[key])'
PROOF
<1> DEFINE r == resources'[key]
<1>1. Faithful(key, resources[key]) /\ IsResource(key, ir[key])
  BY SizeOfSections DEF ResourcesInv
<1>2. Kept(key, r, ir[key]) /\ r.features = resources[key].features
  BY <1>1 DEF Refilled, Faithful
<1>3. IndexedBy(r.features, Indices(key))
  BY <1>1, <1>2 DEF Faithful
<1>4. InRange(key) => AskTheSame(r.features, ir[key].features, Size(ir[key]), Visited(key)')
  BY <1>1, <1>2, AsksTheSameIfMoreVisited DEF Faithful
<1> QED
  BY <1>2, <1>3, <1>4, IndicesStay DEF Faithful, InRange, Sections

\* A feature is merged when a resource is visited for it, which is once.
LEMMA KeptByMerging ==
  ASSUME LoopInv, ResourcesInv, Filling, NEW key, Visits(key)
  PROVE  Faithful(key, resources[key])'
PROOF
<1> DEFINE r  == resources[key]
           q  == resources'[key]
           fs == q.features
<1>1. Faithful(key, r) /\ IsResource(key, ir[key]) /\ Size(ir[key]) \in Nat
  BY SizeOfSections DEF ResourcesInv, Visits
<1>2. Kept(key, q, ir[key])
  <2>1. q = [r EXCEPT !.features = fs]
    <3>1. key \in DOMAIN resources
      BY DEF Visits, ResourcesInv
    <3> QED
      BY <3>1 DEF Visits
  <2>2. DOMAIN q = DOMAIN r /\ SectionsOf(key, q) = SectionsOf(key, r)
    <3> HIDE DEF fs
    <3> QED
      BY <2>1 DEF SectionsOf
  <2> QED
    BY <1>1, <2>2 DEF Faithful, Kept
<1>3. Size(r) = Size(ir[key])
  BY <1>1, KeptSize DEF Faithful
<1>4. fs = r.features \/ fs \in MergeExtensionFeature(r.features, Feature, Size(ir[key]))
  BY <1>3 DEF Visits
<1>5. IndexedBy(fs, Indices(key))
  <2>1. RouteRuleAllIndex \in Indices(key)
    BY DEF Indices
  <2> QED
    BY <1>1, <1>4, <2>1, MergedIndices DEF Faithful
<1>6. Feature \in Features \ Visited(key)
  <2>1. ASSUME NEW m \in DOMAIN Passes, Passes[m] = <<Feature, key.kind>>
        PROVE  m = pass
    BY <2>1, PassesDistinct, PassesKinds DEF Visits, Feature
  <2> QED
    BY <2>1, PassesDistinct DEF Visits, Visited
<1>7. Visited(key) \union {Feature} \subseteq Visited(key)'
  <2>1. Visited(key) \subseteq Visited(key)'
    BY DEF Visited, Visits
  <2>2. Feature \in Visited(key)'
    BY PassesKinds DEF Visited, Visits, Feature
  <2> QED
    BY <2>1, <2>2
<1>8. InRange(key) => AskTheSame(fs, ir[key].features, Size(ir[key]), Visited(key)')
  <2> SUFFICES ASSUME InRange(key)
               PROVE  AskTheSame(fs, ir[key].features, Size(ir[key]), Visited(key)')
    OBVIOUS
  <2>1. AskTheSame(r.features, ir[key].features, Size(ir[key]), Visited(key))
    BY <1>1 DEF Faithful
  <2>2. AskTheSame(fs, ir[key].features, Size(ir[key]), Visited(key) \union {Feature})
    <3>1. CASE fs = r.features
      BY <2>1, <3>1, AsksTheSameIfMoreVisited
    <3>2. CASE fs \in MergeExtensionFeature(r.features, Feature, Size(ir[key]))
      BY <1>1, <1>6, <2>1, <3>2, MergingAsksTheSame
    <3> QED
      BY <1>4, <3>1, <3>2
  <2> QED
    BY <1>7, <2>2, AsksTheSameIfMoreVisited
<1>9. ir' = ir /\ Indices(key)' = Indices(key)
  BY IndicesStay DEF Visits
<1> HIDE DEF fs
<1> QED
  BY <1>2, <1>5, <1>8, <1>9 DEF Faithful, InRange, Sections, fs

LEMMA ResourcesInvStep ==
  ASSUME LoopInv, ResourcesInv, [Next]_vars
  PROVE  ResourcesInv'
PROOF
<1>1. ir' = ir /\ DOMAIN resources' = DOMAIN ir
  BY StepOfLoops, ResourcesStay DEF ResourcesInv
<1>2. ASSUME Filling', NEW key \in DOMAIN ir
      PROVE  Faithful(key, resources[key])'
  <2>1. Filling /\ pass' # Panicked
    BY <1>2, FillingBefore, PassesDistinct DEF Filling
  <2>2. Visited(key) \subseteq Visited(key)'
    BY <2>1, VisitedStays
  <2>3. CASE Refilled(key, resources[key], resources'[key])
    BY <1>1, <2>1, <2>2, <2>3, KeptByRefilling
  <2>4. CASE VisitResource /\ ~Refilled(key, resources[key], resources'[key])
    <3>1. PICK visited : Visits(visited)
      BY <2>4, VisitOfResource
    <3>2. visited = key
      <4>1. CASE visited # key
        <5>1. resources'[key] = resources[key]
          BY <1>2, <3>1, <4>1 DEF Visits, ResourcesInv
        <5> QED
          BY <2>4, <5>1 DEF Refilled
      <4> QED
        BY <4>1
    <3> QED
      BY <2>1, <3>1, <3>2, KeptByMerging
  <2> QED
    BY <2>1, <2>3, <2>4, ResourcesStep, <1>2 DEF ResourcesInv
<1> QED
  BY <1>1, <1>2 DEF ResourcesInv, Faithful

LEMMA AtTheStart ==
  ASSUME Init
  PROVE  LoopInv /\ ResourcesInv
PROOF
<1>1. /\ ir \in EmitterIRs /\ pass = 1 /\ pending = KeysOf(ir, 1) /\ current = Nothing /\ todo = {}
      /\ resources = [key \in DOMAIN ir |-> Loaded(key, ir[key])]
  BY DEF Init
<1>2. LoopInv
  BY <1>1, PassesDistinct DEF LoopInv, KeysOf
<1>3. ASSUME NEW key \in DOMAIN ir
      PROVE  Faithful(key, resources[key])
  <2> DEFINE r0 == ir[key]
             r  == resources[key]
  <2>1. IsResource(key, r0)
    BY <1>1, EmitterIRsAssumption
  <2>2. r = Loaded(key, r0)
    BY <1>1
  <2>3. DOMAIN r = DOMAIN r0 /\ r.features = r0.features /\ SameNames(SectionsOf(key, r), SectionsOf(key, r0))
    <3>1. CASE key.kind = "Gateway"
      <4>1. r = [r0 EXCEPT !.class = <<"eg">>] /\ "listeners" \in DOMAIN r0 /\ "features" \in DOMAIN r0
        BY <2>1, <2>2, <3>1 DEF IsResource, Loaded
      <4>2. DOMAIN r = DOMAIN r0 /\ r.features = r0.features /\ r.listeners = r0.listeners
        BY <4>1
      <4>3. IsSections(r0.listeners)
        BY <2>1, <3>1 DEF IsResource
      <4> QED
        BY <3>1, <4>2, <4>3 DEF SectionsOf, SameNames, IsSections, IsList
    <3>2. CASE key.kind # "Gateway"
      <4>1. r = [r0 EXCEPT !.rules = WithFrom(@)] /\ "rules" \in DOMAIN r0 /\ "features" \in DOMAIN r0
        BY <2>1, <2>2, <3>2 DEF IsResource, Loaded
      <4>2. DOMAIN r = DOMAIN r0 /\ r.features = r0.features /\ r.rules = WithFrom(r0.rules)
        BY <4>1
      <4>3. \A n \in DOMAIN r0.rules : "name" \in DOMAIN r0.rules[n]
        BY <2>1, <3>2 DEF IsResource, IsSections, IsList
      <4>4. SameNames(WithFrom(r0.rules), r0.rules)
        BY <4>3 DEF SameNames, WithFrom, Put
      <4> QED
        BY <3>2, <4>2, <4>4 DEF SectionsOf
    <3> QED
      BY <3>1, <3>2
  <2>4. IndexedBy(r0.features, Indices(key))
    <3>1. \A at \in DOMAIN r0.features : at = <<at[1], at[2]>>
      BY <2>1 DEF IsResource
    <3> QED
      BY <3>1 DEF IndexedBy, Indices
  <2>5. ASSUME InRange(key)
        PROVE  AskTheSame(r0.features, r0.features, Size(r0), Visited(key))
    <3>1. Size(r0) \in Nat /\ DOMAIN Sections(key) = 1..Size(r0)
      BY <2>1 DEF Size, Sections, IsResource, IsSections, IsList
    <3>2. \A at \in DOMAIN r0.features : at = <<at[1], at[2]>> /\ at[2] \in 1..Size(r0)
      BY <2>4, <2>5, <3>1 DEF IndexedBy, InRange
    <3>3. IndexedBy(r0.features, {RouteRuleAllIndex} \union 1..Size(r0))
      BY <3>2 DEF IndexedBy
    <3>4. \A f : <<f, RouteRuleAllIndex>> \notin DOMAIN r0.features
      BY <3>2 DEF RouteRuleAllIndex
    <3> QED
      BY <3>2, <3>3, <3>4 DEF AskTheSame
  <2> QED
    BY <2>3, <2>4, <2>5 DEF Faithful, Kept
<1>4. DOMAIN resources = DOMAIN ir
  BY <1>1
<1> QED
  BY <1>1, <1>2, <1>3, <1>4 DEF ResourcesInv

(***************************************************************************)
(* Policies                                                                *)
(***************************************************************************)
\* A step that sets the feature of the pass in the policy of an index.
Sets(idx) ==
  LET fields == IR(idx).fields
      key    == PolicyKey(Feature, idx)
      policy == GetOrBuild(key, idx)
      old    == SettingOf(policy, Feature)
  IN  /\ pass \in DOMAIN Passes /\ Feature \in PolicyFeatures /\ idx \in todo
      /\ pass' = pass /\ pending' = pending /\ current' = current /\ todo' = todo \ {idx}
      /\ policies' = Put(policies, key, WithSetting(policy, Feature,
           IF Fails(Feature, fields, current.ns) THEN old ELSE Setting(Feature, fields, current.ns, old)))

LEMMA PolicyStep ==
  ASSUME [Next]_vars
  PROVE  UNCHANGED policies \/ \E idx : Sets(idx)
PROOF
<1>1. CASE EmitPolicy
  <2>1. PICK idx \in todo : EmitPolicy!(idx)
    BY <1>1 DEF EmitPolicy
  <2> QED
    BY <2>1 DEF Sets, Emits, At, Feature, PolicyFeatures, Succeed, Skip, Finish
<1>2. CASE EmitMTLS
  <2>1. PICK idx \in todo : EmitMTLS!(idx)
    BY <1>2 DEF EmitMTLS
  <2>2. Feature = "mTLS" /\ Feature \in PolicyFeatures /\ pass \in DOMAIN Passes
    BY <2>1 DEF Emits, At, Feature, PolicyFeatures
  <2>3. \A fields : ~Fails("mTLS", fields, current.ns)
    BY DEF Fails
  <2>4. CASE UNCHANGED policies
    BY <2>4
  <2>5. CASE policies' # policies
    BY <2>1, <2>2, <2>3, <2>5 DEF Sets, Succeed, Finish
  <2> QED
    BY <2>4, <2>5
<1>3. CASE ~EmitPolicy /\ ~EmitMTLS
  BY <1>3 DEF Next, NextPass, VisitResource, AlreadyParsed, RemoveBackendRefsDuplicates, EmitRegex,
     EmitRewrite, EmitRedirect, EmitBackendTLS, SortResource, CheckConvertExtensionFeatures,
     EmissionEnded, outputs, vars
<1> QED
  BY <1>1, <1>2, <1>3

LEMMA SettledStays ==
  ASSUME LoopInv, [Next]_vars, NEW key, NEW idx, NEW spec, Settled(spec, key, idx)
  PROVE  Settled(spec, key, idx)'
PROOF
<1>1. ir' = ir
  BY StepOfLoops
<1>2. ASSUME NEW f \in DOMAIN spec
      PROVE  /\ f \in PolicyFeatures /\ Answers(spec[f], f, key, idx)'
             /\ pass' # Panicked => Done(f, key, idx)'
  <2>1. /\ f \in PolicyFeatures /\ Answers(spec[f], f, key, idx)
        /\ pass # Panicked => Done(f, key, idx)
    BY DEF Settled
  <2>2. Answers(spec[f], f, key, idx)'
    BY <1>1, <2>1 DEF Answers, InRange, Sections
  <2>3. pass' # Panicked => pass # Panicked
    <3>1. CASE pass = Panicked
      <4>1. ~NextPass /\ ~VisitResource
        BY <3>1, PassesDistinct DEF NextPass, VisitResource, At
      <4> QED
        BY <3>1, <4>1, StepOfLoops DEF Continues
    <3> QED
      BY <3>1
  <2> QED
    BY <2>1, <2>2, <2>3, DoneStays
<1> QED
  BY <1>2 DEF Settled

\* Client certificates are for Gateways, in a policy of their own kind.
LEMMA PolicyKinds ==
  ASSUME NEW f \in PolicyFeatures
  PROVE  KindOfPolicy(f) = "ClientTrafficPolicy" <=> f = "mTLS"
  BY DEF PolicyFeatures, OfRoutePolicies, KindOfPolicy

\* The policy a step writes to is new, or it belongs to the resource and the
\* index the step is for; the feature of the pass is not in it.
LEMMA PolicyOfIndex ==
  ASSUME LoopInv, ResourcesInv, PolicyNamesApart, PoliciesInv, Filling, Feature \in PolicyFeatures,
         NEW idx \in todo
  PROVE  LET key    == PolicyKey(Feature, idx)
             policy == GetOrBuild(key, idx)
         IN  /\ IsPolicy(key, policy, current, idx) /\ Settled(policy.spec, current, idx)
             /\ Feature \notin DOMAIN policy.spec
PROOF
<1> DEFINE p      == PolicyKey(Feature, idx)
           policy == GetOrBuild(p, idx)
<1>1. /\ current \in DOMAIN ir /\ current \notin pending /\ current.kind = Passes[pass][2]
      /\ Kept(current, resources[current], ir[current]) /\ idx \in Indices(current)
  BY AtResource
<1>2. pass \in DOMAIN Passes /\ Passes[pass] = <<Feature, current.kind>>
  BY <1>1, PassesKinds DEF Filling, Feature
<1>3. /\ current.kind \in {"HTTPRoute", "Gateway"}
      /\ p[1] = "ClientTrafficPolicy" <=> current.kind = "Gateway"
  <2>1. p[1] = KindOfPolicy(Feature)
    BY DEF PolicyKey
  <2>2. Feature \in OfRoutePolicies \/ Feature = "mTLS"
    BY DEF PolicyFeatures
  <2>3. "mTLS" \notin OfRoutePolicies
    BY DEF OfRoutePolicies
  <2> HIDE DEF p
  <2> QED
    BY <1>1, <1>2, <2>1, <2>2, <2>3, PolicyKinds, PassesKinds DEF Feature
<1>4. p = <<p[1], current.ns, PolicyName(current.name, idx)>>
  BY DEF PolicyKey
<1>5. CASE p \in DOMAIN policies
  <2>1. PICK key \in DOMAIN ir : \E n \in Indices(key) :
          IsPolicy(p, policies[p], key, n) /\ Settled(policies[p].spec, key, n)
    BY <1>5 DEF PoliciesInv
  <2>2. PICK n \in Indices(key) : IsPolicy(p, policies[p], key, n) /\ Settled(policies[p].spec, key, n)
    BY <2>1
  <2>3. /\ key.kind = current.kind /\ key.ns = current.ns
        /\ PolicyName(key.name, n) = PolicyName(current.name, idx)
    <3> HIDE DEF p
    <3>1. p = <<p[1], key.ns, PolicyName(key.name, n)>>
      BY <2>2 DEF IsPolicy
    <3>2. key.kind = current.kind
      BY <1>3, <2>2 DEF IsPolicy
    <3> QED
      BY <1>4, <3>1, <3>2
  <2>4. key = current /\ n = idx
    <3>1. key.kind # "GRPCRoute"
      BY <1>3, <2>3
    <3> HIDE DEF p
    <3> QED
      BY <1>1, <2>3, <3>1 DEF PolicyNamesApart
  <2>5. policy = policies[p]
    BY <1>5 DEF GetOrBuild
  <2>6. Feature \notin DOMAIN policy.spec
    <3>1. SUFFICES ASSUME Done(Feature, current, idx)
                   PROVE  FALSE
      <4>1. pass # Panicked
        BY <1>2, PassesDistinct
      <4> QED
        BY <2>2, <2>4, <2>5, <3>1, <4>1 DEF Settled
    <3>2. PICK m \in DOMAIN Passes :
            /\ Passes[m] = <<Feature, current.kind>>
            /\ m < pass \/ (m = pass /\ idx \notin todo)
      BY <3>1 DEF Done
    <3>3. m = pass
      BY <1>2, <3>2, PassesDistinct
    <3> QED
      BY <3>2, <3>3, PassesDistinct
  <2> HIDE DEF p, policy
  <2>7. IsPolicy(p, policy, current, idx) /\ Settled(policy.spec, current, idx)
    BY <2>2, <2>4, <2>5
  <2> QED
    BY <2>6, <2>7 DEF p, policy
<1>6. CASE p \notin DOMAIN policies
  <2>1. policy = [target |-> current, section |-> Section(idx), spec |-> EmptyMap]
    BY <1>6 DEF GetOrBuild
  <2>2. Section(idx) = NameAt(current, idx)
    <3> DEFINE s  == SectionsOf(current, resources[current])
               s0 == SectionsOf(current, ir[current])
    <3>1. Sections(current) = s0 /\ SameNames(s, s0)
      BY <1>1, SizeOfSections DEF Kept
    <3>2. DOMAIN s = DOMAIN s0 /\ (idx \in DOMAIN s0 => s[idx].name = s0[idx].name)
      BY <3>1 DEF SameNames
    <3>3. Section(idx) = IF idx \in DOMAIN s THEN s[idx].name ELSE <<>>
      BY DEF Section, SectionsOf, Resource
    <3> HIDE DEF s, s0
    <3> QED
      BY <3>1, <3>2, <3>3 DEF NameAt
  <2>3. DOMAIN policy.spec = {}
    BY <2>1 DEF EmptyMap
  <2>4. DOMAIN policy = {"target", "section", "spec"}
        /\ policy.target = current /\ policy.section = NameAt(current, idx)
    BY <2>1, <2>2
  <2> HIDE DEF p, policy
  <2>5. IsPolicy(p, policy, current, idx)
    BY <1>3, <1>4, <2>4 DEF IsPolicy
  <2>6. Settled(policy.spec, current, idx)
    BY <2>3 DEF Settled
  <2> QED
    BY <2>3, <2>5, <2>6 DEF p, policy
<1> QED
  BY <1>5, <1>6

\* What the pass sets is what the rules ask for.
LEMMA PolicyAnswers ==
  ASSUME ResourcesInv, LoopInv, Filling, Feature \in PolicyFeatures, NEW idx \in todo
  PROVE  Answers(Outcome(Feature, IR(idx).fields, current.ns), Feature, current, idx)
PROOF
<1> DEFINE fs   == resources[current].features
           fs0  == ir[current].features
           size == Size(ir[current])
<1>1. current \in DOMAIN ir /\ <<Feature, idx>> \in DOMAIN fs
  BY AtResource
<1>2. Faithful(current, resources[current]) /\ DOMAIN Sections(current) = 1..size /\ Feature \in Features
  BY <1>1, SizeOfSections, FeatureNames DEF ResourcesInv
<1>3. ASSUME InRange(current), NEW n \in DOMAIN Sections(current), idx \in {RouteRuleAllIndex, n}
      PROVE  <<Feature, n>> \in DOMAIN fs0 /\ fs[<<Feature, idx>>].fields = fs0[<<Feature, n>>].fields
  <2>1. AskTheSame(fs, fs0, size, Visited(current))
    BY <1>2, <1>3 DEF Faithful
  <2>2. /\ n \in 1..size /\ idx \in {RouteRuleAllIndex, n}
        /\ Feature \in Features /\ <<Feature, idx>> \in DOMAIN fs
    BY <1>1, <1>2, <1>3
  <2> HIDE DEF fs, fs0, size
  <2>3. AsLoaded(fs, fs0, Feature, n)
    BY <2>1, <2>2, AskedAtLoading
  <2> QED
    BY <2>2, <2>3 DEF AsLoaded
<1>4. IR(idx) = fs[<<Feature, idx>>]
  BY DEF IR, Resource
<1> QED
  BY <1>3, <1>4 DEF Answers

LEMMA PoliciesStep ==
  ASSUME LoopInv, ResourcesInv, PolicyNamesApart, PoliciesInv, [Next]_vars
  PROVE  PoliciesInv'
PROOF
<1>1. ir' = ir /\ \A key : Indices(key)' = Indices(key)
  BY StepOfLoops, IndicesStay
<1>2. ASSUME NEW p \in DOMAIN policies, p \in DOMAIN policies', policies'[p] = policies[p]
      PROVE  \E key \in DOMAIN ir' : \E idx \in Indices(key)' :
               IsPolicy(p, policies[p], key, idx)' /\ Settled(policies[p].spec, key, idx)'
  <2>1. PICK key \in DOMAIN ir : \E idx \in Indices(key) :
          IsPolicy(p, policies[p], key, idx) /\ Settled(policies[p].spec, key, idx)
    BY DEF PoliciesInv
  <2>2. PICK idx \in Indices(key) :
          IsPolicy(p, policies[p], key, idx) /\ Settled(policies[p].spec, key, idx)
    BY <2>1
  <2>3. IsPolicy(p, policies[p], key, idx)'
    BY <1>1, <1>2, <2>2 DEF IsPolicy, NameAt, Sections
  <2>4. Settled(policies[p].spec, key, idx)'
    <3>1. \A spec : Settled(spec, key, idx) => Settled(spec, key, idx)'
      BY SettledStays
    <3> QED
      BY <1>2, <2>2, <3>1
  <2> QED
    BY <1>1, <2>3, <2>4
<1>3. CASE UNCHANGED policies
  BY <1>2, <1>3 DEF PoliciesInv
<1>4. CASE \E idx : Sets(idx)
  <2>1. PICK idx : Sets(idx)
    BY <1>4
  <2> DEFINE p       == PolicyKey(Feature, idx)
             policy  == GetOrBuild(p, idx)
             setting == Outcome(Feature, IR(idx).fields, current.ns)
             spec    == Put(policy.spec, Feature, setting)
  <2>2. /\ idx \in todo /\ Feature \in PolicyFeatures /\ pass \in DOMAIN Passes /\ Filling
        /\ pass' = pass /\ pending' = pending /\ current' = current /\ todo' = todo \ {idx}
    <3>1. /\ idx \in todo /\ Feature \in PolicyFeatures /\ pass \in DOMAIN Passes
          /\ pass' = pass /\ pending' = pending /\ current' = current /\ todo' = todo \ {idx}
      BY <2>1 DEF Sets
    <3>2. At(Features)
      BY <3>1, FeatureNames DEF At, Feature
    <3> QED
      BY <3>1, <3>2, FillingAt
  <2>3. /\ IsPolicy(p, policy, current, idx) /\ Settled(policy.spec, current, idx)
        /\ Feature \notin DOMAIN policy.spec
    BY <2>2, PolicyOfIndex
  <2>4. SettingOf(policy, Feature) = EmptyMap
    BY <2>3 DEF SettingOf
  <2>5. policies' = Put(policies, p, [policy EXCEPT !.spec = spec])
    BY <2>1, <2>4 DEF Sets, WithSetting, Outcome
  <2>6. Answers(setting, Feature, current, idx)
    BY <2>2, PolicyAnswers
  <2>7. /\ current \in DOMAIN ir /\ current \notin pending /\ current.kind = Passes[pass][2]
        /\ idx \in Indices(current)
    BY <2>2, AtResource
  <2>8. PICK key, name, f, spec0, asked :
          key = current /\ name = p /\ f = Feature /\ spec0 = policy.spec /\ asked = setting
    OBVIOUS
  <2>9. /\ policies' = Put(policies, name, [policy EXCEPT !.spec = Put(spec0, f, asked)])
        /\ IsPolicy(name, policy, key, idx) /\ Settled(spec0, key, idx) /\ Answers(asked, f, key, idx)
        /\ f \in PolicyFeatures /\ pass \in DOMAIN Passes /\ Passes[pass] = <<f, key.kind>>
        /\ key = current' /\ key \notin pending' /\ idx \notin todo' /\ pass' = pass
    <3>1. Passes[pass] = <<f, key.kind>>
      BY <2>2, <2>7, <2>8, PassesKinds DEF Feature
    <3> HIDE DEF p, policy, setting
    <3> QED
      BY <2>2, <2>3, <2>5, <2>6, <2>7, <2>8, <3>1 DEF spec
  <2> HIDE DEF p, policy, setting, spec
  <2>10. /\ policies'[name].spec = Put(spec0, f, asked)
         /\ DOMAIN policies'[name] = DOMAIN policy
         /\ policies'[name].target = policy.target /\ policies'[name].section = policy.section
         /\ DOMAIN policies' = DOMAIN policies \union {name}
         /\ \A other \in DOMAIN policies : other # name => policies'[other] = policies[other]
    BY <2>9 DEF Put, IsPolicy
  <2>11. IsPolicy(name, policies'[name], key, idx)
    BY <2>9, <2>10 DEF IsPolicy
  <2>12. Settled(spec0, key, idx)'
    BY <2>9, SettledStays
  <2>13. Answers(asked, f, key, idx)' /\ Done(f, key, idx)'
    <3>1. Answers(asked, f, key, idx)'
      BY <1>1, <2>9 DEF Answers, InRange, Sections
    <3>2. Done(f, key, idx)'
      BY <2>9 DEF Done
    <3> QED
      BY <3>1, <3>2
  <2>14. ASSUME NEW g \in DOMAIN policies'[name].spec
         PROVE  /\ g \in PolicyFeatures /\ Answers(policies[name].spec[g], g, key, idx)'
                /\ pass' # Panicked => Done(g, key, idx)'
    <3>1. CASE g = f
      <4>1. policies'[name].spec[g] = asked
        BY <2>10, <3>1 DEF Put
      <4> QED
        BY <2>9, <2>13, <3>1, <4>1
    <3>2. CASE g # f
      <4>1. g \in DOMAIN spec0 /\ policies'[name].spec[g] = spec0[g]
        BY <2>10, <2>14, <3>2 DEF Put
      <4>2. /\ g \in PolicyFeatures /\ Answers(spec0[g], g, key, idx)'
            /\ pass' # Panicked => Done(g, key, idx)'
        BY <2>12, <4>1 DEF Settled
      <4> QED
        BY <4>1, <4>2
    <3> QED
      BY <3>1, <3>2
  <2>15. IsPolicy(name, policies[name], key, idx)' /\ Settled(policies[name].spec, key, idx)'
    <3>1. IsPolicy(name, policies[name], key, idx)'
      BY <1>1, <2>11 DEF IsPolicy, NameAt, Sections
    <3>2. Settled(policies[name].spec, key, idx)'
      BY <2>14 DEF Settled
    <3> QED
      BY <3>1, <3>2
  <2>16. key \in DOMAIN ir' /\ idx \in Indices(key)'
    BY <1>1, <2>7, <2>8
  <2> QED
    BY <1>2, <2>10, <2>15, <2>16 DEF PoliciesInv
<1> QED
  BY <1>3, <1>4, PolicyStep

LEMMA Invariance ==
  ASSUME EmitterInv, [Next]_vars
  PROVE  EmitterInv'
PROOF
<1>1. LoopInv' /\ ResourcesInv'
  BY LoopStep, ResourcesInvStep DEF EmitterInv
<1>2. PolicyNamesApart' => PolicyNamesApart
  <2>1. ir' = ir
    BY StepOfLoops
  <2> QED
    BY <2>1, IndicesStay DEF PolicyNamesApart
<1> QED
  BY <1>1, <1>2, PoliciesStep DEF EmitterInv

\* A policy that covers a rule or listener is one for all of them, or the one
\* for its index.
LEMMA PoliciesOfSections ==
  ASSUME EmitterInv, PolicyNamesApart, SectionsNamed
  PROVE  PoliciesMatchFeatures
PROOF
<1>1. ASSUME NEW p \in DOMAIN policies, NEW key, key = policies[p].target, InRange(key),
             NEW n \in DOMAIN Sections(key), NEW f \in DOMAIN policies[p].spec,
             Covers(policies[p], key, n)
      PROVE  /\ <<f, n>> \in DOMAIN ir[key].features
             /\ policies[p].spec[f] = Outcome(f, ir[key].features[<<f, n>>].fields, key.ns)
  <2>1. PICK owner \in DOMAIN ir : \E idx \in Indices(owner) :
          IsPolicy(p, policies[p], owner, idx) /\ Settled(policies[p].spec, owner, idx)
    BY DEF EmitterInv, PoliciesInv
  <2>2. PICK idx \in Indices(owner) :
          IsPolicy(p, policies[p], owner, idx) /\ Settled(policies[p].spec, owner, idx)
    BY <2>1
  <2>3. /\ owner = key /\ key \in DOMAIN ir /\ Answers(policies[p].spec[f], f, key, idx)
        /\ policies[p].section = NameAt(key, idx)
    BY <1>1, <2>2 DEF IsPolicy, Settled
  <2>4. idx \in {RouteRuleAllIndex, n}
    <3>1. CASE idx # RouteRuleAllIndex
      <4>1. PICK at \in DOMAIN ir[key].features : idx = at[2]
        BY <2>2, <2>3, <3>1 DEF Indices
      <4>2. idx \in DOMAIN Sections(key)
        BY <1>1, <4>1 DEF InRange
      <4>3. /\ Sections(key)[idx].name # <<>>
            /\ \A m \in DOMAIN Sections(key) : Sections(key)[m].name = Sections(key)[idx].name => m = idx
        BY <2>3, <4>1, <4>2 DEF SectionsNamed
      <4>4. Sections(key)[n].name = Sections(key)[idx].name
        BY <1>1, <2>3, <4>2, <4>3 DEF Covers, NameAt
      <4> QED
        BY <4>3, <4>4
    <3> QED
      BY <3>1
  <2> QED
    BY <1>1, <2>3, <2>4 DEF Answers
<1> QED
  BY <1>1 DEF PoliciesMatchFeatures, Outcome

\* "This consolidates redundant rule-level features into a single route-level
\* feature": for every emitter IR whose policies get different names and whose
\* rules and listeners with features have names of their own, a policy sets for
\* a rule or listener, at any time, exactly what the features of that rule or
\* listener ask for.
THEOREM PoliciesMatch == Spec => [](PolicyNamesApart /\ SectionsNamed => PoliciesMatchFeatures)
PROOF
<1>1. Init => EmitterInv
  <2>1. ASSUME Init
        PROVE  PoliciesInv
    BY <2>1 DEF Init, PoliciesInv, EmptyMap
  <2> QED
    BY <2>1, AtTheStart DEF EmitterInv
<1>2. EmitterInv /\ [Next]_vars => EmitterInv'
  BY Invariance
<1>3. EmitterInv => (PolicyNamesApart /\ SectionsNamed => PoliciesMatchFeatures)
  BY PoliciesOfSections
<1> QED
  BY <1>1, <1>2, <1>3, PTL DEF Spec

-------------------------------------------------------------------------------

(***************************************************************************)
(* Lists                                                                   *)
(***************************************************************************)
LEMMA ListIsSeq ==
  ASSUME NEW s, IsList(s)
  PROVE  s \in Seq(ToSet(s)) /\ DOMAIN s = 1..Len(s)
PROOF
<1> DEFINE T == ToSet(s)
<1>1. Len(s) \in Nat /\ s = [n \in 1..Len(s) |-> s[n]] /\ DOMAIN s = 1..Len(s)
  BY DEF IsList
<1>2. \A n \in 1..Len(s) : s[n] \in T
  BY <1>1 DEF ToSet
<1> HIDE DEF T
<1>3. s \in [1..Len(s) -> T]
  BY <1>1, <1>2
<1>4. s \in Seq(T)
  BY <1>1, <1>3
<1> QED
  BY <1>1, <1>4 DEF T

LEMMA SeqIsList ==
  ASSUME NEW T, NEW s \in Seq(T)
  PROVE  IsList(s)
  BY DEF IsList

LEMMA Appended ==
  ASSUME NEW s, NEW e, IsList(s)
  PROVE  IsList(Append(s, e)) /\ ToSet(Append(s, e)) = ToSet(s) \union {e}
PROOF
<1> DEFINE T == ToSet(s) \union {e}
           t == Append(s, e)
<1>1. s \in Seq(T) /\ e \in T /\ DOMAIN s = 1..Len(s) /\ Len(s) \in Nat
  BY ListIsSeq DEF IsList
<1>2. t \in Seq(T)
  <2> HIDE DEF T
  <2> QED
    BY <1>1
<1>3. /\ Len(t) = Len(s) + 1 /\ DOMAIN t = 1..(Len(s) + 1)
      /\ t[Len(s) + 1] = e /\ \A n \in 1..Len(s) : t[n] = s[n]
  <2> HIDE DEF T
  <2> QED
    BY <1>1
<1>4. ToSet(t) = ToSet(s) \union {e}
  <2> HIDE DEF t, T
  <2>1. \A x \in ToSet(t) : x \in ToSet(s) \union {e}
    BY <1>1, <1>3 DEF ToSet
  <2>2. \A x \in ToSet(s) : x \in ToSet(t)
    BY <1>1, <1>3 DEF ToSet
  <2>3. e \in ToSet(t)
    BY <1>1, <1>3 DEF ToSet
  <2> QED
    BY <2>1, <2>2, <2>3
<1> HIDE DEF T
<1> QED
  BY <1>2, <1>4, SeqIsList

LEMMA Concatenated ==
  ASSUME NEW s, NEW t, IsList(s), IsList(t)
  PROVE  IsList(s \o t) /\ ToSet(s \o t) = ToSet(s) \union ToSet(t)
PROOF
<1> DEFINE T == ToSet(s) \union ToSet(t)
           u == s \o t
<1>1. /\ s \in Seq(T) /\ DOMAIN s = 1..Len(s) /\ Len(s) \in Nat
      /\ t \in Seq(T) /\ DOMAIN t = 1..Len(t) /\ Len(t) \in Nat
  BY ListIsSeq DEF IsList
<1>2. u \in Seq(T)
  <2> HIDE DEF T
  <2> QED
    BY <1>1
<1>3. /\ DOMAIN u = 1..(Len(s) + Len(t))
      /\ \A n \in 1..(Len(s) + Len(t)) : u[n] = IF n <= Len(s) THEN s[n] ELSE t[n - Len(s)]
  <2> HIDE DEF T
  <2> QED
    BY <1>1
<1>4. ToSet(u) = ToSet(s) \union ToSet(t)
  <2> HIDE DEF u, T
  <2>1. \A x \in ToSet(u) : x \in ToSet(s) \union ToSet(t)
    <3> TAKE x \in ToSet(u)
    <3>1. PICK n \in 1..(Len(s) + Len(t)) : x = u[n]
      BY <1>3 DEF ToSet
    <3>2. CASE n <= Len(s)
      BY <1>1, <1>3, <3>1, <3>2 DEF ToSet
    <3>3. CASE ~(n <= Len(s))
      <4>1. n - Len(s) \in 1..Len(t)
        BY <1>1, <3>3
      <4> QED
        BY <1>1, <1>3, <3>1, <3>3, <4>1 DEF ToSet
    <3> QED
      BY <3>2, <3>3
  <2>2. \A x \in ToSet(s) : x \in ToSet(u)
    <3> TAKE x \in ToSet(s)
    <3>1. PICK n \in 1..Len(s) : x = s[n]
      BY <1>1 DEF ToSet
    <3>2. n \in 1..(Len(s) + Len(t)) /\ n <= Len(s)
      BY <1>1
    <3> QED
      BY <1>3, <3>1, <3>2 DEF ToSet
  <2>3. \A x \in ToSet(t) : x \in ToSet(u)
    <3> TAKE x \in ToSet(t)
    <3>1. PICK n \in 1..Len(t) : x = t[n]
      BY <1>1 DEF ToSet
    <3>2. Len(s) + n \in 1..(Len(s) + Len(t)) /\ ~(Len(s) + n <= Len(s)) /\ Len(s) + n - Len(s) = n
      BY <1>1
    <3> QED
      BY <1>3, <3>1, <3>2 DEF ToSet
  <2> QED
    BY <2>1, <2>2, <2>3
<1> HIDE DEF T
<1> QED
  BY <1>2, <1>4, SeqIsList

(***************************************************************************)
(* Rules                                                                   *)
(***************************************************************************)
AreRefs(refs) ==
  /\ \E m \in Nat : DOMAIN refs = 1..m
  /\ \A n \in DOMAIN refs : {"kind", "name"} \subseteq DOMAIN refs[n]

\* A rule that was loaded, as the passes leave it.
Shaped(rule) ==
  /\ {"path", "filters", "backends", "from"} \subseteq DOMAIN rule
  /\ "type" \in DOMAIN rule.path /\ IsList(rule.filters) /\ AreRefs(rule.backends)

MatchesPattern(rule) == rule.path.type = "RegularExpression" \/ "ExtensionRef" \in FilterTypes(rule)

AllBackends(rule) == \A ref \in ToSet(rule.backends) : ref.kind = "Backend"

IsBackend(refs, name) == \E ref \in ToSet(refs) : ref.kind = "Backend" /\ ref.name = name

\* The rule r becomes q: it loses no filter, and no Backend is taken for a
\* Service again; a Backend of a name that is new to it is one that was built.
Treated(ns, built, r, q) ==
  /\ Shaped(q) /\ q.from = r.from
  /\ FilterTypes(r) \subseteq FilterTypes(q)
  /\ MatchesPattern(r) => MatchesPattern(q)
  /\ AllBackends(r) => AllBackends(q)
  /\ \A ref \in ToSet(q.backends) : ref.kind = "Backend" =>
       IsBackend(r.backends, ref.name) \/ <<ns, ref.name>> \in built

LEMMA UntreatedRule ==
  ASSUME NEW ns, NEW built, NEW r, Shaped(r)
  PROVE  Treated(ns, built, r, r)
  BY DEF Treated, IsBackend

LEMMA BackendsTreated ==
  ASSUME NEW ns, NEW built, NEW r, Shaped(r), NEW refs, AreRefs(refs),
         \A ref \in ToSet(refs) :
           \/ ref.kind = "Backend" /\ <<ns, ref.name>> \in built
           \/ \E old \in ToSet(r.backends) : ref.kind = old.kind /\ ref.name = old.name
  PROVE  Treated(ns, built, r, [r EXCEPT !.backends = refs])
PROOF
<1> DEFINE q == [r EXCEPT !.backends = refs]
<1>1. /\ q.backends = refs /\ q.path = r.path /\ q.filters = r.filters /\ q.from = r.from
      /\ DOMAIN q = DOMAIN r
  BY DEF Shaped
<1> HIDE DEF q
<1>2. Shaped(q)
  BY <1>1 DEF Shaped
<1>3. FilterTypes(q) = FilterTypes(r)
  BY <1>1 DEF FilterTypes
<1>4. AllBackends(r) => AllBackends(q)
  BY <1>1 DEF AllBackends
<1>5. ASSUME NEW ref \in ToSet(q.backends), ref.kind = "Backend"
      PROVE  IsBackend(r.backends, ref.name) \/ <<ns, ref.name>> \in built
  BY <1>1, <1>5 DEF IsBackend
<1> QED
  BY <1>1, <1>2, <1>3, <1>4, <1>5 DEF Treated, MatchesPattern, q

LEMMA FiltersTreated ==
  ASSUME NEW ns, NEW built, NEW r, Shaped(r), NEW path, NEW filters,
         "type" \in DOMAIN path, IsList(filters), ToSet(r.filters) \subseteq ToSet(filters),
         NEW q, DOMAIN q = DOMAIN r, q.backends = r.backends, q.from = r.from,
         q.path = path, q.filters = filters,
         MatchesPattern(r) => MatchesPattern(q)
  PROVE  Treated(ns, built, r, q)
PROOF
<1>1. Shaped(q)
  BY DEF Shaped
<1>2. FilterTypes(r) \subseteq FilterTypes(q)
  BY DEF FilterTypes
<1>3. AllBackends(r) => AllBackends(q)
  BY DEF AllBackends
<1>4. \A ref \in ToSet(q.backends) : ref.kind = "Backend" => IsBackend(r.backends, ref.name)
  BY DEF IsBackend
<1> QED
  BY <1>1, <1>2, <1>3, <1>4 DEF Treated

LEMMA TreatedTypes ==
  ASSUME NEW r, NEW q, NEW filter, IsList(r.filters), q.filters = Append(r.filters, filter)
  PROVE  /\ IsList(q.filters) /\ ToSet(r.filters) \subseteq ToSet(q.filters)
         /\ FilterTypes(r) \subseteq FilterTypes(q) /\ filter.type \in FilterTypes(q)
  BY Appended DEF FilterTypes

\* The rules new of a route with as many rules as size come from the rules old.
TreatedRules(ns, built, old, new, size) ==
  /\ new = [n \in 1..size |-> new[n]]
  /\ \A n \in 1..size : \E m \in 1..size : Treated(ns, built, old[m], new[n])
  /\ \A m \in 1..size : \E n \in 1..size : Treated(ns, built, old[m], new[n])

InPlace(ns, built, old, new, size) ==
  /\ new = [n \in 1..size |-> new[n]]
  /\ \A n \in 1..size : Treated(ns, built, old[n], new[n])

LEMMA InPlaceIsTreated ==
  ASSUME NEW ns, NEW built, NEW old, NEW new, NEW size, InPlace(ns, built, old, new, size)
  PROVE  TreatedRules(ns, built, old, new, size)
  BY DEF InPlace, TreatedRules

ShapedRules(rules, size) ==
  /\ rules = [n \in 1..size |-> rules[n]]
  /\ \A n \in 1..size : Shaped(rules[n]) /\ rules[n].from \in 1..size
  /\ \A m \in 1..size : \E n \in 1..size : rules[n].from = m

LEMMA StillShaped ==
  ASSUME NEW ns, NEW built, NEW old, NEW new, NEW size,
         ShapedRules(old, size), TreatedRules(ns, built, old, new, size)
  PROVE  ShapedRules(new, size)
PROOF
<1>1. \A n \in 1..size : Shaped(new[n]) /\ new[n].from \in 1..size
  BY DEF ShapedRules, TreatedRules, Treated
<1>2. ASSUME NEW m \in 1..size
      PROVE  \E n \in 1..size : new[n].from = m
  <2>1. PICK k \in 1..size : old[k].from = m
    BY DEF ShapedRules
  <2>2. PICK n \in 1..size : Treated(ns, built, old[k], new[n])
    BY DEF TreatedRules
  <2> QED
    BY <2>1, <2>2 DEF Treated
<1>3. new = [n \in 1..size |-> new[n]]
  BY DEF TreatedRules
<1> QED
  BY <1>1, <1>2, <1>3 DEF ShapedRules

(***************************************************************************)
(* What the passes do to rules                                             *)
(***************************************************************************)
RulesInv ==
  \A key \in DOMAIN ir : key.kind # "Gateway" =>
    /\ DOMAIN resources[key] = {"features", "parentRefs", "rules"}
    /\ resources[key].parentRefs = ir[key].parentRefs
    /\ ShapedRules(resources[key].rules, Size(ir[key]))
    /\ Filling => \A n \in 1..Size(ir[key]) : resources[key].rules[n].from = n

\* What a step does to the route: before the output is sorted, the rules stay
\* where they are.
RouteTreated(key) ==
  /\ DOMAIN resources'[key] = DOMAIN resources[key]
  /\ resources'[key].parentRefs = resources[key].parentRefs
  /\ TreatedRules(key.ns, DOMAIN backends', resources[key].rules, resources'[key].rules, Size(ir[key]))
  /\ Filling =>
       InPlace(key.ns, DOMAIN backends', resources[key].rules, resources'[key].rules, Size(ir[key]))

RoutesTreated == \A key \in DOMAIN ir : key.kind # "Gateway" => RouteTreated(key)

LEMMA RulesUntreated ==
  ASSUME RulesInv, NEW key \in DOMAIN ir, key.kind # "Gateway",
         DOMAIN resources'[key] = DOMAIN resources[key],
         resources'[key].parentRefs = resources[key].parentRefs,
         resources'[key].rules = resources[key].rules
  PROVE  RouteTreated(key)
PROOF
<1> DEFINE rules == resources[key].rules
           size  == Size(ir[key])
<1>1. ShapedRules(rules, size)
  BY DEF RulesInv
<1>2. InPlace(key.ns, DOMAIN backends', rules, rules, size)
  BY <1>1, UntreatedRule DEF InPlace, ShapedRules
<1>3. TreatedRules(key.ns, DOMAIN backends', rules, rules, size)
  <2> HIDE DEF rules, size
  <2> QED
    BY <1>2, InPlaceIsTreated
<1> QED
  BY <1>2, <1>3 DEF RouteTreated

LEMMA RouteOf ==
  ASSUME ResourcesInv, RulesInv, NEW key \in DOMAIN ir, key.kind # "Gateway", NEW rules,
         resources' = [resources EXCEPT ![key].rules = rules],
         TreatedRules(key.ns, DOMAIN backends', resources[key].rules, rules, Size(ir[key])),
         Filling => InPlace(key.ns, DOMAIN backends', resources[key].rules, rules, Size(ir[key]))
  PROVE  RoutesTreated
PROOF
<1> SUFFICES ASSUME NEW k \in DOMAIN ir, k.kind # "Gateway"
             PROVE  RouteTreated(k)
  BY DEF RoutesTreated
<1>1. CASE k # key
  <2>1. resources'[k] = resources[k]
    BY <1>1 DEF ResourcesInv
  <2> QED
    BY <2>1, RulesUntreated
<1>2. CASE k = key
  <2>1. /\ DOMAIN resources[key] = {"features", "parentRefs", "rules"}
        /\ resources'[key] = [resources[key] EXCEPT !.rules = rules]
    BY DEF RulesInv, ResourcesInv
  <2>2. /\ DOMAIN resources'[key] = DOMAIN resources[key]
        /\ resources'[key].parentRefs = resources[key].parentRefs
        /\ resources'[key].rules = rules
    BY <2>1
  <2> QED
    BY <1>2, <2>2 DEF RouteTreated
<1> QED
  BY <1>1, <1>2

LEMMA RouteInPlace ==
  ASSUME ResourcesInv, RulesInv, NEW key \in DOMAIN ir, key.kind # "Gateway", NEW rules,
         resources' = [resources EXCEPT ![key].rules = rules],
         InPlace(key.ns, DOMAIN backends', resources[key].rules, rules, Size(ir[key]))
  PROVE  RoutesTreated
  BY InPlaceIsTreated, RouteOf

\* The pass changes the rule at an index.
LEMMA OneRuleTreated ==
  ASSUME LoopInv, ResourcesInv, RulesInv, At(Features \ {"mTLS"}), NEW any \in todo,
         NEW idx \in DOMAIN resources[current].rules, NEW rule,
         resources' = [resources EXCEPT ![current].rules[idx] = rule],
         Treated(current.ns, DOMAIN backends', resources[current].rules[idx], rule)
  PROVE  RoutesTreated
PROOF
<1> DEFINE s == resources[current].rules
           t == [s EXCEPT ![idx] = rule]
           size == Size(ir[current])
<1>1. current \in DOMAIN ir /\ current.kind # "Gateway"
  BY AtRoute DEF ResourcesInv
<1>2. resources' = [resources EXCEPT ![current].rules = t]
  OBVIOUS
<1>3. ShapedRules(s, size)
  BY <1>1 DEF RulesInv
<1>4. DOMAIN s = 1..size
  <2> HIDE DEF s, size
  <2> QED
    BY <1>3 DEF ShapedRules
<1>5. InPlace(current.ns, DOMAIN backends', s, t, size)
  <2>1. t = [n \in 1..size |-> t[n]]
    BY <1>4
  <2>2. ASSUME NEW n \in 1..size
        PROVE  Treated(current.ns, DOMAIN backends', s[n], t[n])
    <3>1. CASE n = idx
      BY <1>4, <3>1
    <3>2. CASE n # idx
      <4>1. t[n] = s[n] /\ Shaped(s[n])
        BY <1>3, <1>4, <3>2 DEF ShapedRules
      <4> QED
        BY <4>1, UntreatedRule
    <3> QED
      BY <3>1, <3>2
  <2> HIDE DEF s, t, size
  <2> QED
    BY <2>1, <2>2 DEF InPlace
<1> HIDE DEF t
<1> QED
  BY <1>1, <1>2, <1>5, RouteInPlace DEF t

\* The rule at an index that is to be converted.
LEMMA RuleToTreat ==
  ASSUME LoopInv, ResourcesInv, RulesInv, At(Features \ {"mTLS"}), NEW any \in todo,
         NEW idx \in DOMAIN resources[current].rules
  PROVE  Shaped(resources[current].rules[idx]) /\ idx \in 1..Size(ir[current])
PROOF
<1>1. current \in DOMAIN ir /\ current.kind # "Gateway"
  BY AtRoute DEF ResourcesInv
<1>2. ShapedRules(resources[current].rules, Size(ir[current]))
  BY <1>1 DEF RulesInv
<1> QED
  BY <1>2 DEF ShapedRules

\* The index a pass converts, or reports, unless it panics.
Handles(features, idx) ==
  /\ At(features) /\ idx \in todo /\ IR(idx).id \notin parsed
  /\ ir' = ir /\ pass' = pass /\ pending' = pending /\ current' = current /\ todo' = todo \ {idx}
  /\ parsed' \subseteq parsed \union {IR(idx).id} /\ reported \subseteq reported'

Reports(idx) == <<current, Feature, idx>> \in reported'

RuleAt(idx) == resources[current].rules[idx]

\* Rules with a regular expression get a path of that type.
LEMMA RegexTreats ==
  ASSUME LoopInv, ResourcesInv, RulesInv, EmitRegex
  PROVE  /\ RoutesTreated
         /\ pass' = Panicked \/ \E idx : /\ Handles({"regex"}, idx)
                                         /\ idx \in DOMAIN resources[current].rules
                                         /\ MatchesPattern(RuleAt(idx)')
PROOF
<1>1. PICK idx \in todo :
        /\ Emits({"regex"}, idx) /\ UNCHANGED <<ir, outputs, reported>>
        /\ \/ Panic /\ UNCHANGED <<resources, parsed>>
           \/ /\ idx \in DOMAIN resources[current].rules
              /\ resources' = [resources EXCEPT ![current].rules[idx].path.type = "RegularExpression"]
              /\ Succeed(idx)
  BY DEF EmitRegex, NoRule, Resource
<1>2. At(Features \ {"mTLS"})
  BY <1>1 DEF Emits, At, Features, MergedFeatures
<1>3. CASE Panic /\ UNCHANGED <<resources, parsed>>
  BY <1>3, RulesUntreated DEF RoutesTreated, Panic
<1>4. CASE /\ idx \in DOMAIN resources[current].rules
           /\ resources' = [resources EXCEPT ![current].rules[idx].path.type = "RegularExpression"]
           /\ Succeed(idx)
  <2> DEFINE r == resources[current].rules[idx]
             q == [r EXCEPT !.path.type = "RegularExpression"]
  <2>1. Shaped(r) /\ current \in DOMAIN ir /\ current.kind # "Gateway" /\ idx \in 1..Size(ir[current])
    BY <1>2, <1>4, AtRoute, RuleToTreat DEF ResourcesInv
  <2>2. /\ DOMAIN q = DOMAIN r /\ q.backends = r.backends /\ q.from = r.from /\ q.filters = r.filters
        /\ q.path = [r.path EXCEPT !.type = "RegularExpression"]
    BY <2>1 DEF Shaped
  <2>3. "type" \in DOMAIN q.path /\ q.path.type = "RegularExpression"
    BY <2>1, <2>2 DEF Shaped
  <2>4. resources' = [resources EXCEPT ![current].rules[idx] = q]
    BY <1>4
  <2> HIDE DEF r, q
  <2>5. Treated(current.ns, DOMAIN backends', r, q)
    BY <2>1, <2>2, <2>3, FiltersTreated DEF Shaped, MatchesPattern
  <2>6. RoutesTreated
    BY <1>2, <1>4, <2>4, <2>5, OneRuleTreated DEF r
  <2>7. resources'[current].rules[idx] = q /\ idx \in DOMAIN resources[current].rules
    <3>1. current \in DOMAIN resources /\ "rules" \in DOMAIN resources[current]
      BY <2>1 DEF ResourcesInv, RulesInv
    <3> QED
      BY <1>4, <2>4, <3>1
  <2>8. Handles({"regex"}, idx) /\ current' = current
    BY <1>1, <1>4 DEF Handles, Succeed, Finish, Emits
  <2> QED
    BY <2>3, <2>6, <2>7, <2>8 DEF RuleAt, MatchesPattern
<1> QED
  BY <1>1, <1>3, <1>4

LEMMA RewriteTreats ==
  ASSUME LoopInv, ResourcesInv, RulesInv, EmitRewrite
  PROVE  /\ RoutesTreated
         /\ pass' = Panicked
            \/ \E idx : /\ Handles({"rewrite"}, idx)
                        /\ \/ Reports(idx)
                           \/ /\ idx \in DOMAIN resources[current].rules
                              /\ FilterTypes(RuleAt(idx)') \cap {"URLRewrite", "ExtensionRef"} # {}
PROOF
<1>1. PICK idx \in todo : \E filter :
        /\ Emits({"rewrite"}, idx) /\ UNCHANGED <<ir, policies, backends, grants>>
        /\ \/ Panic /\ UNCHANGED <<resources, parsed, reported>>
           \/ Report(idx) /\ Skip(idx) /\ UNCHANGED resources
           \/ /\ idx \in DOMAIN resources[current].rules /\ filter.type = "ExtensionRef"
              /\ resources' = [resources EXCEPT ![current].rules[idx] =
                   WithFilter([@ EXCEPT !.path = RootPath], filter)]
              /\ Succeed(idx) /\ UNCHANGED reported
           \/ /\ idx \in DOMAIN resources[current].rules /\ filter.type = "URLRewrite"
              /\ resources' = [resources EXCEPT ![current].rules[idx] = WithFilter(@, filter)]
              /\ Succeed(idx) /\ UNCHANGED reported
  <2>1. PICK idx \in todo : EmitRewrite!(idx)
    BY DEF EmitRewrite
  <2> DEFINE ref == [type |-> "ExtensionRef", name |-> Numbered(current.name, idx)]
             url == [type |-> "URLRewrite", path |-> IR(idx).fields.target]
  <2>2. ref.type = "ExtensionRef" /\ url.type = "URLRewrite"
    OBVIOUS
  <2>3. \A pattern : HTTPRouteFilterOf(idx, pattern).name = Numbered(current.name, idx)
    BY DEF HTTPRouteFilterOf
  <2>4. PICK filter, other : filter = ref /\ other = url
    OBVIOUS
  <2>5. \E x :
        /\ Emits({"rewrite"}, idx) /\ UNCHANGED <<ir, policies, backends, grants>>
        /\ \/ Panic /\ UNCHANGED <<resources, parsed, reported>>
           \/ Report(idx) /\ Skip(idx) /\ UNCHANGED resources
           \/ /\ idx \in DOMAIN resources[current].rules /\ x.type = "ExtensionRef"
              /\ resources' = [resources EXCEPT ![current].rules[idx] =
                   WithFilter([@ EXCEPT !.path = RootPath], x)]
              /\ Succeed(idx) /\ UNCHANGED reported
           \/ /\ idx \in DOMAIN resources[current].rules /\ x.type = "URLRewrite"
              /\ resources' = [resources EXCEPT ![current].rules[idx] = WithFilter(@, x)]
              /\ Succeed(idx) /\ UNCHANGED reported
    <3>1. Emits({"rewrite"}, idx) /\ UNCHANGED <<ir, policies, backends, grants>>
      BY <2>1
    <3>2. \/ Panic /\ UNCHANGED <<resources, parsed, reported>>
          \/ Report(idx) /\ Skip(idx) /\ UNCHANGED resources
          \/ /\ idx \in DOMAIN resources[current].rules
             /\ resources' = [resources EXCEPT ![current].rules[idx] =
                  WithFilter([@ EXCEPT !.path = RootPath], ref)]
             /\ Succeed(idx) /\ UNCHANGED reported
          \/ /\ idx \in DOMAIN resources[current].rules
             /\ resources' = [resources EXCEPT ![current].rules[idx] = WithFilter(@, url)]
             /\ Succeed(idx) /\ UNCHANGED reported
      BY <2>1, <2>3 DEF NoRule, Resource
    <3> HIDE DEF ref, url
    <3> QED
      BY <2>2, <3>1, <3>2
  <2> QED
    BY <2>5
<1>2. At(Features \ {"mTLS"})
  BY <1>1 DEF Emits, At, Features, MergedFeatures
<1>3. CASE Panic /\ UNCHANGED <<resources, parsed, reported>>
  BY <1>3, RulesUntreated DEF RoutesTreated, Panic
<1>4. CASE Report(idx) /\ Skip(idx) /\ UNCHANGED resources
  <2>1. RoutesTreated
    BY <1>4, RulesUntreated DEF RoutesTreated
  <2>2. Handles({"rewrite"}, idx) /\ Reports(idx)
    BY <1>1, <1>4 DEF Handles, Reports, Report, Skip, Finish, Emits
  <2> QED
    BY <2>1, <2>2
<1> DEFINE r == resources[current].rules[idx]
           rooted == [r EXCEPT !.path = RootPath]
           becomes(new) == resources' = [resources EXCEPT ![current].rules[idx] = new]
<1>5. ASSUME idx \in DOMAIN resources[current].rules, NEW filter, NEW old,
             filter.type \in {"URLRewrite", "ExtensionRef"},
             old = r \/ (old = rooted /\ filter.type = "ExtensionRef"),
             becomes(WithFilter(old, filter)),
             Succeed(idx), UNCHANGED reported
      PROVE  /\ RoutesTreated /\ Handles({"rewrite"}, idx) /\ idx \in DOMAIN resources[current].rules
             /\ FilterTypes(RuleAt(idx)') \cap {"URLRewrite", "ExtensionRef"} # {}
  <2> DEFINE q == WithFilter(old, filter)
  <2>1. Shaped(r) /\ current \in DOMAIN ir /\ current.kind # "Gateway" /\ idx \in 1..Size(ir[current])
    BY <1>2, <1>5, AtRoute, RuleToTreat DEF ResourcesInv
  <2>2. /\ DOMAIN old = DOMAIN r /\ old.backends = r.backends /\ old.from = r.from
        /\ old.filters = r.filters /\ old.path \in {r.path, RootPath}
        /\ old.path = r.path \/ filter.type = "ExtensionRef"
    BY <1>5, <2>1 DEF Shaped
  <2>3. /\ DOMAIN q = DOMAIN r /\ q.backends = r.backends /\ q.from = r.from /\ q.path = old.path
        /\ q.filters = Append(r.filters, filter)
    <3>1. q = [old EXCEPT !.filters = Append(@, filter)]
      BY DEF WithFilter
    <3>2. {"path", "filters", "backends", "from"} \subseteq DOMAIN old
      BY <2>1, <2>2 DEF Shaped
    <3> HIDE DEF q, r
    <3> QED
      BY <2>2, <3>1, <3>2
  <2> HIDE DEF q, r, rooted
  <2>4. /\ IsList(q.filters) /\ ToSet(r.filters) \subseteq ToSet(q.filters)
        /\ FilterTypes(r) \subseteq FilterTypes(q) /\ filter.type \in FilterTypes(q)
    BY <2>1, <2>3, TreatedTypes DEF Shaped
  <2>5. "type" \in DOMAIN q.path
    BY <2>1, <2>2, <2>3 DEF Shaped, RootPath
  <2>6. MatchesPattern(r) => MatchesPattern(q)
    BY <2>2, <2>3, <2>4 DEF MatchesPattern
  <2>7. Treated(current.ns, DOMAIN backends', r, q)
    BY <2>1, <2>3, <2>4, <2>5, <2>6, FiltersTreated
  <2>8. RoutesTreated
    BY <1>2, <1>5, <2>7, OneRuleTreated DEF q, r
  <2>9. resources'[current].rules[idx] = q
    <3>1. current \in DOMAIN resources /\ "rules" \in DOMAIN resources[current]
      BY <2>1 DEF ResourcesInv, RulesInv
    <3> QED
      BY <1>5, <3>1 DEF q
  <2>10. Handles({"rewrite"}, idx) /\ current' = current
    BY <1>1, <1>5 DEF Handles, Succeed, Finish, Emits
  <2> QED
    BY <1>5, <2>4, <2>8, <2>9, <2>10 DEF RuleAt
<1>6. PICK filter :
        \/ Panic /\ UNCHANGED <<resources, parsed, reported>>
        \/ Report(idx) /\ Skip(idx) /\ UNCHANGED resources
        \/ /\ idx \in DOMAIN resources[current].rules /\ filter.type = "ExtensionRef"
           /\ resources' = [resources EXCEPT ![current].rules[idx] = WithFilter(rooted, filter)]
           /\ Succeed(idx) /\ UNCHANGED reported
        \/ /\ idx \in DOMAIN resources[current].rules /\ filter.type = "URLRewrite"
           /\ resources' = [resources EXCEPT ![current].rules[idx] = WithFilter(r, filter)]
           /\ Succeed(idx) /\ UNCHANGED reported
  BY <1>1
<1>7. CASE /\ idx \in DOMAIN resources[current].rules /\ filter.type = "ExtensionRef"
           /\ resources' = [resources EXCEPT ![current].rules[idx] = WithFilter(rooted, filter)]
           /\ Succeed(idx) /\ UNCHANGED reported
  <2>1. PICK old : old = rooted
    OBVIOUS
  <2>2. /\ idx \in DOMAIN resources[current].rules /\ (old = r \/ (old = rooted /\ filter.type = "ExtensionRef"))
        /\ filter.type \in {"URLRewrite", "ExtensionRef"}
        /\ becomes(WithFilter(old, filter))
        /\ Succeed(idx) /\ UNCHANGED reported
    BY <1>7, <2>1
  <2>3. /\ RoutesTreated /\ Handles({"rewrite"}, idx) /\ idx \in DOMAIN resources[current].rules
        /\ FilterTypes(RuleAt(idx)') \cap {"URLRewrite", "ExtensionRef"} # {}
    <3> HIDE DEF rooted, becomes
    <3> QED
      BY <1>5, <2>2
  <2> QED
    BY <2>3 DEF RuleAt
<1>8. CASE /\ idx \in DOMAIN resources[current].rules /\ filter.type = "URLRewrite"
           /\ resources' = [resources EXCEPT ![current].rules[idx] = WithFilter(r, filter)]
           /\ Succeed(idx) /\ UNCHANGED reported
  <2>1. PICK old : old = r
    OBVIOUS
  <2>2. /\ idx \in DOMAIN resources[current].rules /\ (old = r \/ (old = rooted /\ filter.type = "ExtensionRef"))
        /\ filter.type \in {"URLRewrite", "ExtensionRef"}
        /\ becomes(WithFilter(old, filter))
        /\ Succeed(idx) /\ UNCHANGED reported
    BY <1>8, <2>1
  <2>3. /\ RoutesTreated /\ Handles({"rewrite"}, idx) /\ idx \in DOMAIN resources[current].rules
        /\ FilterTypes(RuleAt(idx)') \cap {"URLRewrite", "ExtensionRef"} # {}
    <3> HIDE DEF rooted, becomes
    <3> QED
      BY <1>5, <2>2
  <2> QED
    BY <2>3 DEF RuleAt
<1> QED
  BY <1>3, <1>4, <1>6, <1>7, <1>8

\* Redirects are filters too; a route without parents, or a URL that cannot be
\* used, is reported, and nothing is to be done when TLS is not forced and no
\* listener ends it.
LEMMA RedirectFiltersAreList ==
  ASSUME NEW fields
  PROVE  /\ IsList(RedirectFilters(fields))
         /\ \A filter \in ToSet(RedirectFilters(fields)) : filter.type = "RequestRedirect"
         /\ \/ "RequestRedirect" \in {filter.type : filter \in ToSet(RedirectFilters(fields))}
            \/ /\ RedirectFilters(fields) = <<>> /\ ~SslRedirects(fields, current.ns, Resource)
               /\ "url" \notin DOMAIN fields \/ ~IsRedirectURL(fields.url)
PROOF
<1> DEFINE first  == IF SslRedirects(fields, current.ns, Resource) THEN <<SslRedirectFilter>> ELSE <<>>
           second == IF "url" \in DOMAIN fields /\ IsRedirectURL(fields.url)
                     THEN <<RedirectFilter(fields)>> ELSE <<>>
<1>1. SslRedirectFilter.type = "RequestRedirect" /\ RedirectFilter(fields).type = "RequestRedirect"
  BY DEF SslRedirectFilter, RedirectFilter
<1>2. \A x : IsList(<<x>>) /\ ToSet(<<x>>) = {x}
  BY DEF IsList, ToSet
<1>3. IsList(<<>>) /\ \A x : x \notin ToSet(<<>>)
  BY DEF IsList, ToSet
<1>4. /\ IsList(first) /\ IsList(second)
      /\ \A filter \in ToSet(first) \union ToSet(second) : filter.type = "RequestRedirect"
      /\ SslRedirects(fields, current.ns, Resource) => SslRedirectFilter \in ToSet(first)
      /\ "url" \in DOMAIN fields /\ IsRedirectURL(fields.url) => RedirectFilter(fields) \in ToSet(second)
  <2>1. PICK a, b : a = SslRedirectFilter /\ b = RedirectFilter(fields)
    OBVIOUS
  <2>2. /\ first = <<a>> \/ first = <<>>
        /\ SslRedirects(fields, current.ns, Resource) => first = <<a>>
        /\ second = <<b>> \/ second = <<>>
        /\ "url" \in DOMAIN fields /\ IsRedirectURL(fields.url) => second = <<b>>
    BY <2>1
  <2> HIDE DEF first, second
  <2>3. IsList(first) /\ IsList(second)
    BY <1>2, <1>3, <2>2
  <2>4. ToSet(first) \subseteq {a} /\ ToSet(second) \subseteq {b}
    BY <1>2, <1>3, <2>2
  <2>5. ToSet(<<a>>) = {a} /\ ToSet(<<b>>) = {b}
    BY <1>2
  <2> QED
    BY <1>1, <2>1, <2>2, <2>3, <2>4, <2>5
<1>5. RedirectFilters(fields) = first \o second
  BY DEF RedirectFilters
<1>6. /\ ~SslRedirects(fields, current.ns, Resource) => first = <<>>
      /\ ~("url" \in DOMAIN fields /\ IsRedirectURL(fields.url)) => second = <<>>
  OBVIOUS
<1> HIDE DEF first, second
<1>7. IsList(first \o second) /\ ToSet(first \o second) = ToSet(first) \union ToSet(second)
  BY <1>4, Concatenated
<1>8. first = <<>> /\ second = <<>> => first \o second = <<>>
  OBVIOUS
<1> QED
  BY <1>1, <1>4, <1>5, <1>6, <1>7, <1>8

LEMMA RedirectTreats ==
  ASSUME LoopInv, ResourcesInv, RulesInv, EmitRedirect
  PROVE  /\ RoutesTreated
         /\ pass' = Panicked
            \/ \E idx : /\ Handles({"redirect"}, idx)
                        /\ \/ Reports(idx)
                           \/ /\ idx \in DOMAIN resources[current].rules
                              /\ "RequestRedirect" \in FilterTypes(RuleAt(idx)')
                           \/ /\ resources' = resources /\ Resource.parentRefs # <<>>
                              /\ "url" \notin DOMAIN IR(idx).fields
                              /\ ~SslRedirects(IR(idx).fields, current.ns, Resource)
PROOF
<1>1. PICK idx \in todo :
        LET filters == RedirectFilters(IR(idx).fields)
        IN  /\ Emits({"redirect"}, idx) /\ UNCHANGED <<ir, outputs>>
            /\ \/ Panic /\ UNCHANGED resources
               \/ Report(idx) /\ Skip(idx) /\ UNCHANGED resources
               \/ /\ Resource.parentRefs # <<>> /\ (filters = <<>> \/ ~NoRule(idx))
                  /\ resources' = IF filters = <<>> THEN resources
                                  ELSE [resources EXCEPT ![current].rules[idx].filters = @ \o filters]
                  /\ IF "url" \in DOMAIN IR(idx).fields /\ ~IsRedirectURL(IR(idx).fields.url)
                     THEN Report(idx) ELSE UNCHANGED reported
                  /\ Succeed(idx)
  BY DEF EmitRedirect
<1> DEFINE fields  == IR(idx).fields
           filters == RedirectFilters(fields)
<1>2. At(Features \ {"mTLS"}) /\ Emits({"redirect"}, idx)
  BY <1>1 DEF Emits, At, Features, MergedFeatures
<1>3. CASE Panic /\ UNCHANGED resources
  BY <1>3, RulesUntreated DEF RoutesTreated, Panic
<1>4. CASE Report(idx) /\ Skip(idx) /\ UNCHANGED resources
  <2>1. RoutesTreated
    BY <1>4, RulesUntreated DEF RoutesTreated
  <2>2. Handles({"redirect"}, idx) /\ Reports(idx)
    BY <1>1, <1>2, <1>4 DEF Handles, Reports, Report, Skip, Finish, Emits
  <2> QED
    BY <2>1, <2>2
<1>5. CASE /\ Resource.parentRefs # <<>> /\ (filters = <<>> \/ ~NoRule(idx))
           /\ resources' = IF filters = <<>> THEN resources
                           ELSE [resources EXCEPT ![current].rules[idx].filters = @ \o filters]
           /\ IF "url" \in DOMAIN fields /\ ~IsRedirectURL(fields.url)
              THEN Report(idx) ELSE UNCHANGED reported
           /\ Succeed(idx)
  <2>1. Handles({"redirect"}, idx)
    <3>1. ir' = ir
      BY <1>1
    <3> QED
      BY <1>2, <1>5, <3>1 DEF Handles, Succeed, Finish, Emits, Report
  <2>2. CASE filters = <<>>
    <3>1. RoutesTreated
      BY <1>5, <2>2, RulesUntreated DEF RoutesTreated
    <3>2. Reports(idx) \/ ("url" \notin DOMAIN fields \/ IsRedirectURL(fields.url))
      BY <1>5 DEF Reports, Report
    <3>3. /\ ~SslRedirects(fields, current.ns, Resource)
          /\ "url" \notin DOMAIN fields \/ ~IsRedirectURL(fields.url)
      <4>1. {filter.type : filter \in ToSet(<<>>)} = {}
        BY DEF ToSet
      <4> QED
        BY <2>2, <4>1, RedirectFiltersAreList
    <3>4. resources' = resources /\ Resource.parentRefs # <<>>
      BY <1>5, <2>2
    <3> HIDE DEF fields, filters
    <3> QED
      BY <2>1, <3>1, <3>2, <3>3, <3>4 DEF fields
  <2>3. CASE filters # <<>>
    <3> DEFINE r == resources[current].rules[idx]
               q == [r EXCEPT !.filters = @ \o filters]
    <3>1. idx \in DOMAIN resources[current].rules
      BY <1>5, <2>3 DEF NoRule, Resource
    <3>2. Shaped(r) /\ current \in DOMAIN ir /\ current.kind # "Gateway" /\ idx \in 1..Size(ir[current])
      BY <1>2, <3>1, AtRoute, RuleToTreat DEF ResourcesInv
    <3>3. resources' = [resources EXCEPT ![current].rules[idx] = q]
      BY <1>5, <2>3
    <3>4. /\ DOMAIN q = DOMAIN r /\ q.backends = r.backends /\ q.from = r.from /\ q.path = r.path
          /\ q.filters = r.filters \o filters
      <4> HIDE DEF filters
      <4> QED
        BY <3>2 DEF Shaped
    <3>5. /\ IsList(q.filters) /\ ToSet(q.filters) = ToSet(r.filters) \union ToSet(filters)
          /\ "RequestRedirect" \in {filter.type : filter \in ToSet(filters)}
      <4>1. IsList(filters) /\ "RequestRedirect" \in {filter.type : filter \in ToSet(filters)}
        BY <2>3, RedirectFiltersAreList
      <4> HIDE DEF r, q, filters
      <4> QED
        BY <3>2, <3>4, <4>1, Concatenated DEF Shaped
    <3> HIDE DEF r, q, filters
    <3>6. FilterTypes(r) \subseteq FilterTypes(q) /\ "RequestRedirect" \in FilterTypes(q)
      BY <3>5 DEF FilterTypes
    <3>7. Treated(current.ns, DOMAIN backends', r, q)
      BY <3>2, <3>4, <3>5, <3>6, FiltersTreated DEF Shaped, MatchesPattern
    <3>8. RoutesTreated
      BY <1>2, <3>1, <3>3, <3>7, OneRuleTreated DEF r
    <3>9. resources'[current].rules[idx] = q /\ current' = current
      <4>1. current \in DOMAIN resources /\ "rules" \in DOMAIN resources[current]
        BY <3>2 DEF ResourcesInv, RulesInv
      <4> QED
        BY <2>1, <3>1, <3>3, <4>1 DEF Handles
    <3> QED
      BY <2>1, <3>1, <3>6, <3>8, <3>9 DEF RuleAt
  <2> QED
    BY <2>2, <2>3
<1>6. \/ Panic /\ UNCHANGED resources
      \/ Report(idx) /\ Skip(idx) /\ UNCHANGED resources
      \/ /\ Resource.parentRefs # <<>> /\ (filters = <<>> \/ ~NoRule(idx))
         /\ resources' = IF filters = <<>> THEN resources
                         ELSE [resources EXCEPT ![current].rules[idx].filters = @ \o filters]
         /\ IF "url" \in DOMAIN fields /\ ~IsRedirectURL(fields.url)
            THEN Report(idx) ELSE UNCHANGED reported
         /\ Succeed(idx)
  BY <1>1
<1> QED
  BY <1>3, <1>4, <1>5, <1>6


LEMMA LeastNatural ==
  ASSUME NEW T, T \subseteq Nat, T # {}
  PROVE  \E n \in T : \A m \in T : n <= m
<1>1. IsWellFoundedOn(OpToRel(<, Nat), Nat)
  BY NatLessThanWellFounded, Zenon
<1>2. PICK n \in T : \A m \in Nat : <<m, n>> \in OpToRel(<, Nat) => m \notin T
  BY <1>1, WFMin
<1>3. \A m \in T : n <= m
  <2> TAKE m \in T
  <2>1. ~(m < n)
    BY <1>2 DEF OpToRel
  <2> QED
    BY <2>1
<1> QED
  BY <1>3

\* References are joined, but none becomes one to a Backend.
LEMMA UniqueRefs ==
  ASSUME NEW refs, AreRefs(refs), NEW list \in UniqueBackendRefs(refs)
  PROVE  /\ AreRefs(list)
         /\ \A ref \in ToSet(list) : \E old \in ToSet(refs) : ref.kind = old.kind /\ ref.name = old.name
PROOF
<1> DEFINE all == {UniqueBackendRef(refs, key) : key \in {RefKey(ref) : ref \in ToSet(refs)}}
<1>a. Cardinality(all) \in Nat
  <2> DEFINE unique == [n \in DOMAIN refs |-> UniqueBackendRef(refs, RefKey(refs[n]))]
  <2>1. IsFiniteSet(DOMAIN refs)
    <3>1. PICK m \in Nat : DOMAIN refs = 1..m
      BY DEF AreRefs
    <3>2. 1 \in Int /\ m \in Int
      BY <3>1
    <3> QED
      BY <3>1, <3>2, FS_Interval
  <2>2. unique \in Surjection(DOMAIN refs, all)
    BY DEF Surjection, ToSet
  <2> HIDE DEF unique, all
  <2> QED
    BY <2>1, <2>2, FS_Surjection, FS_CardinalityType
<1>b. list \in [1..Cardinality(all) -> all]
  BY DEF UniqueBackendRefs, SetToSeqs
<1> SUFFICES ASSUME NEW n \in DOMAIN list
             PROVE  /\ {"kind", "name"} \subseteq DOMAIN list[n]
                    /\ \E old \in ToSet(refs) : list[n].kind = old.kind /\ list[n].name = old.name
  <2> HIDE DEF all
  <2> QED
    BY <1>a, <1>b DEF AreRefs, ToSet
<1>1. PICK key \in {RefKey(ref) : ref \in ToSet(refs)} : list[n] = UniqueBackendRef(refs, key)
  BY <1>b
<1> DEFINE same == {m \in DOMAIN refs : RefKey(refs[m]) = key}
<1>2. same # {}
  BY <1>1 DEF ToSet
<1>3. Min(same) \in same
  <2>1. same \subseteq Nat
    BY DEF AreRefs
  <2>2. \E x \in same : \A y \in same : x <= y
    <3> HIDE DEF same
    <3> QED
      BY <1>2, <2>1, LeastNatural
  <2> HIDE DEF same
  <2> QED
    BY <2>2 DEF Min
<1>4. PICK weight : list[n] = [refs[Min(same)] EXCEPT !.weight = weight]
  BY <1>1 DEF UniqueBackendRef
<1>5. refs[Min(same)] \in ToSet(refs) /\ {"kind", "name"} \subseteq DOMAIN refs[Min(same)]
  BY <1>3 DEF ToSet, AreRefs
<1> HIDE DEF same
<1>6. list[n].kind = refs[Min(same)].kind /\ list[n].name = refs[Min(same)].name
      /\ DOMAIN list[n] = DOMAIN refs[Min(same)]
  BY <1>4, <1>5
<1> QED
  BY <1>5, <1>6

\* Duplicates are removed from the backends of every rule.
LEMMA DuplicatesTreats ==
  ASSUME LoopInv, ResourcesInv, RulesInv, RemoveBackendRefsDuplicates
  PROVE  RoutesTreated
PROOF
<1>1. PICK key \in pending : \E rules \in WithBackends(resources[key].rules, UniqueBackendRefs) :
        At({"duplicates"}) /\ resources' = [resources EXCEPT ![key].rules = rules]
  BY DEF RemoveBackendRefsDuplicates
<1> DEFINE s == resources[key].rules
           size == Size(ir[key])
<1>2. PICK lists : /\ \A n \in DOMAIN s : lists[n] \in UniqueBackendRefs(s[n].backends)
                   /\ resources' = [resources EXCEPT ![key].rules =
                        [n \in DOMAIN s |-> [s[n] EXCEPT !.backends = lists[n]]]]
  BY <1>1 DEF WithBackends
<1> DEFINE t == [n \in DOMAIN s |-> [s[n] EXCEPT !.backends = lists[n]]]
<1>3. key \in DOMAIN ir /\ key.kind # "Gateway"
  <2>1. pass \in DOMAIN Passes /\ key \in DOMAIN ir /\ key.kind = Passes[pass][2]
    BY <1>1 DEF LoopInv, At
  <2>2. \A n \in DOMAIN Passes : Passes[n][1] = "duplicates" => Passes[n][2] = "HTTPRoute"
    BY DEF Passes
  <2> QED
    BY <1>1, <2>1, <2>2 DEF At
<1>4. ShapedRules(s, size)
  BY <1>3 DEF RulesInv
<1> HIDE DEF s, size
<1>5. DOMAIN s = 1..size
  BY <1>4 DEF ShapedRules
<1>6. ASSUME NEW n \in 1..size
      PROVE  Treated(key.ns, DOMAIN backends', s[n], t[n])
  <2>1. Shaped(s[n]) /\ AreRefs(s[n].backends) /\ lists[n] \in UniqueBackendRefs(s[n].backends)
    BY <1>2, <1>4, <1>5 DEF ShapedRules, Shaped
  <2>2. /\ AreRefs(lists[n])
        /\ \A ref \in ToSet(lists[n]) : \E old \in ToSet(s[n].backends) :
             ref.kind = old.kind /\ ref.name = old.name
    BY <2>1, UniqueRefs
  <2>3. Treated(key.ns, DOMAIN backends', s[n], [s[n] EXCEPT !.backends = lists[n]])
    BY <2>1, <2>2, BackendsTreated
  <2> QED
    BY <1>5, <2>3
<1>7. t = [n \in 1..size |-> t[n]]
  BY <1>5
<1>8. resources' = [resources EXCEPT ![key].rules = t]
  BY <1>2 DEF s
<1> HIDE DEF t
<1>9. InPlace(key.ns, DOMAIN backends', s, t, size)
  BY <1>6, <1>7 DEF InPlace
<1> QED
  BY <1>3, <1>8, <1>9, RouteInPlace DEF s, size

\* Backends are put in place of the references of a rule.
Moved(refs, idx) ==
  [x \in DOMAIN refs |-> [refs[x] EXCEPT !.kind = "Backend", !.name = BackendName(idx, @), !.port = 0]]

LEMMA MovedRefs ==
  ASSUME NEW refs, AreRefs(refs), NEW idx
  PROVE  /\ AreRefs(Moved(refs, idx))
         /\ \A ref \in ToSet(Moved(refs, idx)) :
              ref.kind = "Backend" /\ \E old \in ToSet(refs) : ref.name = BackendName(idx, old.name)
PROOF
<1> DEFINE to(ref) == [ref EXCEPT !.kind = "Backend", !.name = BackendName(idx, @), !.port = 0]
<1>1. \A n \in DOMAIN refs : /\ to(refs[n]).kind = "Backend"
                             /\ to(refs[n]).name = BackendName(idx, refs[n].name)
                             /\ DOMAIN to(refs[n]) = DOMAIN refs[n]
  BY DEF AreRefs
<1> DEFINE new == [n \in DOMAIN refs |-> to(refs[n])]
<1> HIDE DEF to
<1>2. DOMAIN new = DOMAIN refs /\ \A n \in DOMAIN refs : new[n] = to(refs[n])
  OBVIOUS
<1> HIDE DEF new
<1>3. AreRefs(new)
  BY <1>1, <1>2 DEF AreRefs
<1>4. \A ref \in ToSet(new) :
        ref.kind = "Backend" /\ \E old \in ToSet(refs) : ref.name = BackendName(idx, old.name)
  BY <1>1, <1>2 DEF ToSet
<1> QED
  BY <1>3, <1>4 DEF Moved, new, to

LEMMA BackendTLSTreats ==
  ASSUME LoopInv, ResourcesInv, RulesInv, EmitBackendTLS
  PROVE  /\ RoutesTreated
         /\ \/ pass' = Panicked /\ backends' = backends
            \/ \E idx : /\ Handles({"backendTLS"}, idx) /\ DOMAIN backends \subseteq DOMAIN backends'
                        /\ \A n \in 1..Size(ir[current]) : idx \in {RouteRuleAllIndex, n} =>
                             AllBackends(RuleAt(n)')
PROOF
<1>1. PICK idx \in todo :
        LET rules   == Resource.rules
            targets == IF idx = RouteRuleAllIndex THEN DOMAIN rules ELSE {idx}
            services == {ref.name : ref \in UNION {ToSet(rules[n].backends) : n \in targets \cap DOMAIN rules}}
            keys     == [s \in services |-> <<current.ns, BackendName(idx, s)>>]
            moved(ref) == [ref EXCEPT !.kind = "Backend", !.name = BackendName(idx, @), !.port = 0]
        IN /\ Emits({"backendTLS"}, idx)
           /\ UNCHANGED <<ir, reported>>
           /\ \/ Panic /\ UNCHANGED <<resources, backends>>
              \/ /\ \E built : /\ DOMAIN built = {keys[s] : s \in services}
                               /\ backends' = Over(built, backends)
                 /\ resources' = [resources EXCEPT ![current].rules =
                     [n \in DOMAIN rules |->
                        IF n \notin targets THEN rules[n]
                        ELSE [rules[n] EXCEPT !.backends = [x \in DOMAIN @ |-> moved(@[x])]]]]
                 /\ Succeed(idx)
  BY DEF EmitBackendTLS
<1>2. At(Features \ {"mTLS"}) /\ Emits({"backendTLS"}, idx)
  BY <1>1 DEF Emits, At, Features, MergedFeatures
<1>3. CASE Panic /\ UNCHANGED <<resources, backends>>
  BY <1>3, RulesUntreated DEF RoutesTreated, Panic
<1>4. CASE ~(Panic /\ UNCHANGED <<resources, backends>>)
  <2> DEFINE s == resources[current].rules
             size == Size(ir[current])
             targets == IF idx = RouteRuleAllIndex THEN DOMAIN s ELSE {idx}
             t == [n \in DOMAIN s |->
                     IF n \notin targets THEN s[n]
                     ELSE [s[n] EXCEPT !.backends = Moved(s[n].backends, idx)]]
             services == {ref.name : ref \in UNION {ToSet(s[n].backends) : n \in targets \cap DOMAIN s}}
             keys == [x \in services |-> <<current.ns, BackendName(idx, x)>>]
  <2>1. resources' = [resources EXCEPT ![current].rules = t]
    BY <1>1, <1>4 DEF Resource, Moved
  <2>2. PICK built : DOMAIN built = {keys[x] : x \in services} /\ backends' = Over(built, backends)
    BY <1>1, <1>4 DEF Resource
  <2>3. DOMAIN backends' = {keys[x] : x \in services} \union DOMAIN backends
    BY <2>2 DEF Over
  <2>4. current \in DOMAIN ir /\ current.kind # "Gateway"
    BY <1>1, <1>2, AtRoute DEF ResourcesInv
  <2>5. ShapedRules(s, size)
    BY <2>4 DEF RulesInv
  <2>6. DOMAIN s = 1..size
    <3> HIDE DEF s, size
    <3> QED
      BY <2>5 DEF ShapedRules
  <2>7. ASSUME NEW n \in 1..size, n \in targets
        PROVE  Treated(current.ns, DOMAIN backends', s[n], t[n]) /\ AllBackends(t[n])
    <3> DEFINE refs == Moved(s[n].backends, idx)
    <3>1. Shaped(s[n]) /\ AreRefs(s[n].backends)
      <4> HIDE DEF s, size
      <4> QED
        BY <2>5 DEF ShapedRules, Shaped
    <3>2. AreRefs(refs) /\ \A ref \in ToSet(refs) :
            ref.kind = "Backend" /\ \E old \in ToSet(s[n].backends) : ref.name = BackendName(idx, old.name)
      <4> HIDE DEF s
      <4> QED
        BY <3>1, MovedRefs
    <3>3. t[n] = [s[n] EXCEPT !.backends = refs]
      BY <2>6, <2>7
    <3>4. ASSUME NEW old \in ToSet(s[n].backends)
          PROVE  <<current.ns, BackendName(idx, old.name)>> \in DOMAIN backends'
      <4>1. old.name \in services
        BY <2>6, <2>7
      <4>2. keys[old.name] = <<current.ns, BackendName(idx, old.name)>>
        <5> HIDE DEF services
        <5> QED
          BY <4>1
      <4> HIDE DEF services, keys
      <4> QED
        BY <2>3, <4>1, <4>2
    <3> HIDE DEF t, refs, s
    <3>5. Treated(current.ns, DOMAIN backends', s[n], t[n])
      BY <3>1, <3>2, <3>3, <3>4, BackendsTreated
    <3>6. t[n].backends = refs
      BY <3>1, <3>3 DEF Shaped
    <3> QED
      BY <3>2, <3>5, <3>6 DEF AllBackends
  <2>8. ASSUME NEW n \in 1..size
        PROVE  Treated(current.ns, DOMAIN backends', s[n], t[n])
    <3>1. CASE n \in targets
      BY <2>7, <3>1
    <3>2. CASE n \notin targets
      <4>1. t[n] = s[n]
        BY <2>6, <3>2
      <4>2. Shaped(s[n])
        <5> HIDE DEF s, size
        <5> QED
          BY <2>5 DEF ShapedRules
      <4> QED
        BY <4>1, <4>2, UntreatedRule
    <3> QED
      BY <3>1, <3>2
  <2>9. t = [n \in 1..size |-> t[n]]
    BY <2>6
  <2>10. InPlace(current.ns, DOMAIN backends', s, t, size)
    <3> HIDE DEF s, t, size
    <3> QED
      BY <2>8, <2>9 DEF InPlace
  <2>11. RoutesTreated
    <3> HIDE DEF t
    <3> QED
      BY <2>1, <2>4, <2>10, RouteInPlace
  <2>12. Handles({"backendTLS"}, idx) /\ current' = current
    BY <1>1, <1>2, <1>4 DEF Handles, Succeed, Finish, Emits
  <2>13. resources'[current].rules = t
    <3>1. current \in DOMAIN resources /\ "rules" \in DOMAIN resources[current]
      BY <2>4 DEF ResourcesInv, RulesInv
    <3> HIDE DEF t
    <3> QED
      BY <2>1, <3>1
  <2>14. \A n \in 1..size : idx \in {RouteRuleAllIndex, n} => n \in targets
    BY <2>6
  <2> HIDE DEF t, targets
  <2> QED
    BY <2>3, <2>7, <2>11, <2>12, <2>13, <2>14 DEF RuleAt
<1> QED
  BY <1>3, <1>4

(***************************************************************************)
(* Sorting                                                                 *)
(***************************************************************************)
LEMMA OrderIsOnto ==
  ASSUME NEW size \in Nat, NEW order \in SetToSeqs(1..size)
  PROVE  order \in [1..size -> 1..size] /\ \A m \in 1..size : \E n \in 1..size : order[n] = m
PROOF
<1>1. IsFiniteSet(1..size) /\ Cardinality(1..size) = size
  <2>1. 1 \in Int /\ size \in Int
    OBVIOUS
  <2>2. IsFiniteSet(1..size) /\ Cardinality(1..size) = IF 1 > size THEN 0 ELSE size - 1 + 1
    BY <2>1, FS_Interval
  <2> QED
    BY <2>2
<1>2. order \in [1..size -> 1..size] /\ \A i, j \in 1..size : i # j => order[i] # order[j]
  BY <1>1 DEF SetToSeqs
<1>3. order \in Injection(1..size, 1..size)
  BY <1>2 DEF Injection, IsInjective
<1>4. order \in Surjection(1..size, 1..size)
  BY <1>1, <1>3, FS_Injection
<1> QED
  BY <1>2, <1>4 DEF Surjection

LEMMA SortedRefs ==
  ASSUME NEW refs, AreRefs(refs), NEW list \in SortedBackends(refs)
  PROVE  AreRefs(list) /\ ToSet(list) \subseteq ToSet(refs)
PROOF
<1>1. PICK order \in SetToSeqs(DOMAIN refs) : list = [n \in DOMAIN refs |-> refs[order[n]]]
  BY DEF SortedBackends, SortedLists
<1>2. PICK m \in Nat : DOMAIN refs = 1..m
  BY DEF AreRefs
<1>3. order \in [1..m -> 1..m]
  BY <1>1, <1>2, OrderIsOnto
<1> QED
  BY <1>1, <1>2, <1>3 DEF AreRefs, ToSet

\* Gateways keep their listeners, in another order when these are sorted.
GatewaysInv ==
  \A key \in DOMAIN ir : key.kind = "Gateway" =>
    /\ DOMAIN resources[key] = {"features", "class", "listeners"}
    /\ DOMAIN resources[key].listeners = 1..Size(ir[key])
    /\ resources[key].listeners = [n \in 1..Size(ir[key]) |-> resources[key].listeners[n]]
    /\ ToSet(resources[key].listeners) = ToSet(ir[key].listeners)

LEMMA SortTreatsGateway ==
  ASSUME ResourcesInv, RulesInv, GatewaysInv, NEW key \in DOMAIN ir, key.kind = "Gateway", ir' = ir,
         NEW order \in SetToSeqs(DOMAIN resources[key].listeners), NEW listeners,
         listeners = [n \in DOMAIN resources[key].listeners |-> resources[key].listeners[order[n]]],
         resources' = [resources EXCEPT ![key].listeners = listeners]
  PROVE  RoutesTreated /\ GatewaysInv'
PROOF
<1>1. \A k \in DOMAIN ir \ {key} : resources'[k] = resources[k]
  BY DEF ResourcesInv
<1>2. RoutesTreated
  BY <1>1, RulesUntreated DEF RoutesTreated
<1> DEFINE s == resources[key].listeners
           size == Size(ir[key])
<1>3. size \in Nat
  BY SizeOfSections
<1>4. /\ DOMAIN resources[key] = {"features", "class", "listeners"}
      /\ DOMAIN s = 1..size /\ ToSet(s) = ToSet(ir[key].listeners)
  BY DEF GatewaysInv
<1>5. order \in [1..size -> 1..size] /\ \A m \in 1..size : \E n \in 1..size : order[n] = m
  <2> HIDE DEF s, size
  <2>1. order \in SetToSeqs(1..size)
    BY <1>4 DEF s
  <2> QED
    BY <1>3, <2>1, OrderIsOnto
<1>6. /\ DOMAIN listeners = 1..size /\ listeners = [n \in 1..size |-> listeners[n]]
      /\ \A n \in 1..size : listeners[n] = s[order[n]]
  BY <1>4
<1>7. ToSet(listeners) = ToSet(s)
  <2> HIDE DEF s, size
  <2>1. \A n \in 1..size : listeners[n] \in ToSet(s)
    BY <1>4, <1>5, <1>6 DEF ToSet, s
  <2>2. \A m \in 1..size : s[m] \in ToSet(listeners)
    <3> TAKE m \in 1..size
    <3>1. PICK n \in 1..size : order[n] = m
      BY <1>5
    <3> QED
      BY <1>6, <3>1 DEF ToSet
  <2>3. ToSet(s) = {s[m] : m \in 1..size} /\ ToSet(listeners) = {listeners[n] : n \in 1..size}
    BY <1>4, <1>6 DEF ToSet, s
  <2>4. ToSet(listeners) \subseteq ToSet(s)
    BY <2>1, <2>3
  <2>5. ToSet(s) \subseteq ToSet(listeners)
    BY <2>2, <2>3
  <2> QED
    BY <2>4, <2>5
<1>8. /\ DOMAIN resources'[key] = DOMAIN resources[key]
      /\ resources'[key].listeners = listeners
  BY <1>4 DEF ResourcesInv
<1>9. ASSUME NEW k \in DOMAIN ir, k.kind = "Gateway"
      PROVE  /\ DOMAIN resources'[k] = {"features", "class", "listeners"}
             /\ DOMAIN resources'[k].listeners = 1..Size(ir[k])
             /\ resources'[k].listeners = [n \in 1..Size(ir[k]) |-> resources'[k].listeners[n]]
             /\ ToSet(resources'[k].listeners) = ToSet(ir[k].listeners)
  <2>1. CASE k = key
    BY <1>4, <1>6, <1>7, <1>8, <2>1
  <2>2. CASE k # key
    BY <1>1, <1>9, <2>2 DEF GatewaysInv
  <2> QED
    BY <2>1, <2>2
<1> QED
  BY <1>2, <1>9 DEF GatewaysInv

LEMMA SortTreatsRoute ==
  ASSUME ResourcesInv, RulesInv, ~Filling, NEW key \in DOMAIN ir, key.kind # "Gateway",
         NEW order \in SetToSeqs(DOMAIN resources[key].rules), NEW lists, NEW rules,
         rules = [n \in DOMAIN resources[key].rules |->
                    [resources[key].rules[order[n]] EXCEPT !.backends = lists[n]]],
         \A n \in DOMAIN resources[key].rules :
           lists[n] \in SortedBackends(resources[key].rules[order[n]].backends),
         resources' = [resources EXCEPT ![key].rules = rules]
  PROVE  RoutesTreated
PROOF
<1> DEFINE s == resources[key].rules
           size == Size(ir[key])
<1>1. size \in Nat
  BY SizeOfSections
<1>2. ShapedRules(s, size)
  BY DEF RulesInv
<1>3. DOMAIN s = 1..size
  <2> HIDE DEF s, size
  <2> QED
    BY <1>2 DEF ShapedRules
<1>4. order \in [1..size -> 1..size] /\ \A m \in 1..size : \E n \in 1..size : order[n] = m
  <2> HIDE DEF s, size
  <2>1. order \in SetToSeqs(1..size)
    BY <1>3 DEF s
  <2> QED
    BY <1>1, <2>1, OrderIsOnto
<1>5. /\ rules = [n \in 1..size |-> rules[n]]
      /\ \A n \in 1..size : /\ rules[n] = [s[order[n]] EXCEPT !.backends = lists[n]]
                             /\ lists[n] \in SortedBackends(s[order[n]].backends)
  BY <1>3
<1> HIDE DEF s, size
<1>6. ASSUME NEW n \in 1..size
      PROVE  Treated(key.ns, DOMAIN backends', s[order[n]], rules[n])
  <2> DEFINE r == s[order[n]]
  <2>1. Shaped(r) /\ AreRefs(r.backends)
    BY <1>2, <1>4 DEF ShapedRules, Shaped
  <2> HIDE DEF r
  <2>2. AreRefs(lists[n]) /\ ToSet(lists[n]) \subseteq ToSet(r.backends)
    BY <1>5, <2>1, SortedRefs DEF r
  <2>3. rules[n] = [r EXCEPT !.backends = lists[n]]
    BY <1>5 DEF r
  <2>4. Treated(key.ns, DOMAIN backends', r, [r EXCEPT !.backends = lists[n]])
    BY <2>1, <2>2, BackendsTreated
  <2> QED
    BY <2>3, <2>4 DEF r
<1>7. TreatedRules(key.ns, DOMAIN backends', s, rules, size)
  <2>1. \A n \in 1..size : \E m \in 1..size : Treated(key.ns, DOMAIN backends', s[m], rules[n])
    BY <1>4, <1>6
  <2>2. \A m \in 1..size : \E n \in 1..size : Treated(key.ns, DOMAIN backends', s[m], rules[n])
    BY <1>4, <1>6
  <2> QED
    BY <1>5, <2>1, <2>2 DEF TreatedRules
<1> QED
  BY <1>7, RouteOf DEF s, size

\* The order of rules and of their backends changes, nothing else.
LEMMA SortTreats ==
  ASSUME LoopInv, ResourcesInv, RulesInv, GatewaysInv, SortResource
  PROVE  RoutesTreated /\ GatewaysInv' /\ pass' = pass /\ ~Filling
PROOF
<1>1. PICK key \in pending :
        \/ key.kind = "Gateway" /\ \E listeners \in SortedLists(resources[key].listeners, NameBefore) :
             resources' = [resources EXCEPT ![key].listeners = listeners]
        \/ key.kind # "Gateway" /\
             \E ordered \in SortedLists(resources[key].rules, RuleBefore)
                              \union SortedLists(resources[key].rules, GRPCRuleBefore) :
             \E rules \in WithBackends(ordered, SortedBackends) :
               resources' = [resources EXCEPT ![key].rules = rules]
  BY DEF SortResource
<1>2. At({"sort"}) /\ pass' = pass /\ ir' = ir
  BY DEF SortResource
<1>3. key \in DOMAIN ir /\ ~Filling
  BY <1>1, <1>2 DEF LoopInv, At, Filling, Sorting
<1>4. CASE key.kind = "Gateway"
  <2> DEFINE s == resources[key].listeners
  <2>1. PICK listeners \in SortedLists(s, NameBefore) :
          resources' = [resources EXCEPT ![key].listeners = listeners]
    BY <1>1, <1>4
  <2>2. PICK order \in SetToSeqs(DOMAIN s) : listeners = [n \in DOMAIN s |-> s[order[n]]]
    <3> HIDE DEF s
    <3> QED
      BY <2>1 DEF SortedLists
  <2> QED
    BY <1>2, <1>3, <1>4, <2>1, <2>2, SortTreatsGateway
<1>5. CASE key.kind # "Gateway"
  <2> DEFINE s == resources[key].rules
             size == Size(ir[key])
  <2>1. PICK ordered \in SortedLists(s, RuleBefore) \union SortedLists(s, GRPCRuleBefore) :
          \E rules \in WithBackends(ordered, SortedBackends) :
            resources' = [resources EXCEPT ![key].rules = rules]
    BY <1>1, <1>5
  <2>2. PICK rules \in WithBackends(ordered, SortedBackends) :
          resources' = [resources EXCEPT ![key].rules = rules]
    BY <2>1
  <2>3. PICK order \in SetToSeqs(DOMAIN s) : ordered = [n \in DOMAIN s |-> s[order[n]]]
    <3> HIDE DEF s
    <3> QED
      BY <2>1 DEF SortedLists
  <2>4. PICK lists : /\ rules = [n \in DOMAIN ordered |-> [ordered[n] EXCEPT !.backends = lists[n]]]
                     /\ \A n \in DOMAIN ordered : lists[n] \in SortedBackends(ordered[n].backends)
    BY <2>2 DEF WithBackends
  <2>5. /\ rules = [n \in DOMAIN s |-> [s[order[n]] EXCEPT !.backends = lists[n]]]
        /\ \A n \in DOMAIN s : lists[n] \in SortedBackends(s[order[n]].backends)
    <3> HIDE DEF s
    <3> QED
      BY <2>3, <2>4
  <2>6. RoutesTreated
    BY <1>3, <1>5, <2>2, <2>3, <2>5, SortTreatsRoute
  <2>7. \A k \in DOMAIN ir \ {key} : resources'[k] = resources[k]
    BY <1>3, <2>2 DEF ResourcesInv
  <2>8. GatewaysInv'
    BY <1>2, <1>5, <2>7 DEF GatewaysInv
  <2> QED
    BY <1>2, <1>3, <2>6, <2>8
<1> QED
  BY <1>4, <1>5

(***************************************************************************)
(* What a step does to rules and listeners                                 *)
(***************************************************************************)
\* A step leaves Gateways as they are.
LEMMA GatewaysStay ==
  ASSUME GatewaysInv, ir' = ir,
         \A key \in DOMAIN ir : key.kind = "Gateway" =>
           /\ DOMAIN resources'[key] = DOMAIN resources[key]
           /\ resources'[key].listeners = resources[key].listeners
  PROVE  GatewaysInv'
  BY DEF GatewaysInv

\* Visiting a resource changes neither its rules nor its listeners.
LEMMA VisitTreats ==
  ASSUME LoopInv, ResourcesInv, RulesInv, GatewaysInv, VisitResource
  PROVE  RoutesTreated /\ GatewaysInv'
PROOF
<1>1. PICK visited : Visits(visited)
  BY VisitOfResource
<1>2. PICK features : resources' = [resources EXCEPT ![visited].features = features]
  BY <1>1 DEF Visits
<1>3. ASSUME NEW key \in DOMAIN ir
      PROVE  resources'[key] = [resources[key] EXCEPT !.features = features]
             \/ resources'[key] = resources[key]
  BY <1>2 DEF ResourcesInv
<1>4. ASSUME NEW key \in DOMAIN ir, key.kind # "Gateway"
      PROVE  RouteTreated(key)
  <2>1. DOMAIN resources[key] = {"features", "parentRefs", "rules"}
    BY <1>4 DEF RulesInv
  <2>2. /\ DOMAIN resources'[key] = DOMAIN resources[key]
        /\ resources'[key].parentRefs = resources[key].parentRefs
        /\ resources'[key].rules = resources[key].rules
    BY <1>3, <2>1
  <2> QED
    BY <1>4, <2>2, RulesUntreated
<1>5. ASSUME NEW key \in DOMAIN ir, key.kind = "Gateway"
      PROVE  /\ DOMAIN resources'[key] = DOMAIN resources[key]
             /\ resources'[key].listeners = resources[key].listeners
  <2>1. DOMAIN resources[key] = {"features", "class", "listeners"}
    BY <1>5 DEF GatewaysInv
  <2> QED
    BY <1>3, <2>1
<1> QED
  BY <1>1, <1>4, <1>5, GatewaysStay DEF RoutesTreated, Visits

\* The passes over routes change no Gateway.
LEMMA PassesOverRoutes ==
  ASSUME LoopInv, ResourcesInv, GatewaysInv,
         RemoveBackendRefsDuplicates \/ EmitRegex \/ EmitRewrite \/ EmitRedirect \/ EmitBackendTLS
  PROVE  GatewaysInv'
PROOF
<1>1. CASE RemoveBackendRefsDuplicates
  <2>1. PICK key \in pending : \E rules : resources' = [resources EXCEPT ![key].rules = rules]
    BY <1>1 DEF RemoveBackendRefsDuplicates
  <2>2. ir' = ir /\ pass \in DOMAIN Passes /\ Passes[pass][1] = "duplicates"
    BY <1>1 DEF RemoveBackendRefsDuplicates, At
  <2>3. \A n \in DOMAIN Passes : Passes[n][1] = "duplicates" => Passes[n][2] = "HTTPRoute"
    BY DEF Passes
  <2>4. key.kind # "Gateway"
    BY <2>2, <2>3 DEF LoopInv
  <2> QED
    BY <2>1, <2>2, <2>4, GatewaysStay DEF ResourcesInv
<1>2. CASE EmitRegex \/ EmitRewrite \/ EmitRedirect \/ EmitBackendTLS
  <2>1. ir' = ir
    BY <1>2 DEF EmitRegex, EmitRewrite, EmitRedirect, EmitBackendTLS
  <2>2. At(Features \ {"mTLS"}) /\ \E any \in todo : TRUE
    BY <1>2 DEF EmitRegex, EmitRewrite, EmitRedirect, EmitBackendTLS, Emits, At, Features, MergedFeatures
  <2>3. current.kind # "Gateway"
    BY <2>2, AtRoute
  <2>4. \A key \in DOMAIN ir : key # current => resources'[key] = resources[key]
    <3>1. CASE EmitRegex
      BY <3>1 DEF EmitRegex, ResourcesInv
    <3>2. CASE EmitRewrite
      BY <3>2 DEF EmitRewrite, ResourcesInv
    <3>3. CASE EmitRedirect
      BY <3>3 DEF EmitRedirect, ResourcesInv
    <3>4. CASE EmitBackendTLS
      BY <3>4 DEF EmitBackendTLS, ResourcesInv
    <3> QED
      BY <1>2, <3>1, <3>2, <3>3, <3>4
  <2> QED
    BY <2>1, <2>3, <2>4, GatewaysStay
<1> QED
  BY <1>1, <1>2

LEMMA RulesStep ==
  ASSUME LoopInv, ResourcesInv, RulesInv, GatewaysInv, [Next]_vars
  PROVE  RoutesTreated /\ GatewaysInv' /\ DOMAIN backends \subseteq DOMAIN backends'
PROOF
<1>1. CASE VisitResource
  BY <1>1, VisitTreats DEF VisitResource, outputs
<1>2. CASE RemoveBackendRefsDuplicates
  BY <1>2, DuplicatesTreats, PassesOverRoutes DEF RemoveBackendRefsDuplicates, outputs
<1>3. CASE EmitRegex
  BY <1>3, RegexTreats, PassesOverRoutes DEF EmitRegex, outputs
<1>4. CASE EmitRewrite
  BY <1>4, RewriteTreats, PassesOverRoutes DEF EmitRewrite
<1>5. CASE EmitRedirect
  BY <1>5, RedirectTreats, PassesOverRoutes DEF EmitRedirect, outputs
<1>6. CASE EmitBackendTLS
  BY <1>6, BackendTLSTreats, PassesOverRoutes
<1>7. CASE SortResource
  BY <1>7, SortTreats DEF SortResource, outputs
<1>8. CASE NextPass \/ AlreadyParsed \/ EmitPolicy \/ EmitMTLS \/ CheckConvertExtensionFeatures
           \/ EmissionEnded \/ UNCHANGED vars
  <2>1. resources' = resources /\ backends' = backends /\ ir' = ir
    BY <1>8 DEF NextPass, AlreadyParsed, EmitPolicy, EmitMTLS, CheckConvertExtensionFeatures,
                EmissionEnded, vars, outputs
  <2> QED
    BY <2>1, RulesUntreated, GatewaysStay DEF RoutesTreated
<1> QED
  BY <1>1, <1>2, <1>3, <1>4, <1>5, <1>6, <1>7, <1>8 DEF Next

LEMMA RulesInvStep ==
  ASSUME LoopInv, ResourcesInv, RulesInv, GatewaysInv, [Next]_vars
  PROVE  RulesInv'
PROOF
<1> SUFFICES ASSUME NEW key \in DOMAIN ir, key.kind # "Gateway"
             PROVE  /\ DOMAIN resources'[key] = {"features", "parentRefs", "rules"}
                    /\ resources'[key].parentRefs = ir[key].parentRefs
                    /\ ShapedRules(resources'[key].rules, Size(ir[key]))
                    /\ Filling' => \A n \in 1..Size(ir[key]) : resources'[key].rules[n].from = n
  BY StepOfLoops DEF RulesInv
<1> DEFINE old == resources[key].rules
           new == resources'[key].rules
           size == Size(ir[key])
<1>1. RouteTreated(key)
  BY RulesStep DEF RoutesTreated
<1>2. ShapedRules(old, size) /\ (Filling => \A n \in 1..size : old[n].from = n)
  BY DEF RulesInv
<1>3. ShapedRules(new, size)
  <2>1. TreatedRules(key.ns, DOMAIN backends', old, new, size)
    BY <1>1 DEF RouteTreated
  <2> HIDE DEF old, new, size
  <2> QED
    BY <1>2, <2>1, StillShaped
<1>4. Filling' => \A n \in 1..size : new[n].from = n
  <2>1. Filling => InPlace(key.ns, DOMAIN backends', old, new, size)
    BY <1>1 DEF RouteTreated
  <2> HIDE DEF old, new, size
  <2> QED
    BY <1>2, <2>1, FillingBefore DEF InPlace, Treated
<1> QED
  BY <1>1, <1>3, <1>4 DEF RouteTreated, RulesInv

LEMMA LoadedRules ==
  ASSUME Init
  PROVE  RulesInv /\ GatewaysInv
PROOF
<1>1. /\ ir \in EmitterIRs /\ resources = [key \in DOMAIN ir |-> Loaded(key, ir[key])]
  BY DEF Init
<1>2. ASSUME NEW key \in DOMAIN ir, key.kind # "Gateway"
      PROVE  /\ DOMAIN resources[key] = {"features", "parentRefs", "rules"}
             /\ resources[key].parentRefs = ir[key].parentRefs
             /\ ShapedRules(resources[key].rules, Size(ir[key]))
             /\ \A n \in 1..Size(ir[key]) : resources[key].rules[n].from = n
  <2> DEFINE s == ir[key].rules
             t == WithFrom(s)
             size == Size(ir[key])
  <2>1. /\ DOMAIN ir[key] = {"features", "parentRefs", "rules"}
        /\ IsList(s) /\ \A n \in DOMAIN s : IsRule(s[n])
    <3>1. IsResource(key, ir[key])
      BY <1>1, EmitterIRsAssumption
    <3>2. DOMAIN ir[key] = {"features", "parentRefs", "rules"} /\ \A n \in DOMAIN s : IsRule(s[n])
      BY <1>2, <3>1 DEF IsResource
    <3>3. IsSections(s)
      BY <1>2, <3>1 DEF IsResource
    <3> QED
      BY <3>2, <3>3 DEF IsSections
  <2>2. resources[key] = [ir[key] EXCEPT !.rules = t]
    BY <1>1, <1>2 DEF Loaded
  <2>3. /\ DOMAIN resources[key] = {"features", "parentRefs", "rules"}
        /\ resources[key].parentRefs = ir[key].parentRefs /\ resources[key].rules = t
    <3> HIDE DEF t
    <3> QED
      BY <2>1, <2>2
  <2>4. size = Len(s) /\ DOMAIN s = 1..size /\ size \in Nat
    BY <2>1 DEF Size, IsList
  <2>5. ASSUME NEW n \in 1..size
        PROVE  Shaped(t[n]) /\ t[n].from = n
    <3> DEFINE r == s[n]
               q == Put(r, "from", n)
    <3>1. t[n] = q
      BY <2>4 DEF WithFrom
    <3>2. IsRule(r)
      BY <2>1, <2>4
    <3> HIDE DEF r
    <3>3. /\ DOMAIN q = DOMAIN r \union {"from"} /\ q.from = n
          /\ \A k \in DOMAIN r : k # "from" => q[k] = r[k]
      BY DEF Put
    <3> HIDE DEF q
    <3>4. q.path = r.path /\ q.filters = r.filters /\ q.backends = r.backends
      BY <3>2, <3>3 DEF IsRule
    <3>5. AreRefs(r.backends)
      BY <3>2 DEF AreRefs, IsRule, IsList, IsBackendRef
    <3> QED
      BY <3>1, <3>2, <3>3, <3>4, <3>5 DEF Shaped, IsRule
  <2>6. t = [n \in 1..size |-> t[n]]
    BY <2>4 DEF WithFrom
  <2>7. ShapedRules(t, size)
    <3> HIDE DEF t, size
    <3> QED
      BY <2>5, <2>6 DEF ShapedRules
  <2> HIDE DEF t
  <2> QED
    BY <2>3, <2>5, <2>7
<1>3. ASSUME NEW key \in DOMAIN ir, key.kind = "Gateway"
      PROVE  /\ DOMAIN resources[key] = {"features", "class", "listeners"}
             /\ DOMAIN resources[key].listeners = 1..Size(ir[key])
             /\ resources[key].listeners = [n \in 1..Size(ir[key]) |-> resources[key].listeners[n]]
             /\ ToSet(resources[key].listeners) = ToSet(ir[key].listeners)
  <2> DEFINE s == ir[key].listeners
             size == Size(ir[key])
  <2>1. DOMAIN ir[key] = {"features", "class", "listeners"} /\ IsList(s)
    BY <1>1, <1>3, EmitterIRsAssumption DEF IsResource, IsSections
  <2>2. resources[key] = [ir[key] EXCEPT !.class = <<"eg">>]
    BY <1>1, <1>3 DEF Loaded
  <2>3. DOMAIN resources[key] = {"features", "class", "listeners"} /\ resources[key].listeners = s
    BY <2>1, <2>2
  <2>4. DOMAIN s = 1..size /\ s = [n \in 1..size |-> s[n]]
    BY <2>1 DEF Size, IsList
  <2> QED
    BY <2>3, <2>4
<1> QED
  BY <1>2, <1>3 DEF RulesInv, GatewaysInv

-------------------------------------------------------------------------------
(***************************************************************************)
(* Types                                                                   *)
(***************************************************************************)
\* What the theorem assumes of the IR: the providers make no reference to a
\* Backend, the emitter alone does.
NoBackendsLoaded ==
  \A key \in DOMAIN ir : key.kind # "Gateway" =>
    \A rule \in ToSet(ir[key].rules) : \A ref \in ToSet(rule.backends) : ref.kind # "Backend"

CurrentInv == current \in DOMAIN ir \union {Nothing}

\* Whatever policies are called, one is for a resource of its own namespace.
IsTargeted(p, policy) ==
  /\ DOMAIN policy = {"target", "section", "spec"}
  /\ policy.target \in DOMAIN ir /\ policy.target.ns = p[2]
  /\ DOMAIN policy.spec \subseteq FieldsOfPolicy[p[1]]
  /\ policy.section \in {<<>>} \union {s.name : s \in ToSet(Sections(policy.target))}

TargetsInv == \A p \in DOMAIN policies : IsTargeted(p, policies[p])

\* Every Backend that the rules of a route refer to has been built.
BackendsInv ==
  \A key \in DOMAIN ir : key.kind # "Gateway" =>
    \A n \in 1..Size(ir[key]) : \A ref \in ToSet(resources[key].rules[n].backends) :
      ref.kind = "Backend" => <<key.ns, ref.name>> \in DOMAIN backends

LEMMA CurrentStep ==
  ASSUME LoopInv, ResourcesInv, CurrentInv, [Next]_vars
  PROVE  CurrentInv'
PROOF
<1>1. ir' = ir
  BY StepOfLoops
<1>2. CASE NextPass
  BY <1>1, <1>2 DEF NextPass, CurrentInv
<1>3. CASE VisitResource
  BY <1>1, <1>3, VisitOfResource DEF Visits, CurrentInv
<1>4. CASE ~NextPass /\ ~VisitResource
  <2>1. current' = current
    BY <1>4 DEF Next, vars, loop, AlreadyParsed, RemoveBackendRefsDuplicates, EmitRegex, EmitRewrite,
                EmitRedirect, EmitPolicy, EmitMTLS, EmitBackendTLS, SortResource,
                CheckConvertExtensionFeatures, EmissionEnded, Panic, Succeed, Skip, Finish
  <2> QED
    BY <1>1, <2>1 DEF CurrentInv
<1> QED
  BY <1>2, <1>3, <1>4

LEMMA FieldOfPolicy ==
  ASSUME NEW f \in PolicyFeatures
  PROVE  f \in FieldsOfPolicy[KindOfPolicy(f)]
PROOF
<1>1. CASE f \in {"basicAuth", "externalAuth", "ipRange", "cors"}
  BY <1>1 DEF KindOfPolicy, FieldsOfPolicy
<1>2. CASE f \in {"rateLimit", "proxyBuffer", "timeOut", "retry", "affinity"}
  BY <1>2 DEF KindOfPolicy, FieldsOfPolicy
<1>3. CASE f = "mTLS"
  BY <1>3 DEF KindOfPolicy, FieldsOfPolicy
<1> QED
  BY <1>1, <1>2, <1>3 DEF PolicyFeatures, OfRoutePolicies

LEMMA TargetsStep ==
  ASSUME LoopInv, ResourcesInv, TargetsInv, [Next]_vars
  PROVE  TargetsInv'
PROOF
<1>1. ir' = ir
  BY StepOfLoops
<1>2. CASE UNCHANGED policies
  BY <1>1, <1>2 DEF TargetsInv, IsTargeted, Sections
<1>3. CASE \E idx : Sets(idx)
  <2>1. PICK idx : Sets(idx)
    BY <1>3
  <2> DEFINE p      == PolicyKey(Feature, idx)
             policy == GetOrBuild(p, idx)
  <2>2. PICK setting : policies' = Put(policies, p, [policy EXCEPT !.spec = Put(policy.spec, Feature, setting)])
    BY <2>1 DEF Sets, WithSetting
  <2>3. idx \in todo /\ Feature \in PolicyFeatures /\ Filling
    <3>1. pass \in DOMAIN Passes /\ idx \in todo /\ Feature \in PolicyFeatures
      BY <2>1 DEF Sets
    <3>2. At(Features)
      BY <3>1, FeatureNames DEF At, Feature
    <3> QED
      BY <3>1, <3>2, FillingAt
  <2>4. /\ current \in DOMAIN ir /\ Kept(current, resources[current], ir[current])
        /\ p[1] = KindOfPolicy(Feature) /\ p[2] = current.ns
    BY <2>3, AtResource DEF PolicyKey
  <2>5. IsTargeted(p, policy)
    <3>1. CASE p \in DOMAIN policies
      BY <3>1 DEF GetOrBuild, TargetsInv
    <3>2. CASE p \notin DOMAIN policies
      <4>1. policy = [target |-> current, section |-> Section(idx), spec |-> EmptyMap]
        BY <3>2 DEF GetOrBuild
      <4>2. Section(idx) \in {<<>>} \union {s.name : s \in ToSet(Sections(current))}
        <5> DEFINE s  == SectionsOf(current, resources[current])
                   s0 == SectionsOf(current, ir[current])
        <5>1. Sections(current) = s0 /\ SameNames(s, s0)
          BY <2>4, SizeOfSections DEF Kept
        <5>2. DOMAIN s = DOMAIN s0 /\ (idx \in DOMAIN s0 => s[idx].name = s0[idx].name)
          BY <5>1 DEF SameNames
        <5>3. Section(idx) = IF idx \in DOMAIN s THEN s[idx].name ELSE <<>>
          BY DEF Section, SectionsOf, Resource
        <5> HIDE DEF s, s0
        <5> QED
          BY <5>1, <5>2, <5>3 DEF ToSet
      <4>3. /\ DOMAIN policy = {"target", "section", "spec"} /\ policy.target = current
            /\ policy.section = Section(idx) /\ DOMAIN policy.spec = {}
        BY <4>1 DEF EmptyMap
      <4> HIDE DEF p, policy
      <4> QED
        BY <2>4, <4>2, <4>3 DEF IsTargeted
    <3> QED
      BY <3>1, <3>2
  <2>6. Feature \in FieldsOfPolicy[p[1]]
    BY <2>3, <2>4, FieldOfPolicy
  <2>7. PICK f : f = Feature
    OBVIOUS
  <2> HIDE DEF p, policy
  <2> DEFINE q == [policy EXCEPT !.spec = Put(policy.spec, f, setting)]
  <2>8. IsTargeted(p, q)
    <3>1. /\ DOMAIN q = DOMAIN policy /\ q.target = policy.target /\ q.section = policy.section
          /\ q.spec = Put(policy.spec, f, setting)
      BY <2>5 DEF IsTargeted
    <3>2. DOMAIN q.spec = DOMAIN policy.spec \union {f}
      BY <3>1 DEF Put
    <3> HIDE DEF q
    <3> QED
      BY <2>5, <2>6, <2>7, <3>1, <3>2 DEF IsTargeted
  <2>9. /\ DOMAIN policies' = DOMAIN policies \union {p} /\ policies'[p] = q
        /\ \A other \in DOMAIN policies : other # p => policies'[other] = policies[other]
    <3>1. policies' = Put(policies, p, q)
      BY <2>2, <2>7
    <3> HIDE DEF q
    <3> QED
      BY <3>1 DEF Put
  <2> HIDE DEF q
  <2>10. \A other \in DOMAIN policies' : IsTargeted(other, policies'[other])
    BY <2>8, <2>9 DEF TargetsInv
  <2> QED
    BY <1>1, <2>10 DEF TargetsInv, IsTargeted, Sections
<1> QED
  BY <1>2, <1>3, PolicyStep

LEMMA BackendsStep ==
  ASSUME LoopInv, ResourcesInv, RulesInv, GatewaysInv, BackendsInv, [Next]_vars
  PROVE  BackendsInv'
PROOF
<1>1. ir' = ir /\ RoutesTreated /\ DOMAIN backends \subseteq DOMAIN backends'
  BY StepOfLoops, RulesStep
<1>2. ASSUME NEW key \in DOMAIN ir, key.kind # "Gateway", NEW n \in 1..Size(ir[key]),
             NEW ref \in ToSet(resources'[key].rules[n].backends), ref.kind = "Backend"
      PROVE  <<key.ns, ref.name>> \in DOMAIN backends'
  <2>1. PICK m \in 1..Size(ir[key]) :
          Treated(key.ns, DOMAIN backends', resources[key].rules[m], resources'[key].rules[n])
    BY <1>1, <1>2 DEF RoutesTreated, RouteTreated, TreatedRules
  <2>2. CASE <<key.ns, ref.name>> \in DOMAIN backends'
    BY <2>2
  <2>3. CASE IsBackend(resources[key].rules[m].backends, ref.name)
    BY <1>1, <1>2, <2>3 DEF IsBackend, BackendsInv
  <2> QED
    BY <1>2, <2>1, <2>2, <2>3 DEF Treated
<1> QED
  BY <1>1, <1>2 DEF BackendsInv

LEMMA SizesKept ==
  ASSUME ResourcesInv, RulesInv, GatewaysInv, NEW key \in DOMAIN ir
  PROVE  Size(resources[key]) = Size(ir[key])
PROOF
<1> DEFINE s == SectionsOf(key, resources[key])
           size == Size(ir[key])
           T == {s[n] : n \in 1..size}
<1>1. size \in Nat
  BY SizeOfSections
<1>2. s = [n \in 1..size |-> s[n]] /\ Size(resources[key]) = Len(s)
  <2>1. CASE key.kind = "Gateway"
    BY <2>1 DEF GatewaysInv, SectionsOf, Size
  <2>2. CASE key.kind # "Gateway"
    BY <2>2 DEF RulesInv, ShapedRules, SectionsOf, Size
  <2> QED
    BY <2>1, <2>2
<1>3. Len(s) = size
  <2> HIDE DEF s, size
  <2>1. s \in [1..size -> T]
    BY <1>2
  <2> HIDE DEF T
  <2>2. s \in Seq(T)
    BY <1>1, <2>1
  <2> QED
    BY <1>1, <2>1, <2>2
<1> QED
  BY <1>2, <1>3

TypeInv ==
  /\ LoopInv /\ ResourcesInv /\ RulesInv /\ GatewaysInv
  /\ CurrentInv /\ TargetsInv /\ (NoBackendsLoaded => BackendsInv)

LEMMA TypeInvImplies ==
  ASSUME TypeInv, NoBackendsLoaded
  PROVE  EmitterTypeOK
PROOF
<1>1. /\ pass \in Panicked..Ended /\ DOMAIN resources = DOMAIN ir
      /\ pending \subseteq DOMAIN ir /\ current \in DOMAIN ir \union {Nothing}
  BY DEF TypeInv, LoopInv, ResourcesInv, CurrentInv
<1>2. \A key \in DOMAIN ir : Size(resources[key]) = Size(ir[key])
  BY SizesKept DEF TypeInv
<1>3. \A p \in DOMAIN policies :
        LET policy == policies[p]
        IN  /\ policy.target \in DOMAIN ir /\ policy.target.ns = p[2]
            /\ DOMAIN policy.spec \subseteq FieldsOfPolicy[p[1]]
            /\ policy.section \in {<<>>} \union {s.name : s \in ToSet(Sections(policy.target))}
  BY DEF TypeInv, TargetsInv, IsTargeted
<1>4. ASSUME NEW key \in DOMAIN ir, key.kind # "Gateway", NEW rule \in ToSet(resources[key].rules),
             NEW ref \in ToSet(rule.backends), ref.kind = "Backend"
      PROVE  <<key.ns, ref.name>> \in DOMAIN backends
  <2>1. PICK n \in 1..Size(ir[key]) : rule = resources[key].rules[n]
    <3> DEFINE s == resources[key].rules
               size == Size(ir[key])
    <3>1. ShapedRules(s, size)
      BY <1>4 DEF TypeInv, RulesInv
    <3>2. DOMAIN s = 1..size
      <4> HIDE DEF s, size
      <4> QED
        BY <3>1 DEF ShapedRules
    <3> QED
      BY <1>4, <3>2 DEF ToSet
  <2> QED
    BY <1>4, <2>1 DEF TypeInv, BackendsInv
<1> QED
  BY <1>1, <1>2, <1>3, <1>4 DEF EmitterTypeOK

LEMMA TypesAtTheStart ==
  ASSUME Init
  PROVE  TypeInv
PROOF
<1>1. LoopInv /\ ResourcesInv /\ RulesInv /\ GatewaysInv
  BY AtTheStart, LoadedRules
<1>2. CurrentInv /\ TargetsInv
  BY DEF Init, CurrentInv, TargetsInv, EmptyMap
<1>3. ASSUME NoBackendsLoaded, NEW key \in DOMAIN ir, key.kind # "Gateway", NEW n \in 1..Size(ir[key]),
             NEW ref \in ToSet(resources[key].rules[n].backends)
      PROVE  ref.kind # "Backend"
  <2> DEFINE s == ir[key].rules
  <2>1. "rules" \in DOMAIN ir[key] /\ DOMAIN s = 1..Size(ir[key]) /\ IsRule(s[n])
    <3>1. Sections(key) = s /\ IsResource(key, ir[key]) /\ DOMAIN Sections(key) = 1..Size(ir[key])
      BY <1>1, <1>3, SizeOfSections DEF Sections
    <3> QED
      BY <1>3, <3>1 DEF IsResource
  <2>2. resources[key].rules = WithFrom(s)
    <3>1. resources[key] = [ir[key] EXCEPT !.rules = WithFrom(@)]
      BY <1>3 DEF Init, Loaded
    <3> QED
      BY <2>1, <3>1
  <2>3. resources[key].rules[n] = Put(s[n], "from", n)
    BY <2>1, <2>2 DEF WithFrom
  <2>4. resources[key].rules[n].backends = s[n].backends
    BY <2>1, <2>3 DEF Put, IsRule
  <2> QED
    BY <1>3, <2>1, <2>4 DEF NoBackendsLoaded, ToSet
<1> QED
  BY <1>1, <1>2, <1>3 DEF TypeInv, BackendsInv

\* Whatever the emitter IR, the passes keep resources, rules and listeners; a
\* policy is for a resource of its namespace and a section of it, and sets what
\* policies of its kind can set; and if no reference of the IR was to a Backend,
\* every Backend a rule refers to is there, at any time, also after a panic.
THEOREM EmitterTypesHold == Spec => [](NoBackendsLoaded => EmitterTypeOK)
PROOF
<1>1. Init => TypeInv
  BY TypesAtTheStart
<1>2. TypeInv /\ [Next]_vars => TypeInv'
  <2> SUFFICES ASSUME TypeInv, [Next]_vars
               PROVE  TypeInv'
    OBVIOUS
  <2>1. LoopInv' /\ ResourcesInv' /\ RulesInv' /\ GatewaysInv' /\ CurrentInv' /\ TargetsInv'
    BY LoopStep, ResourcesInvStep, RulesInvStep, RulesStep, CurrentStep, TargetsStep DEF TypeInv
  <2>2. NoBackendsLoaded' => BackendsInv'
    <3>1. NoBackendsLoaded' => NoBackendsLoaded
      BY StepOfLoops DEF NoBackendsLoaded
    <3> QED
      BY <3>1, BackendsStep DEF TypeInv
  <2> QED
    BY <2>1, <2>2 DEF TypeInv
<1>3. TypeInv => (NoBackendsLoaded => EmitterTypeOK)
  BY TypeInvImplies
<1> QED
  BY <1>1, <1>2, <1>3, PTL DEF Spec

-------------------------------------------------------------------------------
(***************************************************************************)
(* No feature is lost                                                      *)
(***************************************************************************)
\* What the theorem assumes of the IR: no two features of a resource are one IR.
IdsApart ==
  \A key \in DOMAIN ir : \A at, x \in DOMAIN ir[key].features :
    ir[key].features[at].id = ir[key].features[x].id => at = x

\* The resources the property speaks of.
Eligible(key) == key \in DOMAIN ir /\ InRange(key) /\ Unshared(key)

(***************************************************************************)
(* The invariant.  Merging keeps some of the loaded IRs, so that IRs stay  *)
(* apart; an IR counts as parsed only when its pass has converted it; and  *)
(* what has been visited for a feature is converted, reported, or to be    *)
(* converted before the visit ends.                                        *)
(***************************************************************************)
IdsKept(fs, fs0) ==
  /\ \A at \in DOMAIN fs : \E x \in DOMAIN fs0 : x[1] = at[1] /\ fs[at].id = fs0[x].id
  /\ \A at, x \in DOMAIN fs : fs[at].id = fs[x].id => at = x

IdsInv == Filling => \A key \in DOMAIN ir : IdsKept(resources[key].features, ir[key].features)

ParsedInv ==
  Filling => \A key \in DOMAIN ir : Eligible(key) =>
    \A at \in DOMAIN resources[key].features :
      resources[key].features[at].id \in parsed => Done(at[1], key, at[2])

\* What EveryFeatureConverted asks of the rule.
RuleGot(f, rule) ==
  CASE f = "regex"      -> MatchesPattern(rule)
    [] f = "rewrite"    -> FilterTypes(rule) \cap {"URLRewrite", "ExtensionRef"} # {}
    [] f = "redirect"   -> "RequestRedirect" \in FilterTypes(rule)
    [] f = "backendTLS" -> AllBackends(rule)

OfRules == {"regex", "rewrite", "redirect", "backendTLS"}

\* No redirect is asked for, by the IR that was loaded.
NothingToRedirect(key, fields) ==
  /\ "url" \notin DOMAIN fields /\ ir[key].parentRefs # <<>>
  /\ ~ /\ "force" \in DOMAIN fields
       /\ \/ fields.force
          \/ LET gateway == [kind |-> "Gateway", ns |-> key.ns, name |-> ir[key].parentRefs[1]]
             IN  gateway \in DOMAIN ir /\ \E l \in ToSet(ir[gateway].listeners) : l.protocol = "HTTPS"

InPolicy(key, f, n) ==
  \E p \in DOMAIN policies :
    /\ Covers(policies[p], key, n)
    /\ f \in DOMAIN policies[p].spec /\ (f = "retry" => policies[p].spec[f] # EmptyMap)

InRules(key, f, n) ==
  \A m \in 1..Size(ir[key]) : resources[key].rules[m].from = n => RuleGot(f, resources[key].rules[m])

WasReported(key, f, n) == \E idx \in {n, RouteRuleAllIndex} : <<key, f, idx>> \in reported

Answered(key, f, n) ==
  \/ f \in PolicyFeatures /\ InPolicy(key, f, n)
  \/ f \in OfRules /\ InRules(key, f, n)
  \/ f = "redirect" /\ NothingToRedirect(key, ir[key].features[<<f, n>>].fields)
  \/ WasReported(key, f, n)

\* The visit of the resource has still to convert the feature of the rule.
Due(key, f, n) ==
  /\ key = current /\ pass \in DOMAIN Passes /\ Passes[pass] = <<f, key.kind>>
  /\ \E idx \in todo : idx \in {RouteRuleAllIndex, n}

AnsweredInv ==
  pass # Panicked => \A key \in DOMAIN ir : Eligible(key) =>
    \A at \in DOMAIN ir[key].features :
      at[1] \in Visited(key) => Answered(key, at[1], at[2]) \/ Due(key, at[1], at[2])

(***************************************************************************)
(* IRs stay apart                                                          *)
(***************************************************************************)
LEMMA MergedIds ==
  ASSUME NEW fs, NEW fs0, NEW f, NEW size, NEW I, IndexedBy(fs, I), IdsKept(fs, fs0),
         NEW merged \in MergeExtensionFeature(fs, f, size)
  PROVE  /\ IdsKept(merged, fs0)
         /\ \A at \in DOMAIN merged : \E x \in DOMAIN fs :
              x[1] = at[1] /\ merged[at].id = fs[x].id /\ (at[1] # f => x = at)
PROOF
<1>1. CASE ~Mergeable(fs, f, size)
  BY <1>1 DEF MergeExtensionFeature
<1>2. CASE Mergeable(fs, f, size)
  <2>1. PICK m \in IndicesOf(fs, f) : merged = Merged(fs, f, fs[<<f, m>>])
    BY <1>2 DEF MergeExtensionFeature
  <2>2. <<f, m>> \in DOMAIN fs
    <3>1. PICK at \in DOMAIN fs : at[1] = f /\ at[2] = m
      BY <2>1 DEF IndicesOf
    <3> QED
      BY <3>1 DEF IndexedBy
  <2> DEFINE all == <<f, RouteRuleAllIndex>>
  <2>3. all[1] = f /\ <<f, m>>[1] = f
    OBVIOUS
  <2>4. \A at \in DOMAIN merged : \/ at = all /\ merged[at] = fs[<<f, m>>]
                                  \/ at[1] # f /\ at \in DOMAIN fs /\ merged[at] = fs[at]
    BY <2>1, <2>3 DEF Merged
  <2> HIDE DEF all
  <2>5. ASSUME NEW at \in DOMAIN merged
        PROVE  \E x \in DOMAIN fs : x[1] = at[1] /\ merged[at].id = fs[x].id /\ (at[1] # f => x = at)
    BY <2>2, <2>3, <2>4
  <2>6. ASSUME NEW at \in DOMAIN merged, NEW x \in DOMAIN merged, merged[at].id = merged[x].id
        PROVE  at = x
    BY <2>2, <2>3, <2>4, <2>6 DEF IdsKept
  <2>7. IdsKept(merged, fs0)
    BY <2>5, <2>6 DEF IdsKept
  <2> QED
    BY <2>5, <2>7
<1> QED
  BY <1>1, <1>2

\* A visit keeps the IRs of other features.
LEMMA IdsVisited ==
  ASSUME LoopInv, ResourcesInv, IdsInv, NEW key, Visits(key), Filling
  PROVE  LET fs == resources[key].features
             new == resources'[key].features
         IN  /\ IdsKept(new, ir[key].features)
             /\ \A at \in DOMAIN new : \E x \in DOMAIN fs :
                  x[1] = at[1] /\ new[at].id = fs[x].id /\ (at[1] # Feature => x = at)
PROOF
<1> DEFINE fs == resources[key].features
           new == resources'[key].features
<1>1. IdsKept(fs, ir[key].features) /\ IndexedBy(fs, Indices(key))
  BY DEF IdsInv, Visits, ResourcesInv, Faithful
<1>2. CASE new = fs
  BY <1>1, <1>2
<1>3. CASE new \in MergeExtensionFeature(fs, Feature, Size(resources[key]))
  <2> HIDE DEF fs, new
  <2> QED
    BY <1>1, <1>3, MergedIds DEF fs, new
<1> QED
  BY <1>2, <1>3 DEF Visits

LEMMA IdsStep ==
  ASSUME LoopInv, ResourcesInv, IdsInv, [Next]_vars
  PROVE  IdsInv'
PROOF
<1>1. ir' = ir
  BY StepOfLoops
<1> SUFFICES ASSUME Filling', NEW key \in DOMAIN ir
             PROVE  IdsKept(resources'[key].features, ir[key].features)
  BY <1>1 DEF IdsInv
<1>2. Filling
  BY FillingBefore
<1>3. IdsKept(resources[key].features, ir[key].features)
  BY <1>2 DEF IdsInv
<1>4. CASE resources'[key].features = resources[key].features
  BY <1>3, <1>4
<1>5. CASE resources'[key].features # resources[key].features
  <2>1. VisitResource
    BY <1>2, <1>5, ResourcesStep DEF Refilled, ResourcesInv
  <2>2. PICK visited : Visits(visited)
    BY <2>1, VisitOfResource
  <2>3. visited = key
    BY <1>5, <2>2 DEF Visits, ResourcesInv
  <2> QED
    BY <1>2, <2>2, <2>3, IdsVisited
<1> QED
  BY <1>4, <1>5

LEMMA IdsAtTheStart ==
  ASSUME Init, IdsApart
  PROVE  IdsInv
PROOF
<1> SUFFICES ASSUME NEW key \in DOMAIN ir
             PROVE  IdsKept(resources[key].features, ir[key].features)
  BY DEF IdsInv
<1>1. resources[key].features = ir[key].features
  <2>1. IsResource(key, ir[key]) /\ resources[key] = Loaded(key, ir[key])
    BY EmitterIRsAssumption DEF Init
  <2>2. "features" \in DOMAIN ir[key]
    BY <2>1 DEF IsResource
  <2> QED
    BY <2>1, <2>2 DEF Loaded
<1> QED
  BY <1>1 DEF IdsKept, IdsApart

(***************************************************************************)
(* What a step converts                                                    *)
(***************************************************************************)
\* The feature of the pass gets a setting in the policy of the index.
Converts(idx) ==
  \E setting :
    /\ Feature = "retry" => setting # EmptyMap
    /\ policies' = Put(policies, PolicyKey(Feature, idx),
                       WithSetting(GetOrBuild(PolicyKey(Feature, idx), idx), Feature, setting))

RetrySetting(fields, old) ==
  Over([retryOn |-> RetryOn(fields.triggers)],
       Over(IF "count" \in DOMAIN fields THEN [numRetries |-> fields.count - 1] ELSE EmptyMap, old))

LEMMA RetryIsSet ==
  ASSUME NEW fields, NEW ns, NEW old
  PROVE  Setting("retry", fields, ns, old) # EmptyMap
PROOF
<1>1. Setting("retry", fields, ns, old) = RetrySetting(fields, old)
  BY DEF Setting, RetrySetting
<1>2. "retryOn" \in DOMAIN RetrySetting(fields, old)
  BY DEF RetrySetting, Over
<1> QED
  BY <1>1, <1>2 DEF EmptyMap

LEMMA PolicyTreats ==
  ASSUME EmitPolicy \/ EmitMTLS
  PROVE  pass' = Panicked \/ \E idx : Handles(PolicyFeatures, idx) /\ (Reports(idx) \/ Converts(idx))
PROOF
<1>1. CASE EmitPolicy
  <2>1. PICK idx \in todo : EmitPolicy!(idx)
    BY <1>1 DEF EmitPolicy
  <2>2. At(PolicyFeatures) /\ IR(idx).id \notin parsed
    BY <2>1 DEF Emits, At, PolicyFeatures
  <2>3. CASE Panic
    BY <2>3 DEF Panic
  <2>4. CASE Report(idx) /\ Skip(idx)
    BY <2>1, <2>2, <2>4 DEF Handles, Reports, Report, Skip, Finish
  <2>5. CASE Succeed(idx) /\ UNCHANGED reported /\ \E old :
               policies' = Put(policies, PolicyKey(Feature, idx), WithSetting(
                 GetOrBuild(PolicyKey(Feature, idx), idx), Feature,
                 Setting(Feature, IR(idx).fields, current.ns, old)))
    <3>1. Handles(PolicyFeatures, idx)
      BY <2>1, <2>2, <2>5 DEF Handles, Succeed, Finish
    <3>2. Converts(idx)
      BY <2>5, RetryIsSet DEF Converts
    <3> QED
      BY <3>1, <3>2
  <2> QED
    BY <2>1, <2>3, <2>4, <2>5
<1>2. CASE EmitMTLS
  <2>1. PICK idx \in todo : EmitMTLS!(idx)
    BY <1>2 DEF EmitMTLS
  <2>2. At(PolicyFeatures) /\ IR(idx).id \notin parsed /\ Feature = "mTLS"
    BY <2>1 DEF Emits, At, PolicyFeatures, Feature
  <2>3. CASE Panic
    BY <2>3 DEF Panic
  <2>4. CASE ~Panic
    <3>1. Handles(PolicyFeatures, idx)
      BY <2>1, <2>2, <2>4 DEF Handles, Succeed, Finish
    <3>2. Converts(idx)
      BY <2>1, <2>2, <2>4 DEF Converts
    <3> QED
      BY <3>1, <3>2
  <2> QED
    BY <2>3, <2>4
<1> QED
  BY <1>1, <1>2

LEMMA StillReported ==
  ASSUME [Next]_vars
  PROVE  reported \subseteq reported'
PROOF
<1>1. CASE EmitRewrite
  BY <1>1 DEF EmitRewrite, Report
<1>2. CASE EmitRedirect
  BY <1>2 DEF EmitRedirect, Report
<1>3. CASE EmitPolicy
  BY <1>3 DEF EmitPolicy, Report
<1>4. CASE CheckConvertExtensionFeatures
  BY <1>4 DEF CheckConvertExtensionFeatures
<1>5. CASE ~EmitRewrite /\ ~EmitRedirect /\ ~EmitPolicy /\ ~CheckConvertExtensionFeatures
  BY <1>5 DEF Next, NextPass, VisitResource, AlreadyParsed, RemoveBackendRefsDuplicates, EmitRegex,
     EmitMTLS, EmitBackendTLS, SortResource, EmissionEnded, outputs, vars
<1> QED
  BY <1>1, <1>2, <1>3, <1>4, <1>5

\* What becomes of an index that is converted.
Treats(idx) ==
  \/ Reports(idx)
  \/ Feature \in PolicyFeatures /\ Converts(idx)
  \/ /\ Feature \in OfRules \ {"backendTLS"} /\ idx \in DOMAIN resources[current].rules
     /\ RuleGot(Feature, RuleAt(idx)')
  \/ /\ Feature = "redirect" /\ Resource.parentRefs # <<>>
     /\ "url" \notin DOMAIN IR(idx).fields /\ ~SslRedirects(IR(idx).fields, current.ns, Resource)
  \/ /\ Feature = "backendTLS"
     /\ \A n \in 1..Size(ir[current]) : idx \in {RouteRuleAllIndex, n} => AllBackends(RuleAt(n)')

\* Every step goes on with a pass, or converts an index, or panics.
LEMMA StepTreats ==
  ASSUME LoopInv, ResourcesInv, RulesInv, [Next]_vars, pass' # Panicked
  PROVE  \/ NextPass \/ VisitResource \/ AlreadyParsed
         \/ \E idx : Handles(Features, idx) /\ Treats(idx)
         \/ UNCHANGED <<parsed, pass, current, todo>> /\ (pending' = pending \/ ~At(Features))
PROOF
<1>1. \A features, idx : features \subseteq Features /\ Handles(features, idx) =>
        Handles(Features, idx) /\ Feature \in features
  BY DEF Handles, At, Feature
<1>2. PolicyFeatures \subseteq Features /\ OfRules \subseteq Features
  BY FeatureNames DEF OfRules, Features, MergedFeatures
<1>3. CASE EmitPolicy \/ EmitMTLS
  BY <1>1, <1>2, <1>3, PolicyTreats DEF Treats
<1>4. CASE EmitRegex
  <2>1. PICK idx : /\ Handles({"regex"}, idx) /\ idx \in DOMAIN resources[current].rules
                   /\ MatchesPattern(RuleAt(idx)')
    BY <1>4, RegexTreats
  <2>2. Handles(Features, idx) /\ Feature = "regex"
    BY <1>1, <1>2, <2>1 DEF OfRules
  <2> QED
    BY <2>1, <2>2 DEF Treats, RuleGot, OfRules
<1>5. CASE EmitRewrite
  <2>1. PICK idx : /\ Handles({"rewrite"}, idx)
                   /\ \/ Reports(idx)
                      \/ /\ idx \in DOMAIN resources[current].rules
                         /\ FilterTypes(RuleAt(idx)') \cap {"URLRewrite", "ExtensionRef"} # {}
    BY <1>5, RewriteTreats
  <2>2. Handles(Features, idx) /\ Feature = "rewrite"
    BY <1>1, <1>2, <2>1 DEF OfRules
  <2> QED
    BY <2>1, <2>2 DEF Treats, RuleGot, OfRules
<1>6. CASE EmitRedirect
  <2>1. PICK idx : /\ Handles({"redirect"}, idx)
                   /\ \/ Reports(idx)
                      \/ /\ idx \in DOMAIN resources[current].rules
                         /\ "RequestRedirect" \in FilterTypes(RuleAt(idx)')
                      \/ /\ Resource.parentRefs # <<>>
                         /\ "url" \notin DOMAIN IR(idx).fields
                         /\ ~SslRedirects(IR(idx).fields, current.ns, Resource)
    BY <1>6, RedirectTreats
  <2>2. Handles(Features, idx) /\ Feature = "redirect"
    BY <1>1, <1>2, <2>1 DEF OfRules
  <2> QED
    BY <2>1, <2>2 DEF Treats, RuleGot, OfRules
<1>7. CASE EmitBackendTLS
  <2>1. PICK idx : /\ Handles({"backendTLS"}, idx)
                   /\ \A n \in 1..Size(ir[current]) : idx \in {RouteRuleAllIndex, n} =>
                        AllBackends(RuleAt(n)')
    BY <1>7, BackendTLSTreats
  <2>2. Handles(Features, idx) /\ Feature = "backendTLS"
    BY <1>1, <1>2, <2>1 DEF OfRules
  <2> QED
    BY <2>1, <2>2 DEF Treats
<1>8. CASE RemoveBackendRefsDuplicates \/ SortResource \/ CheckConvertExtensionFeatures
  <2>1. ~At(Features)
    BY <1>8 DEF RemoveBackendRefsDuplicates, SortResource, CheckConvertExtensionFeatures, At,
                Features, MergedFeatures, OfRoutePolicies
  <2>2. UNCHANGED <<parsed, pass, current, todo>>
    BY <1>8 DEF RemoveBackendRefsDuplicates, SortResource, CheckConvertExtensionFeatures, Panic
  <2> QED
    BY <2>1, <2>2
<1>9. CASE EmissionEnded \/ UNCHANGED vars
  BY <1>9 DEF EmissionEnded, vars, loop
<1> QED
  BY <1>3, <1>4, <1>5, <1>6, <1>7, <1>8, <1>9 DEF Next

(***************************************************************************)
(* An IR is parsed when its pass is done with it                           *)
(***************************************************************************)
LEMMA EligibleStays ==
  ASSUME ir' = ir, NEW key
  PROVE  Eligible(key)' <=> Eligible(key)
  BY DEF Eligible, InRange, Unshared, Sections

\* A feature has one pass for resources of a kind.
LEMMA OnePass ==
  ASSUME NEW m \in DOMAIN Passes, pass \in DOMAIN Passes, NEW key, Passes[pass][2] = key.kind,
         Passes[m] = <<Feature, key.kind>>
  PROVE  m = pass
PROOF
<1>1. Passes[pass] = <<Feature, key.kind>>
  BY PassesKinds DEF Feature
<1> QED
  BY <1>1, PassesDistinct

LEMMA NotYetDone ==
  ASSUME pass \in DOMAIN Passes, NEW key, Passes[pass][2] = key.kind, NEW idx,
         key \in pending \/ (key = current /\ idx \in todo)
  PROVE  ~Done(Feature, key, idx)
PROOF
<1> SUFFICES ASSUME NEW m \in DOMAIN Passes, Passes[m] = <<Feature, key.kind>>,
                    m < pass \/ (m = pass /\ key \notin pending /\ (key = current => idx \notin todo))
             PROVE  FALSE
  BY DEF Done
<1>1. m = pass
  BY OnePass
<1> QED
  BY <1>1, PassesDistinct

LEMMA IRAtIndex ==
  ASSUME LoopInv, ResourcesInv, Filling, NEW idx \in todo
  PROVE  /\ current \in DOMAIN ir /\ current \notin pending /\ current.kind = Passes[pass][2]
         /\ <<Feature, idx>> \in DOMAIN resources[current].features
         /\ IR(idx) = resources[current].features[<<Feature, idx>>]
  BY AtResource DEF IR, Resource

LEMMA ParsedStep ==
  ASSUME LoopInv, ResourcesInv, RulesInv, IdsInv, ParsedInv, [Next]_vars
  PROVE  ParsedInv'
PROOF
<1>1. ir' = ir
  BY StepOfLoops
<1> SUFFICES ASSUME Filling', NEW key \in DOMAIN ir, Eligible(key),
                    NEW at \in DOMAIN resources'[key].features,
                    resources'[key].features[at].id \in parsed'
             PROVE  Done(at[1], key, at[2])'
  BY <1>1, EligibleStays DEF ParsedInv
<1> DEFINE fs  == resources[key].features
           new == resources'[key].features
<1>2. Filling /\ pass' # Panicked
  BY FillingBefore, PassesDistinct DEF Filling
<1>3. \A x \in DOMAIN fs : fs[x].id \in parsed => Done(x[1], key, x[2])
  BY <1>2 DEF ParsedInv
<1>4. IdsKept(fs, ir[key].features)
  BY <1>2 DEF IdsInv
<1>5. CASE VisitResource
  <2>1. parsed' = parsed
    BY <1>5 DEF VisitResource
  <2>2. PICK visited : Visits(visited)
    BY <1>5, VisitOfResource
  <2>3. CASE visited = key
    <3>1. PICK x \in DOMAIN fs : x[1] = at[1] /\ new[at].id = fs[x].id /\ (at[1] # Feature => x = at)
      BY <1>2, <2>2, <2>3, IdsVisited
    <3>2. Done(x[1], key, x[2])
      BY <1>3, <2>1, <3>1
    <3>3. \A idx : ~Done(Feature, key, idx)
      BY <2>2, <2>3, NotYetDone DEF Visits
    <3>4. x = at
      BY <3>1, <3>2, <3>3
    <3> QED
      BY <1>2, <3>2, <3>4, DoneStays
  <2>4. CASE visited # key
    <3>1. new = fs
      BY <2>2, <2>4 DEF Visits, ResourcesInv
    <3>2. Done(at[1], key, at[2])
      BY <1>3, <2>1, <3>1
    <3> QED
      BY <1>2, <3>2, DoneStays
  <2> QED
    BY <2>3, <2>4
<1>6. CASE ~VisitResource
  <2>1. new = fs
    BY <1>2, <1>6, ResourcesStep DEF Refilled, ResourcesInv
  <2>2. CASE fs[at].id \in parsed
    BY <1>2, <1>3, <2>1, <2>2, DoneStays
  <2>3. CASE fs[at].id \notin parsed
    <3>1. PICK idx : Handles(Features, idx)
      <4>1. parsed' # parsed
        BY <2>1, <2>3
      <4> QED
        BY <1>2, <1>6, <4>1, StepTreats DEF NextPass, AlreadyParsed
    <3>2. idx \in todo /\ fs[at].id = IR(idx).id
      BY <2>1, <2>3, <3>1 DEF Handles
    <3>3. /\ current \in DOMAIN ir /\ current \notin pending /\ current.kind = Passes[pass][2]
          /\ <<Feature, idx>> \in DOMAIN resources[current].features
          /\ IR(idx) = resources[current].features[<<Feature, idx>>]
      BY <1>2, <3>2, IRAtIndex
    <3>4. key = current
      <4>1. PICK x \in DOMAIN ir[key].features : fs[at].id = ir[key].features[x].id
        BY <1>4, <2>1 DEF IdsKept
      <4>2. IdsKept(resources[current].features, ir[current].features)
        BY <1>2, <3>3 DEF IdsInv
      <4>3. PICK y \in DOMAIN ir[current].features : IR(idx).id = ir[current].features[y].id
        BY <3>3, <4>2 DEF IdsKept
      <4> QED
        BY <3>2, <3>3, <4>1, <4>3 DEF Eligible, Unshared
    <3>5. at = <<Feature, idx>>
      BY <1>4, <2>1, <3>2, <3>3, <3>4 DEF IdsKept
    <3>6. at[1] = Feature /\ at[2] = idx
      BY <3>5
    <3>7. pass \in DOMAIN Passes /\ Passes[pass] = <<Feature, key.kind>>
      BY <1>2, <3>3, <3>4, PassesKinds DEF Filling, Feature
    <3>8. pass' = pass /\ current' = current /\ pending' = pending /\ idx \notin todo'
      BY <3>1 DEF Handles
    <3> QED
      BY <3>3, <3>4, <3>6, <3>7, <3>8 DEF Done
  <2> QED
    BY <2>2, <2>3
<1> QED
  BY <1>5, <1>6

(***************************************************************************)
(* What is converted stays converted                                       *)
(***************************************************************************)
\* When names of policies are apart, no setting is made twice.
LEMMA SettingsStay ==
  ASSUME LoopInv, ResourcesInv, PolicyNamesApart, PoliciesInv, [Next]_vars, NEW p \in DOMAIN policies
  PROVE  /\ p \in DOMAIN policies'
         /\ policies'[p].target = policies[p].target /\ policies'[p].section = policies[p].section
         /\ \A f \in DOMAIN policies[p].spec :
              f \in DOMAIN policies'[p].spec /\ policies'[p].spec[f] = policies[p].spec[f]
PROOF
<1>1. CASE UNCHANGED policies
  BY <1>1
<1>2. CASE \E idx : Sets(idx)
  <2>1. PICK idx : Sets(idx)
    BY <1>2
  <2> DEFINE key    == PolicyKey(Feature, idx)
             policy == GetOrBuild(key, idx)
  <2>2. PICK setting : policies' = Put(policies, key, [policy EXCEPT !.spec = Put(policy.spec, Feature, setting)])
    BY <2>1 DEF Sets, WithSetting
  <2>3. idx \in todo /\ Feature \in PolicyFeatures /\ Filling
    <3>1. pass \in DOMAIN Passes /\ idx \in todo /\ Feature \in PolicyFeatures
      BY <2>1 DEF Sets
    <3>2. At(Features)
      BY <3>1, FeatureNames DEF At, Feature
    <3> QED
      BY <3>1, <3>2, FillingAt
  <2>4. IsPolicy(key, policy, current, idx) /\ Feature \notin DOMAIN policy.spec
    BY <2>3, PolicyOfIndex
  <2>5. PICK f : f = Feature
    OBVIOUS
  <2>6. p = key => policy = policies[p]
    BY DEF GetOrBuild
  <2> HIDE DEF key, policy
  <2> DEFINE q == [policy EXCEPT !.spec = Put(policy.spec, f, setting)]
  <2>7. /\ q.target = policy.target /\ q.section = policy.section
        /\ q.spec = Put(policy.spec, f, setting)
    BY <2>4 DEF IsPolicy
  <2>8. \A g \in DOMAIN policy.spec : g \in DOMAIN q.spec /\ q.spec[g] = policy.spec[g]
    BY <2>4, <2>5, <2>7 DEF Put
  <2>9. policies' = Put(policies, key, q)
    BY <2>2, <2>5
  <2> HIDE DEF q
  <2>10. p \in DOMAIN policies' /\ policies'[p] = IF p = key THEN q ELSE policies[p]
    BY <2>9 DEF Put
  <2> QED
    BY <2>6, <2>7, <2>8, <2>10
<1> QED
  BY <1>1, <1>2, PolicyStep

LEMMA InPolicyStays ==
  ASSUME LoopInv, ResourcesInv, PolicyNamesApart, PoliciesInv, [Next]_vars,
         NEW key, NEW f, NEW n, InPolicy(key, f, n)
  PROVE  InPolicy(key, f, n)'
PROOF
<1>1. PICK p \in DOMAIN policies :
        /\ Covers(policies[p], key, n)
        /\ f \in DOMAIN policies[p].spec /\ (f = "retry" => policies[p].spec[f] # EmptyMap)
  BY DEF InPolicy
<1>2. /\ p \in DOMAIN policies'
      /\ policies'[p].target = policies[p].target /\ policies'[p].section = policies[p].section
      /\ f \in DOMAIN policies'[p].spec /\ policies'[p].spec[f] = policies[p].spec[f]
  BY <1>1, SettingsStay
<1>3. Covers(policies[p], key, n)'
  BY <1>1, <1>2, StepOfLoops DEF Covers, Sections
<1> QED
  BY <1>1, <1>2, <1>3 DEF InPolicy

LEMMA InRulesStays ==
  ASSUME LoopInv, ResourcesInv, RulesInv, GatewaysInv, [Next]_vars,
         NEW key \in DOMAIN ir, key.kind # "Gateway", NEW f \in OfRules, NEW n, InRules(key, f, n)
  PROVE  InRules(key, f, n)'
PROOF
<1> DEFINE old == resources[key].rules
           new == resources'[key].rules
           size == Size(ir[key])
<1>1. TreatedRules(key.ns, DOMAIN backends', old, new, size) /\ ir' = ir
  BY RulesStep, StepOfLoops DEF RoutesTreated, RouteTreated
<1>2. \A m \in 1..size : old[m].from = n => RuleGot(f, old[m])
  BY DEF InRules
<1> HIDE DEF old, new, size
<1>3. ASSUME NEW m \in 1..size, new[m].from = n
      PROVE  RuleGot(f, new[m])
  <2>1. PICK k \in 1..size : Treated(key.ns, DOMAIN backends', old[k], new[m])
    BY <1>1 DEF TreatedRules
  <2>2. RuleGot(f, old[k])
    BY <1>2, <1>3, <2>1 DEF Treated
  <2> QED
    BY <2>1, <2>2 DEF RuleGot, Treated, OfRules
<1> QED
  BY <1>1, <1>3 DEF InRules, old, new, size

LEMMA AnsweredStays ==
  ASSUME LoopInv, ResourcesInv, RulesInv, GatewaysInv, PolicyNamesApart, PoliciesInv, [Next]_vars,
         NEW key \in DOMAIN ir, NEW f, NEW n, f \in OfRules => key.kind # "Gateway", Answered(key, f, n)
  PROVE  Answered(key, f, n)'
PROOF
<1>1. ir' = ir /\ reported \subseteq reported'
  BY StepOfLoops, StillReported
<1>2. CASE f \in PolicyFeatures /\ InPolicy(key, f, n)
  BY <1>2, InPolicyStays DEF Answered
<1>3. CASE f \in OfRules /\ InRules(key, f, n)
  BY <1>3, InRulesStays DEF Answered
<1>4. CASE f = "redirect" /\ NothingToRedirect(key, ir[key].features[<<f, n>>].fields)
  BY <1>1, <1>4 DEF Answered, NothingToRedirect
<1>5. CASE WasReported(key, f, n)
  BY <1>1, <1>5 DEF Answered, WasReported
<1> QED
  BY <1>2, <1>3, <1>4, <1>5 DEF Answered

\* What the pass finds at an index for a rule or listener was loaded for it.
LEMMA FieldsAtLoading ==
  ASSUME ResourcesInv, LoopInv, At(Features), NEW idx \in todo, InRange(current),
         NEW n \in DOMAIN Sections(current), idx \in {RouteRuleAllIndex, n}
  PROVE  /\ <<Feature, n>> \in DOMAIN ir[current].features
         /\ IR(idx).fields = ir[current].features[<<Feature, n>>].fields
PROOF
<1> DEFINE fs   == resources[current].features
           fs0  == ir[current].features
           size == Size(ir[current])
<1>1. Filling /\ Feature \in Features
  BY FillingAt DEF At, Feature
<1>2. current \in DOMAIN ir /\ <<Feature, idx>> \in DOMAIN fs /\ IR(idx) = fs[<<Feature, idx>>]
  BY <1>1, IRAtIndex
<1>3. Faithful(current, resources[current]) /\ DOMAIN Sections(current) = 1..size
  BY <1>1, <1>2, SizeOfSections DEF ResourcesInv
<1>4. AskTheSame(fs, fs0, size, Visited(current)) /\ n \in 1..size
  BY <1>3 DEF Faithful
<1> HIDE DEF fs, fs0, size
<1>5. AsLoaded(fs, fs0, Feature, n)
  BY <1>1, <1>4, AskedAtLoading
<1> QED
  BY <1>2, <1>5 DEF AsLoaded, fs, fs0

\* Gateways keep the protocols of their listeners.
LEMMA NoRedirect ==
  ASSUME ResourcesInv, RulesInv, GatewaysInv, NEW key \in DOMAIN ir, key.kind # "Gateway", NEW fields
  PROVE  NoRedirectAsked(key, fields) <=> NothingToRedirect(key, fields)
PROOF
<1>1. resources[key].parentRefs = ir[key].parentRefs /\ DOMAIN resources = DOMAIN ir
  BY DEF RulesInv, ResourcesInv
<1> DEFINE gateway == [kind |-> "Gateway", ns |-> key.ns, name |-> ir[key].parentRefs[1]]
<1>2. gateway.kind = "Gateway"
  OBVIOUS
<1>3. gateway \in DOMAIN ir =>
        ((\E n \in DOMAIN resources[gateway].listeners : resources[gateway].listeners[n].protocol = "HTTPS")
           <=> \E l \in ToSet(ir[gateway].listeners) : l.protocol = "HTTPS")
  <2> SUFFICES ASSUME gateway \in DOMAIN ir
               PROVE  (\E n \in DOMAIN resources[gateway].listeners :
                         resources[gateway].listeners[n].protocol = "HTTPS")
                        <=> \E l \in ToSet(ir[gateway].listeners) : l.protocol = "HTTPS"
    OBVIOUS
  <2> HIDE DEF gateway
  <2>1. ToSet(resources[gateway].listeners) = ToSet(ir[gateway].listeners)
    BY <1>2 DEF GatewaysInv
  <2>2. (\E n \in DOMAIN resources[gateway].listeners :
           resources[gateway].listeners[n].protocol = "HTTPS")
          <=> \E l \in ToSet(resources[gateway].listeners) : l.protocol = "HTTPS"
    BY DEF ToSet
  <2> QED
    BY <2>1, <2>2
<1>4. HasHTTPSListener(key.ns, resources[key])
        <=> gateway \in DOMAIN ir /\ \E l \in ToSet(ir[gateway].listeners) : l.protocol = "HTTPS"
  <2>1. gateway = [kind |-> "Gateway", ns |-> key.ns, name |-> resources[key].parentRefs[1]]
    BY <1>1
  <2> HIDE DEF gateway
  <2> QED
    BY <1>1, <1>3, <2>1 DEF HasHTTPSListener
<1> QED
  BY <1>1, <1>4 DEF NoRedirectAsked, SslRedirects, NothingToRedirect

\* An index that is converted is, with the index for all, the one of the rule.
LEMMA TreatsAnswers ==
  ASSUME LoopInv, ResourcesInv, RulesInv, GatewaysInv, PolicyNamesApart, PoliciesInv, [Next]_vars,
         NEW idx, Handles(Features, idx), Treats(idx),
         NEW key, key = current, NEW f, f = Feature,
         InRange(key), NEW n \in DOMAIN Sections(key), idx \in {RouteRuleAllIndex, n}
  PROVE  Answered(key, f, n)'
PROOF
<1>1. /\ idx \in todo /\ At(Features) /\ Filling /\ Filling'
      /\ ir' = ir /\ current' = current /\ pass' = pass
  BY FillingAt DEF Handles, Filling, Sorting
<1>2. /\ key \in DOMAIN ir /\ DOMAIN Sections(key) = 1..Size(ir[key])
      /\ RouteRuleAllIndex \notin 1..Size(ir[key])
  <2>1. key \in DOMAIN ir
    BY <1>1, IRAtIndex
  <2>2. DOMAIN Sections(key) = 1..Size(ir[key]) /\ Size(ir[key]) \in Nat
    BY <2>1, SizeOfSections
  <2> QED
    BY <2>1, <2>2 DEF RouteRuleAllIndex
<1>3. CASE Reports(idx)
  <2>1. WasReported(key, f, n)'
    BY <1>3 DEF Reports, WasReported
  <2> QED
    BY <2>1 DEF Answered
<1>4. CASE Feature \in PolicyFeatures /\ Converts(idx)
  <2>1. PICK p, policy : p = PolicyKey(Feature, idx) /\ policy = GetOrBuild(p, idx)
    OBVIOUS
  <2>2. PICK setting : /\ f = "retry" => setting # EmptyMap
                       /\ policies' = Put(policies, p, [policy EXCEPT !.spec = Put(policy.spec, f, setting)])
    BY <1>4, <2>1 DEF Converts, WithSetting
  <2>3. IsPolicy(p, policy, key, idx)
    BY <1>1, <1>4, <2>1, PolicyOfIndex
  <2>4. PICK q : q = [policy EXCEPT !.spec = Put(policy.spec, f, setting)]
    OBVIOUS
  <2>5. q.target = key /\ q.section = NameAt(key, idx) /\ q.spec = Put(policy.spec, f, setting)
    BY <2>3, <2>4 DEF IsPolicy
  <2>6. f \in DOMAIN q.spec /\ q.spec[f] = setting
    BY <2>5 DEF Put
  <2>7. p \in DOMAIN policies' /\ policies'[p] = q
    BY <2>2, <2>4 DEF Put
  <2>8. NameAt(key, idx) \in {<<>>, Sections(key)[n].name}
    BY <1>2 DEF NameAt
  <2>9. Covers(policies[p], key, n)'
    BY <1>1, <2>5, <2>7, <2>8 DEF Covers, Sections
  <2>10. InPolicy(key, f, n)'
    BY <2>2, <2>6, <2>7, <2>9 DEF InPolicy
  <2> QED
    BY <1>4, <2>10 DEF Answered
<1>5. CASE Feature \in OfRules /\ RuleGot(Feature, resources'[current].rules[n])
  <2>1. At(Features \ {"mTLS"})
    BY <1>1, <1>5 DEF At, Feature, OfRules
  <2>2. key.kind # "Gateway"
    BY <1>1, <2>1, AtRoute
  <2>3. \A m \in 1..Size(ir[key]) : resources'[key].rules[m].from = m
    BY <1>1, <1>2, <2>2, RulesInvStep DEF RulesInv
  <2>4. InRules(key, f, n)'
    BY <1>1, <1>5, <2>3 DEF InRules
  <2> QED
    BY <1>5, <2>4 DEF Answered
<1>6. CASE /\ Feature \in OfRules \ {"backendTLS"} /\ idx \in DOMAIN resources[current].rules
           /\ RuleGot(Feature, RuleAt(idx)')
  <2>1. At(Features \ {"mTLS"})
    BY <1>1, <1>6 DEF At, Feature, OfRules
  <2>2. idx \in 1..Size(ir[current])
    BY <1>1, <1>6, <2>1, RuleToTreat
  <2> QED
    BY <1>1, <1>2, <1>5, <1>6, <2>2 DEF RuleAt
<1>7. CASE /\ Feature = "backendTLS"
           /\ \A m \in 1..Size(ir[current]) : idx \in {RouteRuleAllIndex, m} => AllBackends(RuleAt(m)')
  <2>1. AllBackends(resources'[current].rules[n])
    BY <1>1, <1>2, <1>7 DEF RuleAt
  <2> QED
    BY <1>5, <1>7, <2>1 DEF RuleGot, OfRules
<1>8. CASE /\ Feature = "redirect" /\ Resource.parentRefs # <<>>
           /\ "url" \notin DOMAIN IR(idx).fields /\ ~SslRedirects(IR(idx).fields, current.ns, Resource)
  <2>1. At(Features \ {"mTLS"})
    BY <1>1, <1>8 DEF At, Feature
  <2>2. key.kind # "Gateway"
    BY <1>1, <2>1, AtRoute
  <2>3. NoRedirectAsked(key, IR(idx).fields)
    BY <1>8 DEF NoRedirectAsked, Resource
  <2>4. NothingToRedirect(key, IR(idx).fields)
    BY <1>2, <2>2, <2>3, NoRedirect
  <2>5. IR(idx).fields = ir[key].features[<<f, n>>].fields
    BY <1>1, FieldsAtLoading
  <2>6. NothingToRedirect(key, ir[key].features[<<f, n>>].fields)'
    BY <1>1, <2>4, <2>5 DEF NothingToRedirect
  <2> QED
    BY <1>8, <2>6 DEF Answered
<1> QED
  BY <1>3, <1>4, <1>6, <1>7, <1>8 DEF Treats

\* A visit finds an index for every rule or listener that has the feature.
LEMMA VisitIsDue ==
  ASSUME LoopInv, ResourcesInv, Filling, NEW key, Visits(key), InRange(key),
         NEW n, <<Feature, n>> \in DOMAIN ir[key].features
  PROVE  \E idx \in todo' : idx \in {RouteRuleAllIndex, n}
PROOF
<1> DEFINE fs   == resources'[key].features
           fs0  == ir[key].features
           size == Size(ir[key])
<1>1. Faithful(key, resources[key])' /\ ir' = ir /\ Feature \in Features /\ todo' = IndicesOf(fs, Feature)
  BY KeptByMerging DEF Visits
<1>2. AskTheSame(fs, fs0, size, Visited(key)')
  BY <1>1 DEF Faithful, InRange, Sections
<1>3. <<Feature, n>>[2] \in 1..size
  BY <1>2 DEF AskTheSame
<1> HIDE DEF fs, fs0, size
<1>4. fs0[<<Feature, n>>].fields \in Asked(fs0, Feature, n)
  BY DEF Asked, fs0
<1>5. fs0[<<Feature, n>>].fields \in Asked(fs, Feature, n)
  BY <1>1, <1>2, <1>3, <1>4 DEF AskTheSame
<1>6. PICK idx \in {RouteRuleAllIndex, n} : <<Feature, idx>> \in DOMAIN fs
  BY <1>5 DEF Asked
<1>7. idx \in IndicesOf(fs, Feature)
  BY <1>6 DEF IndicesOf
<1> QED
  BY <1>1, <1>6, <1>7

LEMMA NoPanicBefore ==
  ASSUME [Next]_vars, pass' # Panicked
  PROVE  pass # Panicked
PROOF
<1> SUFFICES ASSUME pass = Panicked
             PROVE  FALSE
  OBVIOUS
<1>1. ~NextPass /\ ~VisitResource
  BY PassesDistinct DEF NextPass, VisitResource, At
<1> QED
  BY <1>1, StepOfLoops DEF Continues

(***************************************************************************)
(* Every visited feature is answered, or due                               *)
(***************************************************************************)
\* Only a visit makes a feature of the resource a visited one.
LEMMA VisitedByVisit ==
  ASSUME LoopInv, ResourcesInv, RulesInv, [Next]_vars, pass' # Panicked,
         NEW key \in DOMAIN ir, NEW f \in Visited(key)', f \notin Visited(key)
  PROVE  Visits(key) /\ Filling /\ f = Feature
PROOF
<1>1. PICK m \in DOMAIN Passes :
        Passes[m] = <<f, key.kind>> /\ (m < pass' \/ (m = pass' /\ key \notin pending'))
  BY DEF Visited
<1>2. f \in Features /\ Passes[m][1] = f /\ Passes[m][2] = key.kind
  BY <1>1 DEF Visited
<1>3. ~(m < pass) /\ ~(m = pass /\ key \notin pending)
  BY <1>1, <1>2 DEF Visited
<1>4. CASE NextPass
  <2>1. pass' = pass + 1 /\ pending = {} /\ pending' = KeysOf(resources, pass + 1) /\ pass \in DOMAIN Passes
    BY <1>4 DEF NextPass
  <2>2. m = pass + 1 /\ key \notin pending'
    BY <1>1, <1>3, <2>1, PassesDistinct
  <2>3. key \in KeysOf(resources, m)
    BY <1>2 DEF KeysOf, ResourcesInv
  <2> QED
    BY <2>1, <2>2, <2>3
<1>5. CASE VisitResource
  <2>1. PICK visited : Visits(visited) /\ Filling
    BY <1>5, VisitOfResource
  <2>2. m = pass /\ key = visited
    BY <1>1, <1>3, <2>1 DEF Visits
  <2> QED
    BY <1>2, <2>1, <2>2 DEF Feature
<1>6. ASSUME pass' = pass, pending' = pending \/ ~At(Features)
      PROVE  FALSE
  BY <1>1, <1>2, <1>3, <1>6 DEF At
<1>7. CASE AlreadyParsed
  BY <1>6, <1>7 DEF AlreadyParsed
<1>8. CASE \E idx : Handles(Features, idx)
  BY <1>6, <1>8 DEF Handles
<1> QED
  BY <1>4, <1>5, <1>6, <1>7, <1>8, StepTreats

LEMMA AnsweredStep ==
  ASSUME LoopInv, ResourcesInv, RulesInv, GatewaysInv, PolicyNamesApart, PoliciesInv, ParsedInv,
         AnsweredInv, [Next]_vars
  PROVE  AnsweredInv'
PROOF
<1>1. ir' = ir
  BY StepOfLoops
<1> SUFFICES ASSUME pass' # Panicked, NEW key \in DOMAIN ir, Eligible(key),
                    NEW at \in DOMAIN ir[key].features, at[1] \in Visited(key)'
             PROVE  Answered(key, at[1], at[2])' \/ Due(key, at[1], at[2])'
  BY <1>1, EligibleStays DEF AnsweredInv
<1>2. PICK f, n : f = at[1] /\ n = at[2]
  OBVIOUS
<1>3. pass # Panicked /\ InRange(key) /\ IsResource(key, ir[key])
  BY NoPanicBefore, SizeOfSections DEF Eligible
<1>4. at = <<f, n>> /\ f \in FeaturesOfKind(key.kind)
  BY <1>2, <1>3 DEF IsResource
<1>5. n \in DOMAIN Sections(key) /\ f \in Visited(key)' /\ f \in Features
  BY <1>2, <1>3 DEF InRange, Visited
<1>6. f \in OfRules => key.kind # "Gateway"
  BY <1>4 DEF OfRules, FeaturesOfKind
<1>7. CASE f \notin Visited(key)
  <2>1. Visits(key) /\ Filling /\ f = Feature
    BY <1>5, <1>7, VisitedByVisit
  <2>2. \E idx \in todo' : idx \in {RouteRuleAllIndex, n}
    BY <1>3, <1>4, <2>1, VisitIsDue
  <2>3. Passes[pass] = <<f, key.kind>>
    BY <2>1, PassesKinds DEF Visits, Feature
  <2>4. Due(key, f, n)'
    BY <2>1, <2>2, <2>3 DEF Due, Visits
  <2> QED
    BY <1>2, <2>4
<1>8. CASE Answered(key, f, n)
  BY <1>2, <1>6, <1>8, AnsweredStays
<1>9. CASE Due(key, f, n)
  <2>1. PICK idx \in todo : idx \in {RouteRuleAllIndex, n}
    BY <1>9 DEF Due
  <2>2. key = current /\ pass \in DOMAIN Passes /\ Passes[pass] = <<f, key.kind>>
    BY <1>9 DEF Due
  <2>3. f = Feature /\ At(Features) /\ Passes[pass][2] = key.kind
    BY <1>5, <2>2 DEF Feature, At
  <2>4. Filling
    BY <2>3, FillingAt
  <2>5. ASSUME UNCHANGED <<pass, current>>, idx \in todo'
        PROVE  Due(key, f, n)'
    BY <2>1, <2>2, <2>5 DEF Due
  <2>6. CASE AlreadyParsed
    <3>1. PICK j \in todo : IR(j).id \in parsed /\ todo' = todo \ {j}
      BY <2>6 DEF AlreadyParsed
    <3>2. j # idx
      <4> SUFFICES ASSUME j = idx
                   PROVE  FALSE
        OBVIOUS
      <4>1. <<Feature, idx>> \in DOMAIN resources[key].features /\ resources[key].features[<<Feature, idx>>].id \in parsed
        BY <2>2, <2>4, <3>1, IRAtIndex
      <4>2. Done(<<Feature, idx>>[1], key, <<Feature, idx>>[2])
        BY <2>4, <4>1 DEF ParsedInv
      <4>3. ~Done(Feature, key, idx)
        BY <2>1, <2>2, <2>3, NotYetDone
      <4> QED
        BY <4>2, <4>3
    <3> QED
      BY <1>2, <2>5, <2>6, <3>1, <3>2 DEF AlreadyParsed
  <2>7. CASE \E j : Handles(Features, j) /\ Treats(j)
    <3>1. PICK j : Handles(Features, j) /\ Treats(j)
      BY <2>7
    <3>2. CASE j = idx
      <4>1. Answered(key, f, n)'
        BY <1>3, <1>5, <2>1, <2>2, <2>3, <3>1, <3>2, TreatsAnswers
      <4> QED
        BY <1>2, <4>1
    <3>3. CASE j # idx
      BY <1>2, <2>1, <2>5, <3>1, <3>3 DEF Handles
    <3> QED
      BY <3>2, <3>3
  <2>8. CASE UNCHANGED <<parsed, pass, current, todo>>
    BY <1>2, <2>1, <2>5, <2>8
  <2>9. ~NextPass /\ ~VisitResource
    BY <2>1 DEF NextPass, VisitResource
  <2> QED
    BY <2>6, <2>7, <2>8, <2>9, StepTreats
<1>10. CASE f \in Visited(key)
  BY <1>2, <1>3, <1>8, <1>9, <1>10 DEF AnsweredInv
<1> QED
  BY <1>7, <1>10

\* At the end every feature has had its pass.
LEMMA AllVisited ==
  ASSUME pass = Ended, NEW key, NEW f \in FeaturesOfKind(key.kind),
         key.kind \in {"HTTPRoute", "GRPCRoute", "Gateway"}
  PROVE  f \in Visited(key)
PROOF
<1>1. \E m \in DOMAIN Passes : Passes[m] = <<f, key.kind>>
  <2>1. CASE key.kind = "Gateway"
    <3>1. Passes[6] = <<"mTLS", "Gateway">>
      BY DEF Passes
    <3> QED
      BY <2>1, <3>1, PassesDistinct DEF FeaturesOfKind
  <2>2. CASE key.kind = "GRPCRoute"
    <3>1. Passes[13] = <<"backendTLS", "GRPCRoute">>
      BY DEF Passes
    <3> QED
      BY <2>2, <3>1, PassesDistinct DEF FeaturesOfKind
  <2>3. CASE key.kind = "HTTPRoute"
    <3>1. f \in {"basicAuth", "externalAuth", "ipRange", "rateLimit", "proxyBuffer", "cors", "timeOut",
                 "retry", "affinity", "backendTLS", "regex", "rewrite", "redirect"}
      BY <2>3 DEF FeaturesOfKind, Features, MergedFeatures, OfRoutePolicies
    <3>2. \E m \in 1..20 : Passes[m] = <<f, "HTTPRoute">>
      BY <3>1 DEF Passes
    <3> QED
      BY <2>3, <3>2, PassesDistinct
  <2> QED
    BY <2>1, <2>2, <2>3
<1>2. f \in Features
  BY DEF FeaturesOfKind, Features, MergedFeatures
<1> QED
  BY <1>1, <1>2, PassesDistinct DEF Visited

LEMMA RuleIsThere ==
  ASSUME RulesInv, NEW key \in DOMAIN ir, key.kind # "Gateway", NEW n \in 1..Size(ir[key])
  PROVE  \E m \in 1..Size(ir[key]) :
           RuleFrom(key, n) = resources[key].rules[m] /\ resources[key].rules[m].from = n
PROOF
<1> DEFINE s == resources[key].rules
           size == Size(ir[key])
<1>1. ShapedRules(s, size)
  BY DEF RulesInv
<1>2. DOMAIN s = 1..size /\ \E m \in 1..size : s[m].from = n
  <2> HIDE DEF s, size
  <2> QED
    BY <1>1 DEF ShapedRules, size
<1>3. ToSet(s) = {s[m] : m \in 1..size}
  <2> HIDE DEF s, size
  <2> QED
    BY <1>2 DEF ToSet
<1>4. RuleFrom(key, n) \in ToSet(s) /\ RuleFrom(key, n).from = n
  <2> HIDE DEF size
  <2>1. \E rule \in ToSet(s) : rule.from = n
    BY <1>2, <1>3
  <2> QED
    BY <2>1 DEF RuleFrom
<1> QED
  BY <1>3, <1>4

LEMMA AnswersAtTheEnd ==
  ASSUME ResourcesInv, RulesInv, GatewaysInv, NEW key \in DOMAIN ir, InRange(key),
         NEW f \in FeaturesOfKind(key.kind), NEW n \in DOMAIN Sections(key), Answered(key, f, n)
  PROVE  Converted(key, f, n) \/ WasReported(key, f, n)
PROOF
<1>1. f \in OfRules => key.kind # "Gateway"
  BY DEF OfRules, FeaturesOfKind
<1>2. DOMAIN Sections(key) = 1..Size(ir[key])
  BY SizeOfSections
<1>3. CASE f \in PolicyFeatures /\ InPolicy(key, f, n)
  <2>1. f \in OfRoutePolicies \union {"mTLS"} /\ f \notin OfRules
    BY <1>3 DEF OfRules, OfRoutePolicies, PolicyFeatures
  <2>2. PICK p \in DOMAIN policies :
          /\ Covers(policies[p], key, n)
          /\ f \in DOMAIN policies[p].spec /\ (f = "retry" => policies[p].spec[f] # EmptyMap)
    BY <1>3 DEF InPolicy
  <2>3. Converted(key, f, n)
    BY <2>1, <2>2 DEF Converted, OfRules
  <2> QED
    BY <2>3
<1>4. CASE f \in OfRules /\ InRules(key, f, n)
  <2>1. PICK m \in 1..Size(ir[key]) :
          RuleFrom(key, n) = resources[key].rules[m] /\ resources[key].rules[m].from = n
    BY <1>1, <1>2, <1>4, RuleIsThere
  <2>2. RuleGot(f, RuleFrom(key, n))
    BY <1>4, <2>1 DEF InRules
  <2>3. f \notin OfRoutePolicies \union {"mTLS"}
    BY <1>4 DEF OfRules, OfRoutePolicies
  <2>4. CASE f = "regex"
    BY <2>2, <2>3, <2>4 DEF Converted, RuleGot, MatchesPattern
  <2>5. CASE f = "rewrite"
    BY <2>2, <2>3, <2>5 DEF Converted, RuleGot
  <2>6. CASE f = "redirect"
    BY <2>2, <2>3, <2>6 DEF Converted, RuleGot
  <2>7. CASE f = "backendTLS"
    BY <2>2, <2>3, <2>7 DEF Converted, RuleGot, AllBackends
  <2> QED
    BY <1>4, <2>4, <2>5, <2>6, <2>7 DEF OfRules
<1>5. CASE f = "redirect" /\ NothingToRedirect(key, ir[key].features[<<f, n>>].fields)
  <2>1. NoRedirectAsked(key, ir[key].features[<<f, n>>].fields)
    BY <1>1, <1>5, NoRedirect DEF OfRules
  <2>2. f \notin OfRoutePolicies \union {"mTLS"}
    BY <1>5 DEF OfRoutePolicies
  <2> QED
    BY <1>5, <2>1, <2>2 DEF Converted
<1> QED
  BY <1>3, <1>4, <1>5 DEF Answered

AnswersInv ==
  /\ LoopInv /\ ResourcesInv /\ RulesInv /\ GatewaysInv
  /\ PolicyNamesApart => PoliciesInv
  /\ IdsApart => IdsInv /\ ParsedInv
  /\ PolicyNamesApart /\ IdsApart => AnsweredInv

LEMMA AnswersAtTheStart ==
  ASSUME Init
  PROVE  AnswersInv
PROOF
<1>1. LoopInv /\ ResourcesInv /\ RulesInv /\ GatewaysInv
  BY AtTheStart, LoadedRules
<1>2. PoliciesInv
  BY DEF Init, PoliciesInv, EmptyMap
<1>3. IdsApart => IdsInv
  BY IdsAtTheStart
<1>4. ParsedInv
  BY DEF Init, ParsedInv
<1>5. AnsweredInv
  <2> SUFFICES ASSUME NEW key, NEW f \in Visited(key)
               PROVE  FALSE
    BY DEF AnsweredInv
  <2>1. pass = 1
    BY DEF Init
  <2>2. Passes[1] = <<f, key.kind>> /\ f \in Features
    BY <2>1, PassesDistinct DEF Visited
  <2>3. Passes[1][1] = "duplicates"
    BY DEF Passes
  <2>4. "duplicates" \notin Features
    BY DEF Features, MergedFeatures, OfRoutePolicies
  <2> QED
    BY <2>2, <2>3, <2>4
<1> QED
  BY <1>1, <1>2, <1>3, <1>4, <1>5 DEF AnswersInv

LEMMA AnswersStep ==
  ASSUME AnswersInv, [Next]_vars
  PROVE  AnswersInv'
PROOF
<1>1. LoopInv' /\ ResourcesInv' /\ RulesInv' /\ GatewaysInv'
  BY LoopStep, ResourcesInvStep, RulesInvStep, RulesStep DEF AnswersInv
<1>2. (PolicyNamesApart' => PolicyNamesApart) /\ (IdsApart' => IdsApart)
  BY StepOfLoops, IndicesStay DEF PolicyNamesApart, IdsApart
<1>3. PolicyNamesApart' => PoliciesInv'
  BY <1>2, PoliciesStep DEF AnswersInv
<1>4. IdsApart' => IdsInv' /\ ParsedInv'
  BY <1>2, IdsStep, ParsedStep DEF AnswersInv
<1>5. PolicyNamesApart' /\ IdsApart' => AnsweredInv'
  BY <1>2, AnsweredStep DEF AnswersInv
<1> QED
  BY <1>1, <1>3, <1>4, <1>5 DEF AnswersInv

LEMMA AllConverted ==
  ASSUME AnswersInv, PolicyNamesApart, IdsApart
  PROVE  EveryFeatureConverted
PROOF
<1> SUFFICES ASSUME pass = Ended, NEW key \in DOMAIN ir, InRange(key), Unshared(key),
                    NEW at \in DOMAIN ir[key].features
             PROVE  Converted(key, at[1], at[2]) \/ WasReported(key, at[1], at[2])
  BY DEF EveryFeatureConverted, WasReported
<1>1. PICK f, n : f = at[1] /\ n = at[2]
  OBVIOUS
<1>2. IsResource(key, ir[key])
  BY SizeOfSections DEF AnswersInv
<1>3. f \in FeaturesOfKind(key.kind) /\ n \in DOMAIN Sections(key)
  BY <1>1, <1>2 DEF IsResource, InRange
<1>4. f \in Visited(key)
  BY <1>2, <1>3, AllVisited DEF IsResource
<1>5. Answered(key, f, n)
  <2>1. pass # Panicked /\ pass \notin DOMAIN Passes
    BY PassesDistinct
  <2> QED
    BY <1>1, <1>4, <2>1 DEF AnswersInv, AnsweredInv, Eligible, Due
<1> QED
  BY <1>1, <1>3, <1>5, AnswersAtTheEnd DEF AnswersInv

\* "Emitter MUST call this method upon successful parsing": for every emitter IR
\* whose policies get different names and whose features are IRs of their own,
\* when the emission has ended, every feature of every rule and listener has
\* become a policy or a filter that covers it, or a Backend, or has been
\* reported; whichever features are merged, whatever is visited first, and
\* however rules are sorted.
THEOREM EveryFeatureIsConverted == Spec => [](PolicyNamesApart /\ IdsApart => EveryFeatureConverted)
PROOF
<1>1. Init => AnswersInv
  BY AnswersAtTheStart
<1>2. AnswersInv /\ [Next]_vars => AnswersInv'
  BY AnswersStep
<1>3. AnswersInv => (PolicyNamesApart /\ IdsApart => EveryFeatureConverted)
  BY AllConverted
<1> QED
  BY <1>1, <1>2, <1>3, PTL DEF Spec
-------------------------------------------------------------------------------
(***************************************************************************)
(* Grants for secrets                                                      *)
(***************************************************************************)
Fields(key, at) == ir[key].features[at].fields

\* The feature of a Gateway asks for a secret of another namespace.
Foreign(key, at) ==
  /\ key \in DOMAIN ir /\ key.kind = "Gateway" /\ at \in DOMAIN ir[key].features
  /\ Fields(key, at).namespace # key.ns

GrantOf(key, at) == GrantKey(PolicyName(key.name, at[2]), Fields(key, at))

\* What the theorem assumes of the IR: where the grants of two features get one
\* name, the one is as good as the other.
GrantNamesApart ==
  \A k, l \in DOMAIN ir : \A at \in DOMAIN ir[k].features : \A x \in DOMAIN ir[l].features :
    Foreign(k, at) /\ Foreign(l, x) /\ GrantOf(k, at) = GrantOf(l, x) =>
      k.ns = l.ns /\ Fields(k, at).name = Fields(l, x).name

(***************************************************************************)
(* The invariant.  Gateways keep their features; every grant is the one of *)
(* a feature, and every secret of a policy, whatever the policy is called, *)
(* comes from a feature that got its grant.                                *)
(***************************************************************************)
FeaturesInv ==
  Filling => \A key \in DOMAIN ir : key.kind = "Gateway" => resources[key].features = ir[key].features

GrantsInv ==
  \A g \in DOMAIN grants : \E key \in DOMAIN ir : \E at \in DOMAIN ir[key].features :
    /\ Foreign(key, at) /\ g = GrantOf(key, at)
    /\ grants[g].fromNs = key.ns /\ grants[g].secret = Fields(key, at).name

\* A feature of a Gateway of the namespace asked for the secret, and got its grant.
AskedFor(ns, secret) ==
  \E key \in DOMAIN ir : \E at \in DOMAIN ir[key].features :
    /\ key.ns = ns /\ secret = Fields(key, at)
    /\ secret.namespace # ns => Foreign(key, at) /\ GrantOf(key, at) \in DOMAIN grants

Secrets(policy) == IF "mTLS" \in DOMAIN policy.spec THEN policy.spec["mTLS"] ELSE <<>>

SecretsInv ==
  \A p \in DOMAIN policies :
    IsList(Secrets(policies[p])) /\ \A secret \in ToSet(Secrets(policies[p])) : AskedFor(p[2], secret)

LEMMA GatewayPass ==
  ASSUME NEW n \in DOMAIN Passes, Passes[n][2] = "Gateway", Passes[n][1] \in Features
  PROVE  Passes[n][1] = "mTLS"
  BY DEF Passes, Features, MergedFeatures, OfRoutePolicies

LEMMA FeaturesStep ==
  ASSUME LoopInv, ResourcesInv, FeaturesInv, [Next]_vars
  PROVE  FeaturesInv'
PROOF
<1>1. ir' = ir
  BY StepOfLoops
<1> SUFFICES ASSUME Filling', NEW key \in DOMAIN ir, key.kind = "Gateway"
             PROVE  resources'[key].features = resources[key].features
  BY <1>1, FillingBefore DEF FeaturesInv
<1>2. Filling /\ key \in DOMAIN resources /\ "features" \in DOMAIN resources[key]
  BY FillingBefore, SizeOfSections DEF ResourcesInv, Faithful, Kept, IsResource
<1>3. CASE VisitResource
  <2>1. PICK k \in pending : \E features \in IF Feature \in MergedFeatures
                       THEN MergeExtensionFeature(resources[k].features, Feature, Size(resources[k]))
                       ELSE {resources[k].features} :
               resources' = [resources EXCEPT ![k].features = features]
    BY <1>3 DEF VisitResource
  <2>2. CASE k = key
    <3>1. pass \in DOMAIN Passes /\ Passes[pass][2] = "Gateway" /\ Passes[pass][1] \in Features
      BY <1>3, <2>1, <2>2 DEF VisitResource, At, LoopInv
    <3>2. Feature = "mTLS" /\ Feature \notin MergedFeatures
      BY <3>1, GatewayPass DEF Feature, MergedFeatures, OfRoutePolicies
    <3>3. resources' = [resources EXCEPT ![k].features = resources[k].features]
      BY <2>1, <3>2
    <3> QED
      BY <1>2, <2>2, <3>3
  <2>3. CASE k # key
    BY <1>2, <2>1, <2>3
  <2> QED
    BY <2>2, <2>3
<1>4. CASE ~VisitResource
  BY <1>2, <1>4, ResourcesStep DEF Refilled
<1> QED
  BY <1>3, <1>4

LEMMA AskedStays ==
  ASSUME ir' = ir, DOMAIN grants \subseteq DOMAIN grants', NEW ns, NEW secret, AskedFor(ns, secret)
  PROVE  AskedFor(ns, secret)'
  BY DEF AskedFor, Foreign, GrantOf, Fields

LEMMA SecretsStay ==
  ASSUME ir' = ir, DOMAIN grants \subseteq DOMAIN grants', SecretsInv, NEW p \in DOMAIN policies,
         p \in DOMAIN policies', policies'[p] = policies[p]
  PROVE  /\ IsList(Secrets(policies'[p]))
         /\ \A secret \in ToSet(Secrets(policies'[p])) : AskedFor(p[2], secret)'
  BY AskedStays DEF SecretsInv

\* The secrets of a policy that gets a setting.
LEMMA SecretsOfSetting ==
  ASSUME TargetsInv, SecretsInv, NEW idx, NEW p, NEW policy, policy = GetOrBuild(p, idx),
         NEW f, NEW setting, NEW q, q = WithSetting(policy, f, setting)
  PROVE  /\ IsList(Secrets(policy)) /\ \A secret \in ToSet(Secrets(policy)) : AskedFor(p[2], secret)
         /\ Secrets(q) = IF f = "mTLS" THEN setting ELSE Secrets(policy)
PROOF
<1>1. CASE p \in DOMAIN policies
  <2>1. policy = policies[p] /\ "spec" \in DOMAIN policy
    BY <1>1 DEF GetOrBuild, TargetsInv, IsTargeted
  <2>2. q.spec = Put(policy.spec, f, setting)
    BY <2>1 DEF WithSetting
  <2>3. Secrets(q) = IF f = "mTLS" THEN setting ELSE Secrets(policy)
    BY <2>2 DEF Secrets, Put
  <2> QED
    BY <1>1, <2>1, <2>3 DEF SecretsInv
<1>2. CASE p \notin DOMAIN policies
  <2>1. policy = [target |-> current, section |-> Section(idx), spec |-> EmptyMap]
    BY <1>2 DEF GetOrBuild
  <2>2. policy.spec = EmptyMap /\ q.spec = Put(policy.spec, f, setting)
    BY <2>1 DEF WithSetting
  <2>3. Secrets(policy) = <<>>
    BY <2>2 DEF Secrets, EmptyMap
  <2>4. Secrets(q) = IF f = "mTLS" THEN setting ELSE <<>>
    BY <2>2 DEF Secrets, Put, EmptyMap
  <2>5. IsList(<<>>) /\ ToSet(<<>>) = {}
    BY DEF IsList, ToSet
  <2> QED
    BY <2>3, <2>4, <2>5
<1> QED
  BY <1>1, <1>2

\* A policy gets the secret after those it has.
LEMMA SecretAppended ==
  ASSUME NEW policy, IsList(Secrets(policy)), NEW fields, NEW ns,
         NEW setting, setting = Setting("mTLS", fields, ns, SettingOf(policy, "mTLS"))
  PROVE  IsList(setting) /\ ToSet(setting) \subseteq ToSet(Secrets(policy)) \union {fields}
PROOF
<1> DEFINE old == SettingOf(policy, "mTLS")
<1>1. setting = IF old = EmptyMap THEN <<fields>> ELSE Append(old, fields)
  BY DEF Setting
<1>2. CASE old = EmptyMap
  <2>1. setting = <<fields>>
    BY <1>1, <1>2
  <2>2. <<fields>> \in Seq({fields}) /\ ToSet(<<fields>>) = {fields}
    BY DEF ToSet
  <2> QED
    BY <2>1, <2>2, SeqIsList
<1>3. CASE old # EmptyMap
  <2>1. old = Secrets(policy)
    BY <1>3 DEF SettingOf, Secrets
  <2> HIDE DEF old
  <2> QED
    BY <1>1, <1>3, <2>1, Appended
<1> QED
  BY <1>2, <1>3

LEMMA MTLSStep ==
  ASSUME LoopInv, ResourcesInv, FeaturesInv, TargetsInv, GrantsInv, SecretsInv, ir' = ir, EmitMTLS
  PROVE  GrantsInv' /\ SecretsInv'
PROOF
<1>1. PICK idx \in todo : EmitMTLS!(idx)
  BY DEF EmitMTLS
<1>2. CASE UNCHANGED <<policies, grants>>
  <2>1. GrantsInv'
    BY <1>2 DEF GrantsInv, Foreign, GrantOf, Fields
  <2>2. SecretsInv'
    BY <1>2, AskedStays DEF SecretsInv
  <2> QED
    BY <2>1, <2>2
<1>3. CASE ~Unsourced(idx)
  <2>1. At(Features) /\ Feature = "mTLS"
    BY <1>1 DEF Emits, At, Feature, Features
  <2>2. Filling /\ current \in DOMAIN ir /\ current.kind = "Gateway"
    <3>1. pass \in DOMAIN Passes /\ Passes[pass][1] = "mTLS"
      BY <2>1 DEF At, Feature
    <3> QED
      BY <2>1, <3>1, FillingAt, IRAtIndex, PassesKinds
  <2>3. PICK at, k : at = <<"mTLS", idx>> /\ k = current
    OBVIOUS
  <2>4. PICK fields : fields = IR(idx).fields
    OBVIOUS
  <2>5. at \in DOMAIN ir[k].features /\ fields = Fields(k, at) /\ at[2] = idx
    <3>1. resources[current].features = ir[current].features
      BY <2>2 DEF FeaturesInv
    <3>2. <<Feature, idx>> \in DOMAIN resources[current].features
          /\ IR(idx) = resources[current].features[<<Feature, idx>>]
      BY <2>2, IRAtIndex
    <3> QED
      BY <2>1, <2>3, <2>4, <3>1, <3>2 DEF Fields
  <2>6. PICK p, policy : p = PolicyKey("mTLS", idx) /\ policy = GetOrBuild(p, idx)
    OBVIOUS
  <2>7. PICK setting : setting = Setting("mTLS", fields, current.ns, SettingOf(policy, "mTLS"))
    OBVIOUS
  <2>8. PICK q : q = WithSetting(policy, "mTLS", setting)
    OBVIOUS
  <2>9. PICK grant : grant = [from |-> "SecurityPolicy", fromNs |-> k.ns, secret |-> fields.name]
    OBVIOUS
  <2>10. /\ policies' = Put(policies, p, q)
         /\ grants' = IF fields.namespace = k.ns THEN grants ELSE Put(grants, GrantKey(p[3], fields), grant)
    BY <1>1, <1>3, <2>3, <2>4, <2>6, <2>7, <2>8, <2>9
  <2>11. p[2] = k.ns /\ GrantKey(p[3], fields) = GrantOf(k, at)
    BY <2>3, <2>5, <2>6 DEF PolicyKey, GrantOf
  <2>12. fields.namespace # k.ns => Foreign(k, at) /\ GrantOf(k, at) \in DOMAIN grants'
    BY <2>2, <2>3, <2>5, <2>10, <2>11 DEF Foreign, Put
  <2>13. DOMAIN grants \subseteq DOMAIN grants'
    BY <2>10 DEF Put
  <2>14. GrantsInv'
    <3> SUFFICES ASSUME NEW g \in DOMAIN grants'
                 PROVE  \E key \in DOMAIN ir : \E x \in DOMAIN ir[key].features :
                          /\ Foreign(key, x) /\ g = GrantOf(key, x)
                          /\ grants'[g].fromNs = key.ns /\ grants'[g].secret = Fields(key, x).name
      BY DEF GrantsInv, Foreign, GrantOf, Fields
    <3>1. CASE fields.namespace # k.ns /\ g = GrantOf(k, at)
      <4>1. grants'[g] = grant
        BY <2>10, <2>11, <3>1 DEF Put
      <4> QED
        BY <2>2, <2>3, <2>5, <2>9, <2>12, <3>1, <4>1
    <3>2. CASE fields.namespace = k.ns \/ g # GrantOf(k, at)
      <4>1. g \in DOMAIN grants /\ grants'[g] = grants[g]
        BY <2>10, <2>11, <3>2 DEF Put
      <4> QED
        BY <4>1 DEF GrantsInv
    <3> QED
      BY <3>1, <3>2
  <2>15. AskedFor(k.ns, fields)'
    <3>1. fields = Fields(k, at)' /\ k \in DOMAIN ir' /\ at \in DOMAIN ir'[k].features
      BY <2>2, <2>3, <2>5 DEF Fields
    <3>2. fields.namespace # k.ns => Foreign(k, at)' /\ GrantOf(k, at)' \in DOMAIN grants'
      BY <2>12 DEF Foreign, GrantOf, Fields
    <3> QED
      BY <3>1, <3>2 DEF AskedFor
  <2>16. IsList(Secrets(q)) /\ \A secret \in ToSet(Secrets(q)) : AskedFor(p[2], secret)'
    <3>1. /\ IsList(Secrets(policy)) /\ \A secret \in ToSet(Secrets(policy)) : AskedFor(p[2], secret)
          /\ Secrets(q) = setting
      BY <2>6, <2>8, SecretsOfSetting
    <3>2. IsList(setting) /\ ToSet(setting) \subseteq ToSet(Secrets(policy)) \union {fields}
      BY <2>7, <3>1, SecretAppended
    <3>3. \A secret \in ToSet(Secrets(policy)) : AskedFor(p[2], secret)'
      BY <2>13, <3>1, AskedStays
    <3> QED
      BY <2>11, <2>15, <3>1, <3>2, <3>3
  <2>17. SecretsInv'
    <3> SUFFICES ASSUME NEW o \in DOMAIN policies'
                 PROVE  /\ IsList(Secrets(policies'[o]))
                        /\ \A secret \in ToSet(Secrets(policies'[o])) : AskedFor(o[2], secret)'
      BY DEF SecretsInv, Secrets
    <3>1. o = p => policies'[o] = q
      BY <2>10 DEF Put
    <3>2. o # p => o \in DOMAIN policies /\ policies'[o] = policies[o]
      BY <2>10 DEF Put
    <3> QED
      BY <2>13, <2>16, <3>1, <3>2, SecretsStay
  <2> QED
    BY <2>14, <2>17
<1> QED
  BY <1>1, <1>2, <1>3

LEMMA OtherPoliciesStep ==
  ASSUME TargetsInv, GrantsInv, SecretsInv, ir' = ir, EmitPolicy
  PROVE  GrantsInv' /\ SecretsInv'
PROOF
<1>1. PICK idx \in todo : EmitPolicy!(idx)
  BY DEF EmitPolicy
<1>2. UNCHANGED grants /\ Feature # "mTLS"
  BY <1>1 DEF Emits, At, Feature, OfRoutePolicies
<1>3. GrantsInv'
  BY <1>2 DEF GrantsInv, Foreign, GrantOf, Fields
<1>4. CASE UNCHANGED policies
  BY <1>2, <1>3, <1>4, AskedStays DEF SecretsInv
<1>5. CASE policies' # policies
  <2>1. PICK p, policy : p = PolicyKey(Feature, idx) /\ policy = GetOrBuild(p, idx)
    OBVIOUS
  <2>2. PICK setting : policies' = Put(policies, p, WithSetting(policy, Feature, setting))
    BY <1>1, <1>5, <2>1
  <2>3. PICK q : q = WithSetting(policy, Feature, setting)
    OBVIOUS
  <2>4. /\ IsList(Secrets(policy)) /\ \A secret \in ToSet(Secrets(policy)) : AskedFor(p[2], secret)
        /\ Secrets(q) = Secrets(policy)
    BY <1>2, <2>1, <2>3, SecretsOfSetting
  <2>5. \A secret \in ToSet(Secrets(q)) : AskedFor(p[2], secret)'
    BY <1>2, <2>4, AskedStays
  <2>6. SecretsInv'
    <3> SUFFICES ASSUME NEW o \in DOMAIN policies'
                 PROVE  /\ IsList(Secrets(policies'[o]))
                        /\ \A secret \in ToSet(Secrets(policies'[o])) : AskedFor(o[2], secret)'
      BY DEF SecretsInv, Secrets
    <3>1. o = p => policies'[o] = q
      BY <2>2, <2>3 DEF Put
    <3>2. o # p => o \in DOMAIN policies /\ policies'[o] = policies[o]
      BY <2>2 DEF Put
    <3> QED
      BY <1>2, <2>4, <2>5, <3>1, <3>2, SecretsStay
  <2> QED
    BY <1>3, <2>6
<1> QED
  BY <1>3, <1>4, <1>5

LEMMA SecretsStep ==
  ASSUME LoopInv, ResourcesInv, FeaturesInv, TargetsInv, GrantsInv, SecretsInv, [Next]_vars
  PROVE  GrantsInv' /\ SecretsInv'
PROOF
<1>1. ir' = ir
  BY StepOfLoops
<1>2. CASE ~EmitPolicy /\ ~EmitMTLS
  <2>1. UNCHANGED <<policies, grants>>
    BY <1>2 DEF Next, NextPass, VisitResource, AlreadyParsed, RemoveBackendRefsDuplicates, EmitRegex,
       EmitRewrite, EmitRedirect, EmitBackendTLS, SortResource, CheckConvertExtensionFeatures,
       EmissionEnded, outputs, vars
  <2>2. GrantsInv'
    BY <1>1, <2>1 DEF GrantsInv, Foreign, GrantOf, Fields
  <2>3. SecretsInv'
    BY <1>1, <2>1, AskedStays DEF SecretsInv
  <2> QED
    BY <2>2, <2>3
<1> QED
  BY <1>1, <1>2, MTLSStep, OtherPoliciesStep

GrantedInv == LoopInv /\ ResourcesInv /\ FeaturesInv /\ TargetsInv /\ GrantsInv /\ SecretsInv

LEMMA AllGranted ==
  ASSUME GrantedInv, GrantNamesApart
  PROVE  SecretsGranted
PROOF
<1> SUFFICES ASSUME NEW p \in DOMAIN policies, "mTLS" \in DOMAIN policies[p].spec,
                    NEW secret \in ToSet(policies[p].spec["mTLS"]), secret.namespace # p[2]
             PROVE  \E g \in DOMAIN grants :
                      /\ g[1] = secret.namespace
                      /\ grants[g].fromNs = p[2] /\ grants[g].secret = secret.name
  BY DEF SecretsGranted
<1>1. AskedFor(p[2], secret)
  BY DEF GrantedInv, SecretsInv, Secrets
<1>2. PICK k \in DOMAIN ir : \E at \in DOMAIN ir[k].features :
        /\ k.ns = p[2] /\ secret = Fields(k, at)
        /\ Foreign(k, at) /\ GrantOf(k, at) \in DOMAIN grants
  BY <1>1 DEF AskedFor
<1>3. PICK at \in DOMAIN ir[k].features :
        /\ k.ns = p[2] /\ secret = Fields(k, at)
        /\ Foreign(k, at) /\ GrantOf(k, at) \in DOMAIN grants
  BY <1>2
<1>4. PICK g \in DOMAIN grants : g = GrantOf(k, at)
  BY <1>3
<1>5. PICK l \in DOMAIN ir : \E x \in DOMAIN ir[l].features :
        /\ Foreign(l, x) /\ g = GrantOf(l, x)
        /\ grants[g].fromNs = l.ns /\ grants[g].secret = Fields(l, x).name
  BY DEF GrantedInv, GrantsInv
<1>6. k.ns = l.ns /\ grants[g].secret = Fields(k, at).name
  BY <1>3, <1>4, <1>5 DEF GrantNamesApart
<1>7. g[1] = secret.namespace
  BY <1>3, <1>4 DEF GrantOf, GrantKey
<1> QED
  BY <1>3, <1>5, <1>6, <1>7

\* For every emitter IR in which two features of Gateways that get a grant of
\* one name are of one namespace and for one secret, a Gateway that has a client
\* certificate from a secret of another namespace has, at any time, a grant
\* there for that secret: also if the names of policies are not apart.
THEOREM SecretsAreGranted == Spec => [](GrantNamesApart => SecretsGranted)
PROOF
<1>1. Init => GrantedInv
  <2> SUFFICES ASSUME Init
               PROVE  GrantedInv
    OBVIOUS
  <2>1. LoopInv /\ ResourcesInv
    BY AtTheStart
  <2>2. TargetsInv /\ GrantsInv /\ SecretsInv
    BY DEF Init, TargetsInv, GrantsInv, SecretsInv, EmptyMap
  <2>3. FeaturesInv
    <3> SUFFICES ASSUME NEW key \in DOMAIN ir
                 PROVE  resources[key].features = ir[key].features
      BY DEF FeaturesInv
    <3>1. resources[key] = Loaded(key, ir[key]) /\ "features" \in DOMAIN ir[key]
      BY <2>1, SizeOfSections DEF Init, IsResource
    <3> QED
      BY <3>1 DEF Loaded
  <2> QED
    BY <2>1, <2>2, <2>3 DEF GrantedInv
<1>2. GrantedInv /\ [Next]_vars => GrantedInv'
  BY LoopStep, ResourcesInvStep, FeaturesStep, TargetsStep, SecretsStep DEF GrantedInv
<1>3. GrantedInv => (GrantNamesApart => SecretsGranted)
  BY AllGranted
<1> QED
  BY <1>1, <1>2, <1>3, PTL DEF Spec
-------------------------------------------------------------------------------
(***************************************************************************)
(* Rules keep their backends                                               *)
(***************************************************************************)
LoadedRefs(key, n) == ir[key].rules[n].backends

AsksTLS(key, n) == <<"backendTLS", n>> \in DOMAIN ir[key].features

TLSSettings(key, n) == IF AsksTLS(key, n) THEN ir[key].features[<<"backendTLS", n>>].fields ELSE EmptyMap

\* The index at which the pass finds what the rule asks for: the one for all
\* rules, if the settings of all of them are merged.
TLSIndex(key, n) ==
  IF Mergeable(ir[key].features, "backendTLS", Size(ir[key])) THEN RouteRuleAllIndex ELSE n

\* The Backend of a service that the rule refers to, and what it should be.
BackendKey(key, n, service) ==
  <<key.ns, PolicyName(key.name, TLSIndex(key, n)) \o <<"-">> \o service>>

BackendFor(key, n, ref) ==
  [service |-> ref.name, ns |-> key.ns, port |-> ref.port, tls |-> TLSSettings(key, n)]

\* The reference is one of a rule that asks for TLS settings.
IsAsked(key, n, ref) ==
  /\ key \in DOMAIN ir /\ key.kind # "Gateway" /\ n \in DOMAIN ir[key].rules
  /\ AsksTLS(key, n) /\ ref \in ToSet(LoadedRefs(key, n))

(***************************************************************************)
(* What the theorem assumes of the IR, besides NoBackendsLoaded            *)
(***************************************************************************)
AllInRange == \A key \in DOMAIN ir : InRange(key)

\* References whose Backends have one name want the same Backend.
BackendsApart ==
  \A k, l \in {key \in DOMAIN ir : key.kind # "Gateway"} :
  \A m \in DOMAIN ir[k].rules : \A n \in DOMAIN ir[l].rules :
    AsksTLS(k, m) /\ AsksTLS(l, n) =>
      \A r \in ToSet(LoadedRefs(k, m)) : \A s \in ToSet(LoadedRefs(l, n)) :
        BackendKey(k, m, r.name) = BackendKey(l, n, s.name) => BackendFor(k, m, r) = BackendFor(l, n, s)

\* When the first of a rule's references to a port has no weight, no other has.
WeightsAlike ==
  \A key \in DOMAIN ir : key.kind = "HTTPRoute" => \A n \in DOMAIN ir[key].rules :
    LET refs == LoadedRefs(key, n)
    IN  \A x, y \in DOMAIN refs :
          x < y /\ RefKey(refs[x]) = RefKey(refs[y]) /\ refs[x].weight = <<>> => refs[y].weight = <<>>

(***************************************************************************)
(* The invariant.  Every reference of a rule leads to a destination of the *)
(* rule that was loaded, as a Service or as a Backend that was built for   *)
(* it; and the weights of the references to each add up to what they did.  *)
(***************************************************************************)
IsRefs(refs) == IsList(refs) /\ \A x \in DOMAIN refs : IsBackendRef(refs[x])

\* Where the rule should send what it sends to the reference.
Goal(key, n, ref) == [kind |-> ref.kind, name |-> ref.name, port |-> ref.port, tls |-> TLSSettings(key, n)]

Goals(key, n) == [y \in DOMAIN LoadedRefs(key, n) |-> Goal(key, n, LoadedRefs(key, n)[y])]

LeadsTo(key, n, ref, goal) ==
  \/ ref.kind # "Backend" /\ goal = Goal(key, n, ref)
  \/ /\ ref.kind = "Backend" /\ AsksTLS(key, n)
     /\ <<key.ns, ref.name>> \in DOMAIN backends
     /\ backends[<<key.ns, ref.name>>] =
          [service |-> goal.name, ns |-> key.ns, port |-> goal.port, tls |-> goal.tls]
     /\ goal = [kind |-> "Service", name |-> goal.name, port |-> goal.port, tls |-> goal.tls]

\* The references with the weights that lead to the goal.
WeightedFor(refs, goals, goal) == {x \in DOMAIN refs : goals[x] = goal /\ refs[x].weight # <<>>}

SameTraffic(refs, goals, refs0, goals0) ==
  /\ {goals[x] : x \in DOMAIN refs} = {goals0[y] : y \in DOMAIN refs0}
  /\ \A goal \in {goals0[y] : y \in DOMAIN refs0} :
       SumOfWeights(refs, WeightedFor(refs, goals, goal))
         = SumOfWeights(refs0, WeightedFor(refs0, goals0, goal))

KeepsTraffic(key, n, refs) ==
  /\ IsRefs(refs)
  /\ \E goals : /\ \A x \in DOMAIN refs : LeadsTo(key, n, refs[x], goals[x])
                /\ SameTraffic(refs, goals, LoadedRefs(key, n), Goals(key, n))

TrafficInv ==
  \A key \in DOMAIN ir : key.kind # "Gateway" => \A m \in 1..Size(ir[key]) :
    LET rule == resources[key].rules[m]
    IN  KeepsTraffic(key, rule.from, rule.backends)

\* Duplicates are removed from what was loaded.
UntouchedInv ==
  pass = 1 => \A key \in pending : \A n \in DOMAIN ir[key].rules :
    resources[key].rules[n].backends = LoadedRefs(key, n)

\* A rule refers to Backends only when the pass is done with it.
MovedInv ==
  Filling => \A key \in DOMAIN ir : key.kind # "Gateway" => \A n \in 1..Size(ir[key]) :
    (\E ref \in ToSet(resources[key].rules[n].backends) : ref.kind = "Backend") =>
      Done("backendTLS", key, TLSIndex(key, n))

\* What is to be converted is merged when all of what was loaded can be.
MergedInv ==
  Filling /\ Feature = "backendTLS" => \A idx \in todo :
    idx = RouteRuleAllIndex <=> Mergeable(ir[current].features, "backendTLS", Size(ir[current]))

\* Backends are built for references that ask for them.
IsBuilt(b, backend) ==
  \E key, n, ref : /\ IsAsked(key, n, ref) /\ ref.port # 0
                   /\ b = BackendKey(key, n, ref.name) /\ backend = BackendFor(key, n, ref)

BuiltInv == \A b \in DOMAIN backends : IsBuilt(b, backends[b])
(***************************************************************************)
(* Sums of weights.  A sum is the number of the units of the weights: the  *)
(* pairs of a place and a number up to the weight there.                   *)
(***************************************************************************)
Units(refs, at) == {u \in at \X Nat : u[2] \in 1..refs[u[1]].weight[1]}

AreWeights(refs, at) == at \subseteq 1..Len(refs) /\ \A n \in at : refs[n].weight[1] \in Nat

WeightAt(refs, at, n) == IF n \in at THEN refs[n].weight[1] ELSE 0

\* The sums of the weights up to each place, at most N.
AreSums(sums, refs, at, N) ==
  sums = [n \in 0..N |-> IF n = 0 THEN 0 ELSE sums[n - 1] + WeightAt(refs, at, n)]

LEMMA SumsExist ==
  ASSUME NEW refs, NEW at
  PROVE  \A N \in Nat : \E sums : AreSums(sums, refs, at, N)
PROOF
<1> DEFINE T == {N \in Nat : ~\E sums : AreSums(sums, refs, at, N)}
<1> SUFFICES ASSUME T # {}
             PROVE  FALSE
  OBVIOUS
<1>1. PICK N \in T : \A m \in T : N <= m
  <2> HIDE DEF T
  <2>1. T \subseteq Nat
    BY DEF T
  <2> QED
    BY <2>1, LeastNatural
<1>2. N \in Nat /\ ~\E sums : AreSums(sums, refs, at, N)
  OBVIOUS
<1>3. CASE N = 0
  <2> DEFINE sums == [n \in 0..0 |-> 0]
  <2>1. sums = [n \in 0..0 |-> IF n = 0 THEN 0 ELSE sums[n - 1] + WeightAt(refs, at, n)]
    OBVIOUS
  <2> HIDE DEF sums
  <2> QED
    BY <1>2, <1>3, <2>1 DEF AreSums
<1>4. CASE N # 0
  <2>1. N - 1 \in Nat /\ N - 1 \notin T
    BY <1>1, <1>2, <1>4
  <2>2. PICK old : AreSums(old, refs, at, N - 1)
    BY <2>1
  <2> DEFINE w(n) == WeightAt(refs, at, n)
             new == [n \in 0..N |-> IF n = N THEN old[N - 1] + w(N) ELSE old[n]]
  <2> HIDE DEF w
  <2>3. old = [n \in 0..(N - 1) |-> IF n = 0 THEN 0 ELSE old[n - 1] + w(n)]
    BY <2>2 DEF AreSums, w
  <2>4. ASSUME NEW n \in 0..N
        PROVE  new[n] = IF n = 0 THEN 0 ELSE new[n - 1] + w(n)
    <3>1. CASE n = N
      BY <1>2, <1>4, <3>1
    <3>2. CASE n # N
      <4>1. n \in 0..(N - 1) /\ new[n] = old[n] /\ (n # 0 => n - 1 \in 0..N /\ n - 1 # N /\ new[n - 1] = old[n - 1])
        BY <1>2, <3>2
      <4>2. old[n] = IF n = 0 THEN 0 ELSE old[n - 1] + w(n)
        BY <2>3, <4>1
      <4> QED
        BY <4>1, <4>2
    <3> QED
      BY <3>1, <3>2
  <2>5. DOMAIN new = 0..N /\ new = [n \in 0..N |-> new[n]]
    OBVIOUS
  <2> HIDE DEF new
  <2>6. new = [n \in 0..N |-> IF n = 0 THEN 0 ELSE new[n - 1] + w(n)]
    BY <2>4, <2>5
  <2> QED
    BY <1>2, <2>6 DEF AreSums, w
<1> QED
  BY <1>3, <1>4

LEMMA SumIsLast ==
  ASSUME NEW refs, NEW at, Len(refs) \in Nat
  PROVE  \E sums : AreSums(sums, refs, at, Len(refs)) /\ SumOfWeights(refs, at) = sums[Len(refs)]
PROOF
<1> DEFINE sums == CHOOSE s : AreSums(s, refs, at, Len(refs))
<1>1. AreSums(sums, refs, at, Len(refs))
  BY SumsExist
<1>2. SumOfWeights(refs, at) = sums[Len(refs)]
  BY DEF SumOfWeights, AreSums, WeightAt
<1> QED
  BY <1>1, <1>2
\* A place has as many units as its weight is.
LEMMA UnitsOfPlace ==
  ASSUME NEW refs, NEW n, NEW w \in Nat, refs[n].weight[1] = w
  PROVE  IsFiniteSet(Units(refs, {n})) /\ Cardinality(Units(refs, {n})) = w
PROOF
<1> DEFINE U == Units(refs, {n})
           unit == [k \in 1..w |-> <<n, k>>]
<1>1. U = {<<n, k>> : k \in 1..w}
  <2>1. \A k \in 1..w : <<n, k>> \in U
    BY DEF Units
  <2>2. ASSUME NEW u \in U
        PROVE  u \in {<<n, k>> : k \in 1..w}
    <3>1. u = <<u[1], u[2]>> /\ u[1] = n /\ u[2] \in 1..w
      BY DEF Units
    <3> QED
      BY <3>1
  <2> QED
    BY <2>1, <2>2
<1> HIDE DEF U
<1>2. unit \in Bijection(1..w, U)
  BY <1>1 DEF Bijection, Injection, Surjection, IsInjective
<1>3. IsFiniteSet(1..w) /\ Cardinality(1..w) = w
  BY FS_Interval
<1> HIDE DEF unit
<1>4. ExistsBijection(1..w, U)
  BY <1>2 DEF ExistsBijection
<1> QED
  BY <1>3, <1>4, FS_Bijection DEF U

LEMMA UnitsOfMore ==
  ASSUME NEW refs, NEW at, NEW n, n \notin at, NEW w \in Nat, refs[n].weight[1] = w,
         IsFiniteSet(Units(refs, at))
  PROVE  /\ IsFiniteSet(Units(refs, at \union {n}))
         /\ Cardinality(Units(refs, at \union {n})) = Cardinality(Units(refs, at)) + w
PROOF
<1> DEFINE S == Units(refs, at)
           T == Units(refs, {n})
<1>1. Units(refs, at \union {n}) = S \union T
  BY DEF Units
<1>2. S \cap T = {}
  BY DEF Units
<1>3. IsFiniteSet(T) /\ Cardinality(T) = w
  BY UnitsOfPlace
<1>4. Cardinality(S) \in Nat /\ Cardinality(S \cap T) = 0
  BY <1>2, FS_CardinalityType, FS_EmptySet
<1> HIDE DEF S, T
<1>5. IsFiniteSet(S \union T) /\ Cardinality(S \union T) = Cardinality(S) + Cardinality(T) - Cardinality(S \cap T)
  BY <1>3, FS_Union DEF S
<1>6. Cardinality(S \union T) = Cardinality(S) + w
  BY <1>3, <1>4, <1>5
<1> QED
  BY <1>1, <1>5, <1>6 DEF S

\* The weights add up to the number of their units.
LEMMA SumCountsUnits ==
  ASSUME NEW refs, NEW at, Len(refs) \in Nat, AreWeights(refs, at)
  PROVE  IsFiniteSet(Units(refs, at)) /\ SumOfWeights(refs, at) = Cardinality(Units(refs, at))
PROOF
<1>1. PICK sums : AreSums(sums, refs, at, Len(refs)) /\ SumOfWeights(refs, at) = sums[Len(refs)]
  BY SumIsLast
<1> DEFINE first(m) == {n \in at : n <= m}
           U(m)     == Units(refs, first(m))
           Counts(m) == IsFiniteSet(U(m)) /\ sums[m] = Cardinality(U(m))
           T == {m \in 0..Len(refs) : ~Counts(m)}
<1>a. \A n \in at : n \in Nat /\ 1 <= n /\ n <= Len(refs)
  BY DEF AreWeights
<1>2. \A m \in 0..Len(refs) : sums[m] = IF m = 0 THEN 0 ELSE sums[m - 1] + WeightAt(refs, at, m)
  BY <1>1 DEF AreSums
<1>3. T = {}
  <2> SUFFICES ASSUME T # {}
               PROVE  FALSE
    OBVIOUS
  <2>1. PICK m \in T : \A k \in T : m <= k
    <3>1. T \subseteq Nat
      OBVIOUS
    <3> HIDE DEF T
    <3> QED
      BY <3>1, LeastNatural
  <2>2. m \in 0..Len(refs) /\ ~Counts(m)
    OBVIOUS
  <2>3. CASE m = 0
    <3>1. U(m) = {}
      <4>1. first(m) = {}
        BY <1>a, <2>3
      <4> HIDE DEF first
      <4>2. first(m) \X Nat = {}
        BY <4>1
      <4> QED
        BY <4>2 DEF Units
    <3>2. IsFiniteSet(U(m)) /\ Cardinality(U(m)) = 0
      BY <3>1, FS_EmptySet
    <3> QED
      BY <1>2, <2>2, <2>3, <3>2
  <2>4. CASE m # 0
    <3>1. m - 1 \in 0..Len(refs) /\ m - 1 \notin T
      BY <2>1, <2>2, <2>4
    <3>2. IsFiniteSet(U(m - 1)) /\ sums[m - 1] = Cardinality(U(m - 1))
      BY <3>1
    <3>3. sums[m] = sums[m - 1] + WeightAt(refs, at, m)
      BY <1>2, <2>2, <2>4
    <3>4. Cardinality(U(m - 1)) \in Nat
      BY <3>2, FS_CardinalityType
    <3>5. CASE m \in at
      <4>1. first(m) = first(m - 1) \union {m} /\ m \notin first(m - 1)
        <5>1. \A n \in at : n <= m <=> n <= m - 1 \/ n = m
          BY <1>a, <2>2
        <5>2. first(m) = first(m - 1) \union {m}
          BY <2>2, <3>5, <5>1
        <5>3. ~(m <= m - 1)
          BY <2>2
        <5> QED
          BY <5>2, <5>3
      <4>2. PICK w \in Nat : refs[m].weight[1] = w
        BY <3>5 DEF AreWeights
      <4>3. IsFiniteSet(U(m)) /\ Cardinality(U(m)) = Cardinality(U(m - 1)) + w
        <5> HIDE DEF first
        <5> QED
          BY <3>2, <4>1, <4>2, UnitsOfMore
      <4>4. WeightAt(refs, at, m) = w
        BY <3>5, <4>2 DEF WeightAt
      <4> HIDE DEF U
      <4> QED
        BY <2>2, <3>2, <3>3, <4>3, <4>4
    <3>6. CASE m \notin at
      <4>1. first(m) = first(m - 1)
        <5>1. \A n \in at : n <= m <=> n <= m - 1
          BY <1>a, <2>2, <3>6
        <5> QED
          BY <5>1
      <4>2. WeightAt(refs, at, m) = 0
        BY <3>6 DEF WeightAt
      <4>3. U(m) = U(m - 1)
        BY <4>1
      <4> HIDE DEF U
      <4> QED
        BY <2>2, <3>2, <3>3, <3>4, <4>2, <4>3
    <3> QED
      BY <3>5, <3>6
  <2> QED
    BY <2>3, <2>4
<1>4. Counts(Len(refs))
  BY <1>3
<1>5. first(Len(refs)) = at
  BY <1>a
<1> QED
  BY <1>1, <1>4, <1>5

\* Sums are those of the weights: which places have them does not matter.
LEMMA SameSums ==
  ASSUME NEW refs, NEW at, NEW list, NEW bt, Len(refs) \in Nat, Len(list) \in Nat,
         AreWeights(refs, at), bt \subseteq 1..Len(list),
         NEW place \in [bt -> at],
         \A m, n \in bt : place[m] = place[n] => m = n,
         \A n \in at : \E m \in bt : place[m] = n,
         \A m \in bt : list[m].weight = refs[place[m]].weight
  PROVE  SumOfWeights(list, bt) = SumOfWeights(refs, at)
PROOF
<1> DEFINE S == Units(list, bt)
           T == Units(refs, at)
           move == [u \in S |-> <<place[u[1]], u[2]>>]
<1>1. AreWeights(list, bt)
  BY DEF AreWeights
<1>2. move \in Bijection(S, T)
  <2>1. \A u \in S : u[1] \in bt /\ u[2] \in Nat /\ u = <<u[1], u[2]>> /\ u[2] \in 1..list[u[1]].weight[1]
    BY DEF Units
  <2>2. \A u \in S : <<place[u[1]], u[2]>> \in T
    BY <2>1 DEF Units
  <2>3. \A u, v \in S : <<place[u[1]], u[2]>> = <<place[v[1]], v[2]>> => u = v
    BY <2>1
  <2>4. ASSUME NEW t \in T
        PROVE  \E u \in S : <<place[u[1]], u[2]>> = t
    <3>1. t[1] \in at /\ t[2] \in Nat /\ t = <<t[1], t[2]>> /\ t[2] \in 1..refs[t[1]].weight[1]
      BY DEF Units
    <3>2. PICK m \in bt : place[m] = t[1]
      BY <3>1
    <3>3. <<m, t[2]>> \in S
      BY <3>1, <3>2 DEF Units
    <3> QED
      BY <3>1, <3>2, <3>3
  <2> HIDE DEF S, T
  <2> QED
    BY <2>2, <2>3, <2>4 DEF Bijection, Injection, Surjection, IsInjective
<1>3. IsFiniteSet(S) /\ SumOfWeights(list, bt) = Cardinality(S) /\ SumOfWeights(refs, at) = Cardinality(T)
  BY <1>1, SumCountsUnits
<1> HIDE DEF S, T, move
<1>4. ExistsBijection(S, T)
  BY <1>2 DEF ExistsBijection
<1> QED
  BY <1>3, <1>4, FS_Bijection

LEMMA SumOfFew ==
  ASSUME NEW refs, Len(refs) \in Nat
  PROVE  /\ SumOfWeights(refs, {}) = 0
         /\ \A n \in 1..Len(refs) : refs[n].weight[1] \in Nat => SumOfWeights(refs, {n}) = refs[n].weight[1]
         /\ \A at : AreWeights(refs, at) => SumOfWeights(refs, at) \in Nat
PROOF
<1>1. SumOfWeights(refs, {}) = 0
  <2>1. Units(refs, {}) = {} /\ AreWeights(refs, {})
    BY DEF Units, AreWeights
  <2> QED
    BY <2>1, SumCountsUnits, FS_EmptySet
<1>2. ASSUME NEW n \in 1..Len(refs), refs[n].weight[1] \in Nat
      PROVE  SumOfWeights(refs, {n}) = refs[n].weight[1]
  <2>1. AreWeights(refs, {n})
    BY <1>2 DEF AreWeights
  <2> QED
    BY <1>2, <2>1, SumCountsUnits, UnitsOfPlace
<1>3. ASSUME NEW at, AreWeights(refs, at)
      PROVE  SumOfWeights(refs, at) \in Nat
  BY <1>3, SumCountsUnits, FS_CardinalityType
<1> QED
  BY <1>1, <1>2, <1>3
(***************************************************************************)
(* What becomes of the sums                                                *)
(***************************************************************************)
LEMMA WeightsOfRefs ==
  ASSUME NEW refs, IsRefs(refs)
  PROVE  /\ Len(refs) \in Nat /\ DOMAIN refs = 1..Len(refs)
         /\ \A goals, goal : AreWeights(refs, WeightedFor(refs, goals, goal))
PROOF
<1>1. Len(refs) \in Nat /\ DOMAIN refs = 1..Len(refs)
  BY DEF IsRefs, IsList
<1>2. \A x \in DOMAIN refs : refs[x].weight # <<>> => refs[x].weight[1] \in Nat
  BY DEF IsRefs, IsBackendRef
<1>3. ASSUME NEW goals, NEW goal
      PROVE  AreWeights(refs, WeightedFor(refs, goals, goal))
  BY <1>1, <1>2 DEF AreWeights, WeightedFor
<1> QED
  BY <1>1, <1>3

\* References in another order, or other references with the same weights, send
\* the same traffic to the same goals.
LEMMA SameWeights ==
  ASSUME NEW refs, NEW list, IsRefs(refs), IsRefs(list),
         NEW order \in [DOMAIN list -> DOMAIN refs],
         \A x, y \in DOMAIN list : order[x] = order[y] => x = y,
         \A y \in DOMAIN refs : \E x \in DOMAIN list : order[x] = y,
         \A x \in DOMAIN list : list[x].weight = refs[order[x]].weight,
         NEW goals, NEW new, \A x \in DOMAIN list : new[x] = goals[order[x]],
         NEW refs0, NEW goals0, SameTraffic(refs, goals, refs0, goals0)
  PROVE  SameTraffic(list, new, refs0, goals0)
PROOF
<1>1. {new[x] : x \in DOMAIN list} = {goals[y] : y \in DOMAIN refs}
  OBVIOUS
<1>2. ASSUME NEW goal
      PROVE  SumOfWeights(list, WeightedFor(list, new, goal)) = SumOfWeights(refs, WeightedFor(refs, goals, goal))
  <2> DEFINE at == WeightedFor(refs, goals, goal)
             bt == WeightedFor(list, new, goal)
             place == [x \in bt |-> order[x]]
  <2>1. bt \subseteq DOMAIN list /\ \A x \in DOMAIN list : x \in bt <=> order[x] \in at
    BY DEF WeightedFor
  <2>2. at \subseteq DOMAIN refs
    BY DEF WeightedFor
  <2>3. /\ Len(refs) \in Nat /\ Len(list) \in Nat /\ DOMAIN list = 1..Len(list)
        /\ AreWeights(refs, at)
    BY WeightsOfRefs
  <2> HIDE DEF at, bt
  <2>4. /\ place \in [bt -> at]
        /\ \A m, n \in bt : place[m] = place[n] => m = n
        /\ \A n \in at : \E m \in bt : place[m] = n
        /\ \A m \in bt : list[m].weight = refs[place[m]].weight
    BY <2>1, <2>2
  <2>5. bt \subseteq 1..Len(list)
    BY <2>1, <2>3
  <2> HIDE DEF place
  <2> QED
    BY <2>3, <2>4, <2>5, SameSums DEF at, bt
<1> QED
  BY <1>1, <1>2 DEF SameTraffic

\* The first of a list's references with a key.
IsFirstRef(refs, key, x) ==
  x \in DOMAIN refs /\ RefKey(refs[x]) = key /\ \A y \in DOMAIN refs : RefKey(refs[y]) = key => x <= y

WeightedOfKey(refs, key) == {n \in DOMAIN refs : RefKey(refs[n]) = key /\ refs[n].weight # <<>>}

LEMMA UniqueRef ==
  ASSUME NEW refs, IsRefs(refs), NEW y \in DOMAIN refs, NEW key, key = RefKey(refs[y]),
         NEW ref, ref = UniqueBackendRef(refs, key)
  PROVE  /\ IsBackendRef(ref) /\ RefKey(ref) = key
         /\ \E x : /\ IsFirstRef(refs, key, x)
                   /\ ref.weight = IF refs[x].weight = <<>> THEN <<>>
                                   ELSE <<SumOfWeights(refs, WeightedOfKey(refs, key))>>
PROOF
<1> DEFINE same == {n \in DOMAIN refs : RefKey(refs[n]) = key}
           at   == {n \in same : refs[n].weight # <<>>}
<1>1. Len(refs) \in Nat /\ DOMAIN refs = 1..Len(refs)
  BY WeightsOfRefs
<1>2. Min(same) \in same /\ \A m \in same : Min(same) <= m
  <2>1. same \subseteq Nat /\ same # {}
    BY <1>1
  <2> HIDE DEF same
  <2>2. \E x \in same : \A m \in same : x <= m
    BY <2>1, LeastNatural
  <2> QED
    BY <2>2 DEF Min
<1>3. at = WeightedOfKey(refs, key)
  BY DEF WeightedOfKey
<1> DEFINE x == Min(same)
           sum == SumOfWeights(refs, at)
           weight == IF refs[x].weight = <<>> THEN <<>> ELSE <<sum>>
<1>4. ref = [refs[x] EXCEPT !.weight = weight]
  <2>1. ref = [refs[x] EXCEPT !.weight = IF @ = <<>> THEN @ ELSE <<sum>>]
    BY DEF UniqueBackendRef
  <2> HIDE DEF sum, x
  <2> QED
    BY <2>1
<1>5. IsFirstRef(refs, key, x)
  BY <1>2 DEF IsFirstRef
<1>6. sum \in Nat
  <2>1. AreWeights(refs, at)
    <3>1. \A n \in DOMAIN refs : refs[n].weight # <<>> => refs[n].weight[1] \in Nat
      BY DEF IsRefs, IsBackendRef
    <3> QED
      BY <1>1, <3>1 DEF AreWeights
  <2> HIDE DEF at
  <2> QED
    BY <1>1, <2>1, SumOfFew
<1> HIDE DEF x, same, at, sum
<1>7. IsBackendRef(refs[x]) /\ RefKey(refs[x]) = key
  BY <1>5 DEF IsFirstRef, IsRefs
<1>8. /\ DOMAIN ref = {"kind", "name", "port", "weight"}
      /\ ref.kind = refs[x].kind /\ ref.name = refs[x].name /\ ref.port = refs[x].port
      /\ ref.weight = weight
  <2> HIDE DEF weight
  <2> QED
    BY <1>4, <1>7 DEF IsBackendRef
<1>9. weight # <<>> => weight[1] \in Nat
  BY <1>6
<1> HIDE DEF weight
<1>10. IsBackendRef(ref)
  BY <1>7, <1>8, <1>9 DEF IsBackendRef
<1>11. RefKey(ref) = key
  BY <1>7, <1>8 DEF RefKey
<1> QED
  BY <1>3, <1>5, <1>8, <1>10, <1>11 DEF weight, sum
\* The map of unique references has one for every key.
LEMMA UniqueList ==
  ASSUME NEW refs, IsRefs(refs), NEW list \in UniqueBackendRefs(refs)
  PROVE  /\ IsRefs(list)
         /\ \A x \in DOMAIN list : \E y \in DOMAIN refs :
              list[x] = UniqueBackendRef(refs, RefKey(refs[y])) /\ RefKey(list[x]) = RefKey(refs[y])
         /\ \A y \in DOMAIN refs : \E x \in DOMAIN list : RefKey(list[x]) = RefKey(refs[y])
         /\ \A x, z \in DOMAIN list : RefKey(list[x]) = RefKey(list[z]) => x = z
PROOF
<1> DEFINE unique == [y \in DOMAIN refs |-> UniqueBackendRef(refs, RefKey(refs[y]))]
           all    == {UniqueBackendRef(refs, key) : key \in {RefKey(ref) : ref \in ToSet(refs)}}
           size   == Cardinality(all)
<1>1. Len(refs) \in Nat /\ DOMAIN refs = 1..Len(refs)
  BY WeightsOfRefs
<1>2. all = {unique[y] : y \in DOMAIN refs}
  BY DEF ToSet
<1>3. list \in [1..size -> all] /\ \A i, j \in 1..size : i # j => list[i] # list[j]
  BY DEF UniqueBackendRefs, SetToSeqs
<1>4. \A y \in DOMAIN refs : IsBackendRef(unique[y]) /\ RefKey(unique[y]) = RefKey(refs[y])
  BY UniqueRef
<1>5. \A y \in DOMAIN refs : unique[y] = UniqueBackendRef(refs, RefKey(refs[y]))
  OBVIOUS
<1> HIDE DEF all
<1>6. IsFiniteSet(all)
  <2>1. IsFiniteSet(DOMAIN refs)
    BY <1>1, FS_Interval
  <2>2. unique \in Surjection(DOMAIN refs, all)
    BY <1>2 DEF Surjection
  <2> HIDE DEF unique
  <2> QED
    BY <2>1, <2>2, FS_Surjection
<1>7. size \in Nat /\ IsFiniteSet(1..size) /\ Cardinality(1..size) = size
  <2>1. size \in Nat
    BY <1>6, FS_CardinalityType
  <2> HIDE DEF size
  <2>2. IsFiniteSet(1..size) /\ Cardinality(1..size) = IF 1 > size THEN 0 ELSE size - 1 + 1
    BY <2>1, FS_Interval
  <2> QED
    BY <2>1, <2>2
<1>8. \A u \in all : \E x \in 1..size : list[x] = u
  <2>1. list \in Injection(1..size, all)
    BY <1>3 DEF Injection, IsInjective
  <2>2. list \in Surjection(1..size, all)
    BY <1>6, <1>7, <2>1, FS_Injection
  <2> QED
    BY <2>2 DEF Surjection
<1> HIDE DEF size, unique
<1>9. DOMAIN list = 1..size /\ IsList(list)
  <2>1. list \in Seq(all)
    BY <1>3, <1>7
  <2> QED
    BY <1>3, <2>1, SeqIsList
<1>10. \A x \in DOMAIN list : \E y \in DOMAIN refs : list[x] = unique[y]
  BY <1>2, <1>3, <1>9
<1>11. \A y \in DOMAIN refs : \E x \in DOMAIN list : list[x] = unique[y]
  BY <1>2, <1>8, <1>9
<1>12. IsRefs(list)
  BY <1>4, <1>9, <1>10 DEF IsRefs
<1>13. ASSUME NEW x \in DOMAIN list, NEW z \in DOMAIN list, RefKey(list[x]) = RefKey(list[z])
       PROVE  x = z
  <2>1. PICK y \in DOMAIN refs : list[x] = unique[y]
    BY <1>10
  <2>2. PICK w \in DOMAIN refs : list[z] = unique[w]
    BY <1>10
  <2>3. RefKey(refs[y]) = RefKey(refs[w])
    BY <1>4, <1>13, <2>1, <2>2
  <2>4. list[x] = list[z]
    BY <1>5, <2>1, <2>2, <2>3
  <2> QED
    BY <1>3, <1>9, <2>4
<1>14. \A y \in DOMAIN refs : \E x \in DOMAIN list : RefKey(list[x]) = RefKey(refs[y])
  BY <1>4, <1>11
<1>15. \A x \in DOMAIN list : \E y \in DOMAIN refs :
         list[x] = UniqueBackendRef(refs, RefKey(refs[y])) /\ RefKey(list[x]) = RefKey(refs[y])
  BY <1>4, <1>5, <1>10
<1> QED
  BY <1>12, <1>13, <1>14, <1>15

\* Of references to one port, the first has a weight or none has.
WeightsAgree(refs) ==
  \A x, y \in DOMAIN refs :
    x < y /\ RefKey(refs[x]) = RefKey(refs[y]) /\ refs[x].weight = <<>> => refs[y].weight = <<>>

\* Joining duplicates changes no sum.
LEMMA DuplicatesJoined ==
  ASSUME NEW refs, IsRefs(refs), WeightsAgree(refs), NEW list \in UniqueBackendRefs(refs),
         NEW goals, NEW goals0,
         \A y, z \in DOMAIN refs : goals0[y] = goals0[z] <=> RefKey(refs[y]) = RefKey(refs[z]),
         \A x \in DOMAIN list : \A y \in DOMAIN refs :
           RefKey(list[x]) = RefKey(refs[y]) => goals[x] = goals0[y]
  PROVE  SameTraffic(list, goals, refs, goals0)
PROOF
<1>1. /\ IsRefs(list)
      /\ \A x \in DOMAIN list : \E y \in DOMAIN refs :
           list[x] = UniqueBackendRef(refs, RefKey(refs[y])) /\ RefKey(list[x]) = RefKey(refs[y])
      /\ \A y \in DOMAIN refs : \E x \in DOMAIN list : RefKey(list[x]) = RefKey(refs[y])
      /\ \A x, z \in DOMAIN list : RefKey(list[x]) = RefKey(list[z]) => x = z
  BY UniqueList
<1>2. {goals[x] : x \in DOMAIN list} = {goals0[y] : y \in DOMAIN refs}
  BY <1>1
<1>3. ASSUME NEW y \in DOMAIN refs
      PROVE  SumOfWeights(list, WeightedFor(list, goals, goals0[y]))
               = SumOfWeights(refs, WeightedFor(refs, goals0, goals0[y]))
  <2> DEFINE key == RefKey(refs[y])
             at  == WeightedOfKey(refs, key)
  <2>1. PICK x \in DOMAIN list : RefKey(list[x]) = key
    BY <1>1
  <2>2. list[x] = UniqueBackendRef(refs, key)
    BY <1>1, <2>1
  <2>3. PICK first : /\ IsFirstRef(refs, key, first)
                     /\ list[x].weight = IF refs[first].weight = <<>> THEN <<>>
                                         ELSE <<SumOfWeights(refs, at)>>
    <3> HIDE DEF at
    <3> QED
      BY <2>2, UniqueRef DEF at
  <2>4. WeightedFor(refs, goals0, goals0[y]) = at
    BY DEF WeightedFor, WeightedOfKey
  <2>5. \A z \in DOMAIN list : goals[z] = goals0[y] <=> z = x
    <3> TAKE z \in DOMAIN list
    <3>1. PICK w \in DOMAIN refs : RefKey(list[z]) = RefKey(refs[w])
      BY <1>1
    <3>2. goals[z] = goals0[w]
      BY <3>1
    <3>3. goals[x] = goals0[y]
      BY <2>1
    <3> QED
      BY <1>1, <2>1, <3>1, <3>2, <3>3
  <2>6. /\ Len(refs) \in Nat /\ DOMAIN refs = 1..Len(refs)
        /\ Len(list) \in Nat /\ DOMAIN list = 1..Len(list)
    BY <1>1, WeightsOfRefs
  <2>7. CASE refs[first].weight = <<>>
    <3>1. \A z \in DOMAIN refs : RefKey(refs[z]) = key => refs[z].weight = <<>>
      <4> TAKE z \in DOMAIN refs
      <4> HAVE RefKey(refs[z]) = key
      <4>1. first \in DOMAIN refs /\ RefKey(refs[first]) = key /\ first <= z
        BY <2>3 DEF IsFirstRef
      <4>2. first = z \/ first < z
        BY <2>6, <4>1
      <4> QED
        BY <2>7, <4>1, <4>2 DEF WeightsAgree
    <3>2. at = {}
      BY <3>1 DEF WeightedOfKey
    <3>3. WeightedFor(list, goals, goals0[y]) = {}
      BY <2>3, <2>5, <2>7 DEF WeightedFor
    <3> QED
      BY <2>4, <2>6, <3>2, <3>3, SumOfFew
  <2>8. CASE refs[first].weight # <<>>
    <3>1. list[x].weight = <<SumOfWeights(refs, at)>>
      BY <2>3, <2>8
    <3>2. list[x].weight # <<>> /\ list[x].weight[1] = SumOfWeights(refs, at)
      <4>1. \A v : <<v>> # <<>> /\ <<v>>[1] = v
        OBVIOUS
      <4> HIDE DEF at
      <4> QED
        BY <3>1, <4>1
    <3>3. WeightedFor(list, goals, goals0[y]) = {x}
      BY <2>5, <3>2 DEF WeightedFor
    <3>4. list[x].weight[1] \in Nat
      BY <1>1, <3>2 DEF IsRefs, IsBackendRef
    <3>5. SumOfWeights(list, {x}) = list[x].weight[1]
      BY <2>6, <3>4, SumOfFew
    <3> QED
      BY <2>4, <3>2, <3>3, <3>5
  <2> QED
    BY <2>7, <2>8
<1> QED
  BY <1>2, <1>3 DEF SameTraffic
(***************************************************************************)
(* What a step may do to the references of a rule                          *)
(***************************************************************************)
LEMMA GoalOfKey ==
  ASSUME NEW key, NEW n, NEW r, NEW s
  PROVE  Goal(key, n, r) = Goal(key, n, s) <=> RefKey(r) = RefKey(s)
PROOF
<1>1. Goal(key, n, r) = Goal(key, n, s) => r.kind = s.kind /\ r.name = s.name /\ r.port = s.port
  BY DEF Goal
<1>2. r.kind = s.kind /\ r.name = s.name /\ r.port = s.port => Goal(key, n, r) = Goal(key, n, s)
  BY DEF Goal
<1>3. RefKey(r) = RefKey(s) <=> r.kind = s.kind /\ r.name = s.name /\ r.port = s.port
  BY DEF RefKey
<1> QED
  BY <1>1, <1>2, <1>3

\* The references that were loaded, none to a Backend.
FreshRefs(refs) == IsRefs(refs) /\ \A x \in DOMAIN refs : refs[x].kind # "Backend"

LEMMA KeptAsLoaded ==
  ASSUME NEW key, NEW n, FreshRefs(LoadedRefs(key, n))
  PROVE  KeepsTraffic(key, n, LoadedRefs(key, n))
PROOF
<1> DEFINE refs == LoadedRefs(key, n)
<1>1. \A x \in DOMAIN refs : LeadsTo(key, n, refs[x], Goals(key, n)[x])
  BY DEF LeadsTo, Goals, FreshRefs
<1>2. SameTraffic(refs, Goals(key, n), refs, Goals(key, n))
  BY DEF SameTraffic
<1> QED
  BY <1>1, <1>2 DEF KeepsTraffic, FreshRefs

LEMMA KeptByJoining ==
  ASSUME NEW key, NEW n, FreshRefs(LoadedRefs(key, n)), WeightsAgree(LoadedRefs(key, n)),
         NEW list \in UniqueBackendRefs(LoadedRefs(key, n))
  PROVE  KeepsTraffic(key, n, list)
PROOF
<1> DEFINE refs == LoadedRefs(key, n)
           goals == [x \in DOMAIN list |-> Goal(key, n, list[x])]
<1>1. /\ IsRefs(list)
      /\ \A x \in DOMAIN list : \E y \in DOMAIN refs : RefKey(list[x]) = RefKey(refs[y])
  BY UniqueList DEF FreshRefs
<1>2. \A x \in DOMAIN list : list[x].kind # "Backend"
  BY <1>1 DEF FreshRefs, RefKey
<1>3. \A x \in DOMAIN list : LeadsTo(key, n, list[x], goals[x])
  BY <1>2 DEF LeadsTo
<1>4. \A y, z \in DOMAIN refs : Goals(key, n)[y] = Goals(key, n)[z] <=> RefKey(refs[y]) = RefKey(refs[z])
  BY GoalOfKey DEF Goals
<1>5. \A x \in DOMAIN list : \A y \in DOMAIN refs :
        RefKey(list[x]) = RefKey(refs[y]) => goals[x] = Goals(key, n)[y]
  BY GoalOfKey DEF Goals
<1> HIDE DEF goals, refs
<1>6. SameTraffic(list, goals, refs, Goals(key, n))
  BY <1>4, <1>5, DuplicatesJoined DEF FreshRefs, refs
<1> QED
  BY <1>1, <1>3, <1>6 DEF KeepsTraffic, refs

LEMMA KeptByReordering ==
  ASSUME NEW key, NEW n, NEW refs, KeepsTraffic(key, n, refs), NEW list \in SortedBackends(refs)
  PROVE  KeepsTraffic(key, n, list)
PROOF
<1>1. PICK goals : /\ \A x \in DOMAIN refs : LeadsTo(key, n, refs[x], goals[x])
                   /\ SameTraffic(refs, goals, LoadedRefs(key, n), Goals(key, n))
  BY DEF KeepsTraffic
<1>2. IsRefs(refs) /\ Len(refs) \in Nat /\ DOMAIN refs = 1..Len(refs)
  BY WeightsOfRefs DEF KeepsTraffic
<1> DEFINE size == Len(refs)
<1>3. PICK order \in SetToSeqs(1..size) : list = [x \in 1..size |-> refs[order[x]]]
  BY <1>2 DEF SortedBackends, SortedLists
<1>4. /\ order \in [1..size -> 1..size]
      /\ \A m \in 1..size : \E x \in 1..size : order[x] = m
      /\ \A x, y \in 1..size : order[x] = order[y] => x = y
  <2>1. order \in [1..size -> 1..size] /\ \A m \in 1..size : \E x \in 1..size : order[x] = m
    BY <1>2, OrderIsOnto
  <2>2. IsFiniteSet(1..size) /\ Cardinality(1..size) = size
    <3>1. size \in Nat
      BY <1>2
    <3> HIDE DEF size
    <3>2. IsFiniteSet(1..size) /\ Cardinality(1..size) = IF 1 > size THEN 0 ELSE size - 1 + 1
      BY <3>1, FS_Interval
    <3> QED
      BY <3>1, <3>2
  <2>3. \A x, y \in 1..size : x # y => order[x] # order[y]
    <3>1. \A x, y \in 1..Cardinality(1..size) : x # y => order[x] # order[y]
      BY DEF SetToSeqs
    <3> HIDE DEF size
    <3> QED
      BY <2>2, <3>1
  <2> QED
    BY <2>1, <2>3
<1> DEFINE new == [x \in 1..size |-> goals[order[x]]]
<1> HIDE DEF size
<1>5. DOMAIN list = 1..size /\ \A x \in 1..size : list[x] = refs[order[x]]
  BY <1>3
<1>6. IsRefs(list)
  <2> DEFINE T == {refs[x] : x \in 1..size}
  <2>1. list \in [1..size -> T]
    BY <1>3, <1>4
  <2>2. \A ref \in T : IsBackendRef(ref)
    BY <1>2 DEF IsRefs, size
  <2> HIDE DEF T
  <2>3. list \in Seq(T)
    BY <1>2, <2>1 DEF size
  <2> QED
    BY <2>1, <2>2, <2>3, SeqIsList DEF IsRefs
<1>7. \A x \in DOMAIN list : LeadsTo(key, n, list[x], new[x])
  BY <1>1, <1>2, <1>4, <1>5 DEF size
<1>8. SameTraffic(list, new, LoadedRefs(key, n), Goals(key, n))
  <2>1. order \in [DOMAIN list -> DOMAIN refs]
    BY <1>2, <1>4, <1>5 DEF size
  <2>2. \A x, y \in DOMAIN list : order[x] = order[y] => x = y
    BY <1>4, <1>5
  <2>3. \A y \in DOMAIN refs : \E x \in DOMAIN list : order[x] = y
    BY <1>2, <1>4, <1>5 DEF size
  <2>4. \A x \in DOMAIN list : list[x].weight = refs[order[x]].weight
    BY <1>5
  <2>5. \A x \in DOMAIN list : new[x] = goals[order[x]]
    BY <1>5
  <2>6. PICK refs0, goals0 : refs0 = LoadedRefs(key, n) /\ goals0 = Goals(key, n)
    OBVIOUS
  <2>7. SameTraffic(refs, goals, refs0, goals0) /\ IsRefs(refs)
    BY <1>1, <1>2, <2>6
  <2> HIDE DEF new
  <2>8. SameTraffic(list, new, refs0, goals0)
    BY <1>6, <2>1, <2>2, <2>3, <2>4, <2>5, <2>7, SameWeights
  <2> QED
    BY <2>6, <2>8
<1> QED
  BY <1>6, <1>7, <1>8 DEF KeepsTraffic

\* No Backend is lost or changed.
BackendsStay == \A b \in DOMAIN backends : b \in DOMAIN backends' /\ backends'[b] = backends[b]

LEMMA KeptStays ==
  ASSUME ir' = ir, BackendsStay, NEW key, NEW n, NEW refs, KeepsTraffic(key, n, refs)
  PROVE  KeepsTraffic(key, n, refs)'
PROOF
<1>1. /\ LoadedRefs(key, n)' = LoadedRefs(key, n) /\ Goals(key, n)' = Goals(key, n)
      /\ AsksTLS(key, n)' = AsksTLS(key, n)
      /\ \A ref : Goal(key, n, ref)' = Goal(key, n, ref)
  BY DEF LoadedRefs, Goals, Goal, AsksTLS, TLSSettings
<1>2. ASSUME NEW ref, NEW goal, LeadsTo(key, n, ref, goal)
      PROVE  LeadsTo(key, n, ref, goal)'
  BY <1>1, <1>2 DEF LeadsTo, BackendsStay
<1>3. PICK goals : /\ \A x \in DOMAIN refs : LeadsTo(key, n, refs[x], goals[x])
                   /\ SameTraffic(refs, goals, LoadedRefs(key, n), Goals(key, n))
  BY DEF KeepsTraffic
<1>4. \A x \in DOMAIN refs : LeadsTo(key, n, refs[x], goals[x])'
  BY <1>2, <1>3
<1>5. SameTraffic(refs, goals, LoadedRefs(key, n), Goals(key, n))'
  BY <1>1, <1>3
<1>6. IsRefs(refs)
  BY DEF KeepsTraffic
<1> QED
  BY <1>4, <1>5, <1>6 DEF KeepsTraffic
(***************************************************************************)
(* The passes that keep the references of every rule                       *)
(***************************************************************************)
RefsKept(key) ==
  \A n \in 1..Size(ir[key]) :
    /\ resources'[key].rules[n].from = resources[key].rules[n].from
    /\ resources'[key].rules[n].backends = resources[key].rules[n].backends

AllRefsKept == \A key \in DOMAIN ir : key.kind # "Gateway" => RefsKept(key)

LEMMA OneRuleKept ==
  ASSUME LoopInv, ResourcesInv, RulesInv, At(Features \ {"mTLS"}), NEW any \in todo,
         NEW idx \in DOMAIN resources[current].rules, NEW rule,
         resources' = [resources EXCEPT ![current].rules[idx] = rule],
         Shaped(resources[current].rules[idx]) =>
           /\ rule.from = resources[current].rules[idx].from
           /\ rule.backends = resources[current].rules[idx].backends
  PROVE  AllRefsKept
PROOF
<1>1. current \in DOMAIN resources /\ "rules" \in DOMAIN resources[current]
  BY AtRoute DEF ResourcesInv, RulesInv
<1>2. Shaped(resources[current].rules[idx])
  BY RuleToTreat
<1>3. ASSUME NEW key \in DOMAIN ir, key.kind # "Gateway"
      PROVE  RefsKept(key)
  <2>1. CASE key # current
    BY <2>1 DEF ResourcesInv, RefsKept
  <2>2. CASE key = current
    <3> DEFINE s == resources[current].rules
               t == [s EXCEPT ![idx] = rule]
    <3>1. resources'[current].rules = t
      BY <1>1
    <3>2. \A n \in DOMAIN s : t[n] = IF n = idx THEN rule ELSE s[n]
      OBVIOUS
    <3>3. DOMAIN s = 1..Size(ir[current])
      <4>1. ShapedRules(s, Size(ir[current]))
        BY <1>3, <2>2 DEF RulesInv
      <4> HIDE DEF s
      <4> QED
        BY <4>1 DEF ShapedRules
    <3> HIDE DEF t
    <3> QED
      BY <1>2, <2>2, <3>1, <3>2, <3>3 DEF RefsKept
  <2> QED
    BY <2>1, <2>2
<1> QED
  BY <1>3 DEF AllRefsKept

LEMMA FiltersKeepRefs ==
  ASSUME LoopInv, ResourcesInv, RulesInv, EmitRegex \/ EmitRewrite \/ EmitRedirect
  PROVE  AllRefsKept
PROOF
<1>1. PICK idx \in todo : At(Features \ {"mTLS"})
  BY DEF EmitRegex, EmitRewrite, EmitRedirect, Emits, At, Features, MergedFeatures
<1>2. CASE resources' = resources
  BY <1>2 DEF AllRefsKept, RefsKept
<1>3. CASE EmitRegex /\ resources' # resources
  <2>1. PICK n \in todo :
          /\ n \in DOMAIN resources[current].rules
          /\ resources' = [resources EXCEPT ![current].rules[n].path.type = "RegularExpression"]
    BY <1>3 DEF EmitRegex, NoRule, Resource
  <2> DEFINE r == resources[current].rules[n]
  <2>2. PICK rule : rule = [r EXCEPT !.path.type = "RegularExpression"]
    OBVIOUS
  <2>3. resources' = [resources EXCEPT ![current].rules[n] = rule]
    BY <2>1, <2>2
  <2>4. Shaped(r) => rule.from = r.from /\ rule.backends = r.backends
    <3> HIDE DEF r
    <3> QED
      BY <2>2 DEF Shaped
  <2> QED
    BY <1>1, <2>1, <2>3, <2>4, OneRuleKept
<1>4. CASE EmitRewrite /\ resources' # resources
  <2>1. PICK n \in todo : EmitRewrite!(n)
    BY <1>4 DEF EmitRewrite
  <2> DEFINE r == resources[current].rules[n]
             ref == [type |-> "ExtensionRef", name |-> Numbered(current.name, n)]
             url == [type |-> "URLRewrite", path |-> IR(n).fields.target]
  <2>2. \A pattern : HTTPRouteFilterOf(n, pattern).name = Numbered(current.name, n)
    BY DEF HTTPRouteFilterOf
  <2>3. /\ n \in DOMAIN resources[current].rules
        /\ \/ resources' = [resources EXCEPT ![current].rules[n] =
                WithFilter([@ EXCEPT !.path = RootPath], ref)]
           \/ resources' = [resources EXCEPT ![current].rules[n] = WithFilter(@, url)]
    BY <1>4, <2>1, <2>2 DEF NoRule, Resource
  <2>4. PICK filter, old : /\ old = r \/ old = [r EXCEPT !.path = RootPath]
                           /\ resources' = [resources EXCEPT ![current].rules[n] = WithFilter(old, filter)]
    <3> HIDE DEF ref, url
    <3> QED
      BY <2>3
  <2>5. PICK rule : rule = WithFilter(old, filter)
    OBVIOUS
  <2>6. Shaped(r) => rule.from = r.from /\ rule.backends = r.backends
    <3> HIDE DEF r
    <3>1. Shaped(r) => {"from", "backends", "filters"} \subseteq DOMAIN old /\ old.from = r.from /\ old.backends = r.backends
      BY <2>4 DEF Shaped
    <3>2. rule = [old EXCEPT !.filters = Append(@, filter)]
      BY <2>5 DEF WithFilter
    <3> QED
      BY <3>1, <3>2
  <2> QED
    BY <1>1, <2>3, <2>4, <2>5, <2>6, OneRuleKept
<1>5. CASE EmitRedirect /\ resources' # resources
  <2>1. PICK n \in todo :
          /\ n \in DOMAIN resources[current].rules
          /\ resources' = [resources EXCEPT ![current].rules[n].filters = @ \o RedirectFilters(IR(n).fields)]
    BY <1>5 DEF EmitRedirect, NoRule, Resource
  <2> DEFINE r == resources[current].rules[n]
  <2>2. PICK rule : rule = [r EXCEPT !.filters = @ \o RedirectFilters(IR(n).fields)]
    OBVIOUS
  <2>3. resources' = [resources EXCEPT ![current].rules[n] = rule]
    BY <2>1, <2>2
  <2>4. Shaped(r) => rule.from = r.from /\ rule.backends = r.backends
    <3> HIDE DEF r
    <3> QED
      BY <2>2 DEF Shaped
  <2> QED
    BY <1>1, <2>1, <2>3, <2>4, OneRuleKept
<1> QED
  BY <1>2, <1>3, <1>4, <1>5

\* All but three actions keep the references, and the Backends.
LEMMA OthersKeepRefs ==
  ASSUME LoopInv, ResourcesInv, RulesInv, [Next]_vars,
         ~RemoveBackendRefsDuplicates, ~EmitBackendTLS, ~SortResource
  PROVE  AllRefsKept /\ backends' = backends
PROOF
<1>1. CASE VisitResource
  <2>1. PICK visited : Visits(visited)
    BY <1>1, VisitOfResource
  <2>2. PICK features : resources' = [resources EXCEPT ![visited].features = features]
    BY <2>1 DEF Visits
  <2>3. ASSUME NEW key \in DOMAIN ir, key.kind # "Gateway"
        PROVE  resources'[key].rules = resources[key].rules
    <3>1. \/ resources'[key] = [resources[key] EXCEPT !.features = features]
          \/ resources'[key] = resources[key]
      BY <2>2 DEF ResourcesInv
    <3>2. DOMAIN resources[key] = {"features", "parentRefs", "rules"}
      BY <2>3 DEF RulesInv
    <3> QED
      BY <3>1, <3>2
  <2> QED
    BY <1>1, <2>3 DEF AllRefsKept, RefsKept, VisitResource, outputs
<1>2. CASE EmitRegex \/ EmitRewrite \/ EmitRedirect
  BY <1>2, FiltersKeepRefs DEF EmitRegex, EmitRewrite, EmitRedirect, outputs
<1>3. CASE NextPass \/ AlreadyParsed \/ EmitPolicy \/ EmitMTLS \/ CheckConvertExtensionFeatures
           \/ EmissionEnded \/ UNCHANGED vars
  <2>1. resources' = resources /\ backends' = backends
    BY <1>3 DEF NextPass, AlreadyParsed, EmitPolicy, EmitMTLS, CheckConvertExtensionFeatures,
                EmissionEnded, vars, outputs
  <2> QED
    BY <2>1 DEF AllRefsKept, RefsKept
<1> QED
  BY <1>1, <1>2, <1>3 DEF Next
(***************************************************************************)
(* Backends in place of Services                                           *)
(***************************************************************************)
LEMMA KeptByMoving ==
  ASSUME ir' = ir, NEW key, NEW n, AsksTLS(key, n), NEW refs, KeepsTraffic(key, n, refs),
         NEW list, IsRefs(list), DOMAIN list = DOMAIN refs,
         \A x \in DOMAIN refs :
           /\ refs[x].kind = "Service" /\ list[x].kind = "Backend" /\ list[x].weight = refs[x].weight
           /\ <<key.ns, list[x].name>> \in DOMAIN backends'
           /\ backends'[<<key.ns, list[x].name>>] = BackendFor(key, n, refs[x])
  PROVE  KeepsTraffic(key, n, list)'
PROOF
<1>1. PICK goals : /\ \A x \in DOMAIN refs : LeadsTo(key, n, refs[x], goals[x])
                   /\ SameTraffic(refs, goals, LoadedRefs(key, n), Goals(key, n))
  BY DEF KeepsTraffic
<1>2. IsRefs(refs)
  BY DEF KeepsTraffic
<1>3. /\ LoadedRefs(key, n)' = LoadedRefs(key, n) /\ Goals(key, n)' = Goals(key, n)
      /\ AsksTLS(key, n)' = AsksTLS(key, n)
  BY DEF LoadedRefs, Goals, Goal, AsksTLS, TLSSettings
<1>4. ASSUME NEW x \in DOMAIN refs
      PROVE  LeadsTo(key, n, list[x], goals[x])'
  <2>1. PICK ref, to, goal : ref = refs[x] /\ to = list[x] /\ goal = goals[x]
    OBVIOUS
  <2>2. goal = [kind |-> "Service", name |-> ref.name, port |-> ref.port, tls |-> TLSSettings(key, n)]
    BY <1>1, <2>1 DEF LeadsTo, Goal
  <2>3. /\ goal.name = ref.name /\ goal.port = ref.port /\ goal.tls = TLSSettings(key, n)
        /\ goal = [kind |-> "Service", name |-> goal.name, port |-> goal.port, tls |-> goal.tls]
    BY <2>2
  <2>4. /\ to.kind = "Backend" /\ <<key.ns, to.name>> \in DOMAIN backends'
        /\ backends'[<<key.ns, to.name>>] =
             [service |-> goal.name, ns |-> key.ns, port |-> goal.port, tls |-> goal.tls]
    BY <2>1, <2>3 DEF BackendFor
  <2>5. LeadsTo(key, n, to, goal)'
    BY <1>3, <2>3, <2>4 DEF LeadsTo
  <2> QED
    BY <2>1, <2>5
<1>5. SameTraffic(list, goals, LoadedRefs(key, n), Goals(key, n))
  <2>1. PICK refs0, goals0 : refs0 = LoadedRefs(key, n) /\ goals0 = Goals(key, n)
    OBVIOUS
  <2>2. SameTraffic(refs, goals, refs0, goals0)
    BY <1>1, <2>1
  <2>3. PICK order : order = [x \in DOMAIN list |-> x]
    OBVIOUS
  <2>4. /\ order \in [DOMAIN list -> DOMAIN refs]
        /\ \A x, y \in DOMAIN list : order[x] = order[y] => x = y
        /\ \A y \in DOMAIN refs : \E x \in DOMAIN list : order[x] = y
        /\ \A x \in DOMAIN list : list[x].weight = refs[order[x]].weight
        /\ \A x \in DOMAIN list : goals[x] = goals[order[x]]
    BY <2>3
  <2>5. SameTraffic(list, goals, refs0, goals0)
    BY <1>2, <2>2, <2>4, SameWeights
  <2> QED
    BY <2>1, <2>5
<1>6. SameTraffic(list, goals, LoadedRefs(key, n), Goals(key, n))'
  BY <1>3, <1>5
<1> QED
  BY <1>4, <1>6 DEF KeepsTraffic
(***************************************************************************)
(* The index at which a rule's settings are found                          *)
(***************************************************************************)
LEMMA MergeableAsLoaded ==
  ASSUME NEW fs, NEW fs0, NEW size \in Nat, NEW visited, AskTheSame(fs, fs0, size, visited),
         \A at \in DOMAIN fs0 : at = <<at[1], at[2]>>, NEW f \in Features \ visited
  PROVE  /\ RouteRuleAllIndex \notin IndicesOf(fs, f)
         /\ Mergeable(fs, f, size) <=> Mergeable(fs0, f, size)
PROOF
<1>1. \A at \in DOMAIN fs : at = <<at[1], at[2]>> /\ at[2] \in {RouteRuleAllIndex} \union 1..size
  BY DEF AskTheSame, IndexedBy
<1>2. <<f, RouteRuleAllIndex>> \notin DOMAIN fs /\ <<f, RouteRuleAllIndex>> \notin DOMAIN fs0
  <2>1. \A at \in DOMAIN fs0 : at[2] # RouteRuleAllIndex
    BY DEF AskTheSame, RouteRuleAllIndex
  <2> QED
    BY <2>1 DEF AskTheSame
<1>3. \A n : n \in IndicesOf(fs, f) <=> n \in 1..size /\ <<f, n>> \in DOMAIN fs
  <2> TAKE n
  <2>1. ASSUME n \in IndicesOf(fs, f)
        PROVE  n \in 1..size /\ <<f, n>> \in DOMAIN fs
    BY <1>1, <1>2, <2>1 DEF IndicesOf
  <2>2. ASSUME <<f, n>> \in DOMAIN fs
        PROVE  n \in IndicesOf(fs, f)
    <3>1. <<f, n>>[1] = f /\ <<f, n>>[2] = n
      OBVIOUS
    <3> QED
      BY <2>2, <3>1 DEF IndicesOf
  <2> QED
    BY <2>1, <2>2
<1>4. \A n : n \in IndicesOf(fs0, f) <=> n \in 1..size /\ <<f, n>> \in DOMAIN fs0
  <2> TAKE n
  <2>1. ASSUME n \in IndicesOf(fs0, f)
        PROVE  n \in 1..size /\ <<f, n>> \in DOMAIN fs0
    BY <2>1 DEF IndicesOf, AskTheSame
  <2>2. ASSUME <<f, n>> \in DOMAIN fs0
        PROVE  n \in IndicesOf(fs0, f)
    <3>1. <<f, n>>[1] = f /\ <<f, n>>[2] = n
      OBVIOUS
    <3> QED
      BY <2>2, <3>1 DEF IndicesOf
  <2> QED
    BY <2>1, <2>2
<1>5. ASSUME NEW n \in 1..size
      PROVE  /\ <<f, n>> \in DOMAIN fs <=> <<f, n>> \in DOMAIN fs0
             /\ <<f, n>> \in DOMAIN fs => fs[<<f, n>>].fields = fs0[<<f, n>>].fields
  <2>1. Asked(fs, f, n) = Asked(fs0, f, n)
    BY DEF AskTheSame
  <2>2. \A x : x \in Asked(fs, f, n) <=> <<f, n>> \in DOMAIN fs /\ x = fs[<<f, n>>].fields
    BY <1>2 DEF Asked
  <2>3. \A x : x \in Asked(fs0, f, n) <=> <<f, n>> \in DOMAIN fs0 /\ x = fs0[<<f, n>>].fields
    BY <1>2 DEF Asked
  <2> QED
    BY <2>1, <2>2, <2>3
<1>6. IndicesOf(fs, f) = IndicesOf(fs0, f)
  BY <1>3, <1>4, <1>5
<1>7. AllEqual(fs, f) <=> AllEqual(fs0, f)
  <2>1. \A n \in IndicesOf(fs, f) : fs[<<f, n>>].fields = fs0[<<f, n>>].fields
    BY <1>3, <1>5
  <2> QED
    BY <1>6, <2>1 DEF AllEqual, Equals
<1>8. RouteRuleAllIndex \notin IndicesOf(fs, f)
  BY <1>2, <1>3
<1> QED
  BY <1>6, <1>7, <1>8 DEF Mergeable

LEMMA MergedStep ==
  ASSUME AllInRange, LoopInv, ResourcesInv, MergedInv, [Next]_vars
  PROVE  MergedInv'
PROOF
<1>1. ir' = ir /\ (Continues \/ pass' = Panicked \/ NextPass \/ VisitResource)
  BY StepOfLoops
<1>2. CASE Continues
  BY <1>1, <1>2 DEF Continues, MergedInv, Filling, Sorting, Feature
<1>3. CASE pass' = Panicked
  BY <1>3, PassesDistinct DEF MergedInv, Filling
<1>4. CASE NextPass
  BY <1>4 DEF NextPass, MergedInv
<1>5. CASE VisitResource /\ Feature = "backendTLS"
  <2>1. PICK key \in pending :
          \E features \in MergeExtensionFeature(resources[key].features, Feature, Size(resources[key])) :
            current' = key /\ todo' = IndicesOf(features, Feature)
    BY <1>5 DEF VisitResource, MergedFeatures
  <2>2. PICK features \in MergeExtensionFeature(resources[key].features, Feature, Size(resources[key])) :
          current' = key /\ todo' = IndicesOf(features, Feature)
    BY <2>1
  <2> DEFINE fs   == resources[key].features
             fs0  == ir[key].features
             size == Size(ir[key])
  <2>3. Filling /\ pass \in DOMAIN Passes /\ Feature \in Features
    BY <1>5, FillingAt DEF VisitResource, At, Feature
  <2>4. key \in DOMAIN ir /\ key.kind = Passes[pass][2]
    BY <2>3 DEF LoopInv
  <2>5. Faithful(key, resources[key]) /\ IsResource(key, ir[key]) /\ size \in Nat
    BY <2>3, <2>4, SizeOfSections DEF ResourcesInv
  <2>6. Size(resources[key]) = size
    BY <2>5, KeptSize DEF Faithful
  <2>7. AskTheSame(fs, fs0, size, Visited(key))
    BY <2>4, <2>5 DEF Faithful, AllInRange
  <2>8. Feature \notin Visited(key)
    <3>1. ASSUME NEW m \in DOMAIN Passes, Passes[m] = <<Feature, key.kind>>
          PROVE  m = pass
      BY <2>3, <2>4, <3>1, OnePass
    <3> QED
      BY <2>3, <3>1, PassesDistinct DEF Visited
  <2>9. \A at \in DOMAIN fs0 : at = <<at[1], at[2]>>
    BY <2>5 DEF IsResource
  <2> HIDE DEF fs, fs0, size
  <2>10. /\ RouteRuleAllIndex \notin IndicesOf(fs, Feature)
         /\ Mergeable(fs, Feature, size) <=> Mergeable(fs0, Feature, size)
    BY <2>3, <2>5, <2>7, <2>8, <2>9, MergeableAsLoaded
  <2>11. features \in MergeExtensionFeature(fs, Feature, size)
    BY <2>2, <2>6 DEF fs
  <2>12. \A idx \in todo' : idx = RouteRuleAllIndex <=> Mergeable(fs0, Feature, size)
    <3>1. CASE Mergeable(fs, Feature, size)
      <4>1. PICK n : features = Merged(fs, Feature, fs[<<Feature, n>>])
        BY <2>11, <3>1 DEF MergeExtensionFeature
      <4>2. DOMAIN features = {x \in DOMAIN fs : x[1] # Feature} \union {<<Feature, RouteRuleAllIndex>>}
        BY <4>1 DEF Merged
      <4>3. \A idx \in IndicesOf(features, Feature) : idx = RouteRuleAllIndex
        BY <4>2 DEF IndicesOf
      <4> QED
        BY <2>2, <2>10, <3>1, <4>3
    <3>2. CASE ~Mergeable(fs, Feature, size)
      <4>1. features = fs
        BY <2>11, <3>2 DEF MergeExtensionFeature
      <4> QED
        BY <2>2, <2>10, <3>2, <4>1
    <3> QED
      BY <3>1, <3>2
  <2>13. current' = key
    BY <2>2
  <2> QED
    BY <1>1, <1>5, <2>12, <2>13 DEF MergedInv, fs0, size
<1>6. CASE VisitResource /\ Feature # "backendTLS"
  BY <1>6 DEF VisitResource, MergedInv, Feature
<1> QED
  BY <1>1, <1>2, <1>3, <1>4, <1>5, <1>6
(***************************************************************************)
(* The Backends that are built                                             *)
(***************************************************************************)
\* A reference to the service in one of the rules.
RefersTo(rules, targets, service, ref) ==
  \E n \in targets : \E x \in DOMAIN rules[n].backends : ref = rules[n].backends[x] /\ ref.name = service

LEMMA FirstRefOfService ==
  ASSUME NEW rules, NEW targets, targets \subseteq Nat, NEW service,
         UNION {DOMAIN rules[n].backends : n \in targets} \subseteq Nat,
         NEW any, RefersTo(rules, targets, service, any)
  PROVE  RefersTo(rules, targets, service, FirstRef(rules, targets, service))
PROOF
<1> DEFINE places(n) == {x \in DOMAIN rules[n].backends : rules[n].backends[x].name = service}
           having    == {m \in targets : places(m) # {}}
           n         == Min(having)
<1>1. FirstRef(rules, targets, service) = rules[n].backends[Min(places(n))]
  BY DEF FirstRef
<1>2. having \subseteq Nat /\ having # {}
  BY DEF RefersTo
<1>3. n \in having
  <2> HIDE DEF having
  <2>1. \E m \in having : \A k \in having : m <= k
    BY <1>2, LeastNatural
  <2> QED
    BY <2>1 DEF Min
<1>4. n \in targets /\ places(n) # {}
  BY <1>3
<1> HIDE DEF n, having
<1>5. places(n) \subseteq Nat
  BY <1>4
<1>6. Min(places(n)) \in places(n)
  <2> DEFINE T == places(n)
  <2> HIDE DEF places
  <2>1. T \subseteq Nat /\ T # {}
    BY <1>4, <1>5
  <2> HIDE DEF T
  <2>2. \E m \in T : \A k \in T : m <= k
    BY <2>1, LeastNatural
  <2>3. Min(T) \in T
    BY <2>2 DEF Min
  <2> QED
    BY <2>3 DEF T
<1> QED
  BY <1>1, <1>4, <1>6 DEF RefersTo

\* References with one name of a Backend want what was built with that name.
LEMMA BuiltFor ==
  ASSUME BackendsApart, NEW b, NEW backend, IsBuilt(b, backend),
         NEW key, NEW n, NEW ref, IsAsked(key, n, ref), b = BackendKey(key, n, ref.name)
  PROVE  backend = BackendFor(key, n, ref) /\ ref.port # 0
PROOF
<1>1. PICK k, m, r : /\ IsAsked(k, m, r) /\ r.port # 0
                     /\ b = BackendKey(k, m, r.name) /\ backend = BackendFor(k, m, r)
  BY DEF IsBuilt
<1>2. BackendFor(k, m, r) = BackendFor(key, n, ref)
  <2> DEFINE routes == {x \in DOMAIN ir : x.kind # "Gateway"}
  <2>1. /\ k \in routes /\ m \in DOMAIN ir[k].rules /\ AsksTLS(k, m) /\ r \in ToSet(LoadedRefs(k, m))
        /\ key \in routes /\ n \in DOMAIN ir[key].rules /\ AsksTLS(key, n)
        /\ ref \in ToSet(LoadedRefs(key, n))
    BY <1>1 DEF IsAsked
  <2>2. BackendKey(k, m, r.name) = BackendKey(key, n, ref.name)
    BY <1>1
  <2> HIDE DEF routes
  <2> QED
    BY <2>1, <2>2, Zenon DEF BackendsApart, routes
<1>3. BackendFor(k, m, r).port = r.port /\ BackendFor(key, n, ref).port = ref.port
  BY DEF BackendFor
<1> QED
  BY <1>1, <1>2, <1>3

LEMMA BuiltOnce ==
  ASSUME BackendsApart, NEW b, NEW v, NEW w, IsBuilt(b, v), IsBuilt(b, w)
  PROVE  v = w
PROOF
<1>1. PICK key, n, ref : /\ IsAsked(key, n, ref) /\ ref.port # 0
                         /\ b = BackendKey(key, n, ref.name) /\ v = BackendFor(key, n, ref)
  BY DEF IsBuilt
<1> QED
  BY <1>1, BuiltFor

\* The settings are laid over those of a Backend that exists, which are the same.
LEMMA SettingsOver ==
  ASSUME NEW fields, IsMap(fields)
  PROVE  Over(fields, EmptyMap) = fields /\ Over(fields, fields) = fields
  BY DEF Over, EmptyMap, IsMap
LEMMA UnmovedRef ==
  ASSUME NEW key, NEW n, NEW refs, KeepsTraffic(key, n, refs), NEW x \in DOMAIN refs, refs[x].kind # "Backend"
  PROVE  /\ IsBackendRef(refs[x])
         /\ \E ref \in ToSet(LoadedRefs(key, n)) :
              ref.kind = refs[x].kind /\ ref.name = refs[x].name /\ ref.port = refs[x].port
PROOF
<1>1. PICK goals : /\ LeadsTo(key, n, refs[x], goals[x])
                   /\ SameTraffic(refs, goals, LoadedRefs(key, n), Goals(key, n))
  BY DEF KeepsTraffic
<1>2. goals[x] = Goal(key, n, refs[x])
  BY <1>1 DEF LeadsTo
<1>3. PICK y \in DOMAIN LoadedRefs(key, n) : goals[x] = Goals(key, n)[y]
  BY <1>1 DEF SameTraffic
<1>4. Goals(key, n)[y] = Goal(key, n, LoadedRefs(key, n)[y])
  BY DEF Goals
<1>5. LoadedRefs(key, n)[y] \in ToSet(LoadedRefs(key, n))
  BY DEF ToSet
<1>6. IsBackendRef(refs[x])
  BY DEF KeepsTraffic, IsRefs
<1> QED
  BY <1>2, <1>3, <1>4, <1>5, <1>6 DEF Goal

\* A rule for which the pass has settings.
Asking(key, n, idx) ==
  /\ key \in DOMAIN ir /\ key.kind # "Gateway" /\ n \in DOMAIN ir[key].rules /\ AsksTLS(key, n)
  /\ TLSIndex(key, n) = idx

LEMMA RuleAsks ==
  ASSUME AllInRange, LoopInv, ResourcesInv, MergedInv, At({"backendTLS"}), NEW idx \in todo,
         current.kind # "Gateway", NEW n \in 1..Size(ir[current]), idx \in {RouteRuleAllIndex, n}
  PROVE  /\ Asking(current, n, idx)
         /\ IR(idx).fields = TLSSettings(current, n) /\ IsMap(IR(idx).fields)
         /\ ~Done("backendTLS", current, idx)
PROOF
<1>1. Feature = "backendTLS" /\ At(Features) /\ pass \in DOMAIN Passes
  BY DEF At, Feature, Features, MergedFeatures
<1>2. Filling /\ current \in DOMAIN ir /\ current \notin pending /\ current.kind = Passes[pass][2]
  BY <1>1, FillingAt, AtResource
<1>3. IsResource(current, ir[current]) /\ DOMAIN Sections(current) = 1..Size(ir[current])
  BY <1>2, SizeOfSections DEF ResourcesInv
<1>4. Sections(current) = ir[current].rules
  BY DEF Sections
<1>5. /\ <<Feature, n>> \in DOMAIN ir[current].features
      /\ IR(idx).fields = ir[current].features[<<Feature, n>>].fields
  BY <1>1, <1>2, <1>3, FieldsAtLoading DEF AllInRange
<1>6. AsksTLS(current, n) /\ IR(idx).fields = TLSSettings(current, n)
  BY <1>1, <1>5 DEF AsksTLS, TLSSettings
<1>7. IsMap(IR(idx).fields)
  BY <1>3, <1>5 DEF IsResource
<1>8. TLSIndex(current, n) = idx
  <2>1. idx = RouteRuleAllIndex <=> Mergeable(ir[current].features, "backendTLS", Size(ir[current]))
    BY <1>1, <1>2 DEF MergedInv
  <2> QED
    BY <2>1 DEF TLSIndex
<1>9. ~Done(Feature, current, idx)
  BY <1>1, <1>2, NotYetDone
<1> QED
  BY <1>1, <1>2, <1>3, <1>4, <1>6, <1>7, <1>8, <1>9 DEF Asking
\* Its references are to what was loaded, to no Backend yet.
LEMMA RefsAsk ==
  ASSUME AllInRange, LoopInv, ResourcesInv, RulesInv, TrafficInv, MovedInv, MergedInv,
         At({"backendTLS"}), NEW idx \in todo, current.kind # "Gateway",
         NEW n \in 1..Size(ir[current]), idx \in {RouteRuleAllIndex, n},
         NEW refs, refs = resources[current].rules[n].backends
  PROVE  /\ KeepsTraffic(current, n, refs)
         /\ \A x \in DOMAIN refs :
              /\ refs[x].kind # "Backend" /\ IsBackendRef(refs[x])
              /\ \E ref : /\ IsAsked(current, n, ref) /\ ref.port = refs[x].port
                          /\ BackendKey(current, n, ref.name) = <<current.ns, BackendName(idx, refs[x].name)>>
                          /\ BackendFor(current, n, ref) = BackendFor(current, n, refs[x])
PROOF
<1>1. Asking(current, n, idx) /\ ~Done("backendTLS", current, idx)
  BY RuleAsks
<1>2. Filling
  BY FillingAt DEF At, Features, MergedFeatures
<1>3. resources[current].rules[n].from = n
  BY <1>1, <1>2 DEF RulesInv, Asking
<1>4. KeepsTraffic(current, n, refs)
  <2>1. LET rule == resources[current].rules[n] IN KeepsTraffic(current, rule.from, rule.backends)
    BY <1>1 DEF TrafficInv, Asking
  <2> QED
    BY <1>3, <2>1
<1>5. \A x \in DOMAIN refs : refs[x].kind # "Backend"
  <2>1. ~\E ref \in ToSet(refs) : ref.kind = "Backend"
    BY <1>1, <1>2 DEF MovedInv, Asking
  <2> QED
    BY <2>1 DEF ToSet
<1>6. ASSUME NEW x \in DOMAIN refs
      PROVE  /\ IsBackendRef(refs[x])
             /\ \E ref : /\ IsAsked(current, n, ref) /\ ref.port = refs[x].port
                         /\ BackendKey(current, n, ref.name) = <<current.ns, BackendName(idx, refs[x].name)>>
                         /\ BackendFor(current, n, ref) = BackendFor(current, n, refs[x])
  <2>1. PICK r : r = refs[x]
    OBVIOUS
  <2>2. PICK ref \in ToSet(LoadedRefs(current, n)) :
          ref.kind = r.kind /\ ref.name = r.name /\ ref.port = r.port
    BY <1>4, <1>5, <2>1, UnmovedRef
  <2>3. IsAsked(current, n, ref)
    BY <1>1 DEF IsAsked, Asking
  <2>4. BackendKey(current, n, ref.name) = <<current.ns, BackendName(idx, r.name)>>
    BY <1>1, <2>2 DEF BackendKey, BackendName, Asking
  <2>5. BackendFor(current, n, ref) = BackendFor(current, n, r)
    BY <2>2 DEF BackendFor
  <2> QED
    BY <1>4, <1>5, <2>1, <2>2, <2>3, <2>4, <2>5, UnmovedRef
<1> QED
  BY <1>4, <1>5, <1>6

\* A Backend of a service, with the settings: new, or the one that exists.
LEMMA SettingsLaid ==
  ASSUME BackendsApart, BuiltInv, NEW n, NEW idx, NEW ref, NEW asked, IsAsked(current, n, asked),
         asked.port = ref.port,
         BackendKey(current, n, asked.name) = <<current.ns, BackendName(idx, ref.name)>>,
         BackendFor(current, n, asked) = BackendFor(current, n, ref),
         IsMap(TLSSettings(current, n)),
         NEW old, old = BackendOf(BackendName(idx, ref.name), ref), old.port # 0,
         NEW new, new = [old EXCEPT !.tls = Over(TLSSettings(current, n), @)]
  PROVE  IsBuilt(<<current.ns, BackendName(idx, ref.name)>>, new)
PROOF
<1> DEFINE b == <<current.ns, BackendName(idx, ref.name)>>
           tls == TLSSettings(current, n)
<1>1. Over(tls, EmptyMap) = tls /\ Over(tls, tls) = tls
  BY SettingsOver
<1>2. BackendFor(current, n, ref) = [service |-> ref.name, ns |-> current.ns, port |-> ref.port, tls |-> tls]
  BY DEF BackendFor
<1>3. CASE b \in DOMAIN backends
  <2>1. old = backends[b]
    BY <1>3 DEF BackendOf
  <2>2. IsBuilt(b, old)
    BY <1>3, <2>1 DEF BuiltInv
  <2>3. old = BackendFor(current, n, asked)
    BY <2>2, BuiltFor
  <2>4. old.tls = tls
    BY <2>3 DEF BackendFor
  <2> HIDE DEF tls, b
  <2>5. old = [service |-> ref.name, ns |-> current.ns, port |-> ref.port, tls |-> tls]
    BY <1>2, <2>3
  <2>6. new = [old EXCEPT !.tls = Over(tls, @)]
    BY DEF tls
  <2>7. new = old
    BY <1>1, <2>5, <2>6
  <2> QED
    BY <2>2, <2>7 DEF b
<1>4. CASE b \notin DOMAIN backends
  <2>1. old = [service |-> ref.name, ns |-> current.ns, port |-> ref.port, tls |-> EmptyMap]
    BY <1>4 DEF BackendOf
  <2> HIDE DEF tls, b
  <2>2. new = [old EXCEPT !.tls = Over(tls, @)]
    BY DEF tls
  <2>3. new = [service |-> ref.name, ns |-> current.ns, port |-> ref.port, tls |-> tls] /\ old.port = ref.port
    BY <1>1, <2>1, <2>2
  <2>4. new = BackendFor(current, n, asked) /\ asked.port # 0 /\ b = BackendKey(current, n, asked.name)
    BY <1>2, <2>3 DEF b
  <2> QED
    BY <2>4 DEF IsBuilt, b
<1> QED
  BY <1>3, <1>4
\* The rules that the index stands for, and what becomes of the route.
Covered(idx, n) == idx \in {RouteRuleAllIndex, n}

MovesRefs(idx) ==
  /\ idx \in todo /\ At({"backendTLS"}) /\ current \in DOMAIN ir /\ current.kind # "Gateway"
  /\ Finish(idx)
  /\ \A key \in DOMAIN ir : key # current => resources'[key] = resources[key]
  /\ \A n \in 1..Size(ir[current]) :
       LET r == resources[current].rules[n]
           q == resources'[current].rules[n]
       IN  /\ q.from = r.from
           /\ ~Covered(idx, n) => q.backends = r.backends
           /\ Covered(idx, n) =>
                /\ q.backends = Moved(r.backends, idx)
                /\ \A x \in DOMAIN r.backends :
                     <<current.ns, BackendName(idx, r.backends[x].name)>> \in DOMAIN backends'

LEMMA BackendTLSBuilds ==
  ASSUME AllInRange, BackendsApart, LoopInv, ResourcesInv, RulesInv, TrafficInv, MovedInv, MergedInv,
         BuiltInv, EmitBackendTLS, pass' # Panicked
  PROVE  /\ \E idx : MovesRefs(idx)
         /\ BackendsStay /\ \A b \in DOMAIN backends' : IsBuilt(b, backends'[b])
PROOF
<1>1. PICK idx \in todo :
        LET rules    == resources[current].rules
            targets  == IF idx = RouteRuleAllIndex THEN DOMAIN rules ELSE {idx}
            services == {ref.name : ref \in UNION {ToSet(rules[n].backends) : n \in targets \cap DOMAIN rules}}
            backend(s) == BackendOf(BackendName(idx, s), FirstRef(rules, targets \cap DOMAIN rules, s))
            keys     == [s \in services |-> <<current.ns, BackendName(idx, s)>>]
            built    == [key \in {keys[s] : s \in services} |->
                           LET s == CHOOSE x \in services : keys[x] = key
                           IN  [backend(s) EXCEPT !.tls = Over(IR(idx).fields, @)]]
            moved(ref) == [ref EXCEPT !.kind = "Backend", !.name = BackendName(idx, @), !.port = 0]
        IN  /\ Emits({"backendTLS"}, idx)
            /\ targets \subseteq DOMAIN rules /\ \A s \in services : backend(s).port # 0
            /\ backends' = Over(built, backends)
            /\ resources' = [resources EXCEPT ![current].rules =
                 [n \in DOMAIN rules |->
                    IF n \notin targets THEN rules[n]
                    ELSE [rules[n] EXCEPT !.backends = [x \in DOMAIN @ |-> moved(@[x])]]]]
            /\ Succeed(idx)
  BY DEF EmitBackendTLS, Resource, Panic
<1> DEFINE s        == resources[current].rules
           size     == Size(ir[current])
           targets  == IF idx = RouteRuleAllIndex THEN DOMAIN s ELSE {idx}
           services == {ref.name : ref \in UNION {ToSet(s[n].backends) : n \in targets \cap DOMAIN s}}
           first(x) == FirstRef(s, targets \cap DOMAIN s, x)
           backend(x) == BackendOf(BackendName(idx, x), first(x))
           new(x)   == [backend(x) EXCEPT !.tls = Over(IR(idx).fields, @)]
           keys     == [x \in services |-> <<current.ns, BackendName(idx, x)>>]
           built    == [key \in {keys[x] : x \in services} |-> LET x == CHOOSE y \in services : keys[y] = key IN new(x)]
           t == [n \in DOMAIN s |-> IF n \notin targets THEN s[n]
                                    ELSE [s[n] EXCEPT !.backends = Moved(s[n].backends, idx)]]
<1>2. /\ Emits({"backendTLS"}, idx) /\ targets \subseteq DOMAIN s
      /\ \A x \in services : backend(x).port # 0
      /\ backends' = Over(built, backends)
      /\ resources' = [resources EXCEPT ![current].rules = t]
      /\ Finish(idx)
  BY <1>1 DEF Moved, Succeed
<1>3. At({"backendTLS"}) /\ At(Features \ {"mTLS"})
  BY <1>2 DEF Emits, At, Features, MergedFeatures
<1>4. current \in DOMAIN ir /\ current.kind # "Gateway" /\ Filling
  BY <1>3, AtRoute DEF ResourcesInv
<1>5. ShapedRules(s, size) /\ DOMAIN resources[current] = {"features", "parentRefs", "rules"}
  BY <1>4 DEF RulesInv
<1>6. DOMAIN s = 1..size
  <2> HIDE DEF s, size
  <2> QED
    BY <1>5 DEF ShapedRules
<1>7. \A n : n \in targets <=> n \in 1..size /\ Covered(idx, n)
  BY <1>2, <1>6 DEF Covered, RouteRuleAllIndex
<1>8. \A n \in targets : Shaped(s[n])
  <2> HIDE DEF s, size, targets
  <2> QED
    BY <1>5, <1>7 DEF ShapedRules
<1>9. targets \cap DOMAIN s = targets
  BY <1>2
<1> HIDE DEF targets
<1>10. ASSUME NEW n \in targets, NEW x \in DOMAIN s[n].backends
       PROVE  /\ s[n].backends[x].name \in services
              /\ <<current.ns, BackendName(idx, s[n].backends[x].name)>> \in DOMAIN built
              /\ <<current.ns, BackendName(idx, s[n].backends[x].name)>> \in DOMAIN backends'
  <2>1. s[n].backends[x].name \in services
    BY <1>9 DEF ToSet
  <2>2. keys[s[n].backends[x].name] = <<current.ns, BackendName(idx, s[n].backends[x].name)>>
    <3> HIDE DEF services
    <3> QED
      BY <2>1
  <2>3. DOMAIN built = {keys[y] : y \in services}
    <3> HIDE DEF services, keys, new
    <3> QED
      OBVIOUS
  <2>4. DOMAIN built \subseteq DOMAIN backends'
    <3> HIDE DEF built
    <3> QED
      BY <1>2 DEF Over
  <2> HIDE DEF services, keys, built
  <2> QED
    BY <2>1, <2>2, <2>3, <2>4
<1>11. ASSUME NEW x \in services
       PROVE  IsBuilt(<<current.ns, BackendName(idx, x)>>, new(x))
  <2>1. \E n \in targets : \E y \in DOMAIN s[n].backends : s[n].backends[y].name = x
    BY <1>9 DEF ToSet
  <2>2. targets \subseteq Nat /\ \A n \in targets : DOMAIN s[n].backends \subseteq Nat
    BY <1>7, <1>8 DEF Shaped, AreRefs
  <2>3. PICK n \in targets : \E y \in DOMAIN s[n].backends :
          FirstRef(s, targets, x) = s[n].backends[y] /\ s[n].backends[y].name = x
    <3> HIDE DEF s, services
    <3>1. PICK any : RefersTo(s, targets, x, any)
      BY <2>1 DEF RefersTo
    <3>2. UNION {DOMAIN s[n].backends : n \in targets} \subseteq Nat /\ targets \subseteq Nat
      BY <2>2
    <3>3. RefersTo(s, targets, x, FirstRef(s, targets, x))
      BY <3>1, <3>2, FirstRefOfService
    <3> QED
      BY <3>3 DEF RefersTo
  <2>4. PICK y \in DOMAIN s[n].backends : first(x) = s[n].backends[y] /\ s[n].backends[y].name = x
    BY <1>9, <2>3
  <2>5. PICK refs : refs = s[n].backends
    OBVIOUS
  <2>6. PICK ref : ref = refs[y] /\ ref = first(x) /\ ref.name = x
    BY <2>4, <2>5
  <2>7. n \in 1..size /\ idx \in {RouteRuleAllIndex, n}
    BY <1>7 DEF Covered
  <2>8. PICK asked : /\ IsAsked(current, n, asked) /\ asked.port = ref.port
                     /\ BackendKey(current, n, asked.name) = <<current.ns, BackendName(idx, ref.name)>>
                     /\ BackendFor(current, n, asked) = BackendFor(current, n, ref)
    <3>1. y \in DOMAIN refs /\ refs = resources[current].rules[n].backends
      BY <2>4, <2>5
    <3> HIDE DEF s, size, services
    <3>2. n \in 1..Size(ir[current])
      BY <2>7 DEF size
    <3>3. \E asked : /\ IsAsked(current, n, asked) /\ asked.port = refs[y].port
                     /\ BackendKey(current, n, asked.name) = <<current.ns, BackendName(idx, refs[y].name)>>
                     /\ BackendFor(current, n, asked) = BackendFor(current, n, refs[y])
      BY <1>3, <1>4, <2>7, <3>1, <3>2, RefsAsk
    <3> QED
      BY <2>6, <3>3
  <2>9. IR(idx).fields = TLSSettings(current, n) /\ IsMap(TLSSettings(current, n))
    BY <1>3, <1>4, <2>7, RuleAsks
  <2>10. PICK old : old = backend(x)
    OBVIOUS
  <2>11. old = BackendOf(BackendName(idx, ref.name), ref) /\ old.port # 0
    <3> HIDE DEF services
    <3> QED
      BY <1>2, <2>6, <2>10
  <2>12. PICK v : v = [old EXCEPT !.tls = Over(TLSSettings(current, n), @)]
    OBVIOUS
  <2>13. IsBuilt(<<current.ns, BackendName(idx, ref.name)>>, v)
    BY <2>8, <2>9, <2>11, <2>12, SettingsLaid
  <2>14. new(x) = v
    BY <2>9, <2>10, <2>12
  <2> HIDE DEF new
  <2> QED
    BY <2>6, <2>13, <2>14
<1>12. \A b \in DOMAIN built : IsBuilt(b, built[b])
  <2> TAKE b \in DOMAIN built
  <2> DEFINE x == CHOOSE y \in services : keys[y] = b
  <2>1. b \in {keys[y] : y \in services} /\ built[b] = new(x)
    <3> HIDE DEF services, keys, new
    <3> QED
      OBVIOUS
  <2>2. x \in services /\ keys[x] = b
    <3> HIDE DEF services, keys
    <3> QED
      BY <2>1
  <2> HIDE DEF x
  <2>3. b = <<current.ns, BackendName(idx, x)>>
    <3> HIDE DEF services
    <3> QED
      BY <2>2
  <2> HIDE DEF services, keys, new, built
  <2> QED
    BY <1>11, <2>1, <2>2, <2>3
<1>13. \A b \in DOMAIN backends' : IsBuilt(b, backends'[b])
  <2> HIDE DEF built
  <2> QED
    BY <1>2, <1>12 DEF Over, BuiltInv
<1>14. BackendsStay
  <2> SUFFICES ASSUME NEW b \in DOMAIN backends
               PROVE  b \in DOMAIN backends' /\ backends'[b] = backends[b]
    BY DEF BackendsStay
  <2>1. b \in DOMAIN backends'
    <3> HIDE DEF built
    <3> QED
      BY <1>2 DEF Over
  <2>2. IsBuilt(b, backends[b]) /\ IsBuilt(b, backends'[b])
    BY <1>13, <2>1 DEF BuiltInv
  <2> QED
    BY <2>1, <2>2, BuiltOnce
<1>15. current \in DOMAIN resources
  BY <1>4 DEF ResourcesInv
<1>16. resources'[current].rules = t /\ \A key \in DOMAIN ir : key # current => resources'[key] = resources[key]
  <2> HIDE DEF t
  <2> QED
    BY <1>2, <1>5, <1>15 DEF ResourcesInv
<1>17. ASSUME NEW n \in 1..size
       PROVE  /\ t[n].from = s[n].from
              /\ ~Covered(idx, n) => t[n].backends = s[n].backends
              /\ Covered(idx, n) =>
                   /\ t[n].backends = Moved(s[n].backends, idx)
                   /\ \A x \in DOMAIN s[n].backends :
                        <<current.ns, BackendName(idx, s[n].backends[x].name)>> \in DOMAIN backends'
  <2>1. CASE n \in targets
    <3>1. t[n] = [s[n] EXCEPT !.backends = Moved(s[n].backends, idx)]
      BY <1>6, <2>1
    <3>2. Shaped(s[n])
      BY <1>8, <2>1
    <3> HIDE DEF t, s
    <3>3. t[n].from = s[n].from /\ t[n].backends = Moved(s[n].backends, idx)
      BY <3>1, <3>2 DEF Shaped
    <3>4. \A x \in DOMAIN s[n].backends :
            <<current.ns, BackendName(idx, s[n].backends[x].name)>> \in DOMAIN backends'
      BY <1>10, <2>1
    <3> QED
      BY <1>7, <2>1, <3>3, <3>4
  <2>2. CASE n \notin targets
    <3>1. t[n] = s[n]
      BY <1>6, <2>2
    <3> QED
      BY <1>7, <2>2, <3>1
  <2> QED
    BY <2>1, <2>2
<1>18. MovesRefs(idx)
  <2> HIDE DEF t
  <2> QED
    BY <1>2, <1>3, <1>4, <1>16, <1>17 DEF MovesRefs
<1> QED
  BY <1>13, <1>14, <1>18
(***************************************************************************)
(* The passes that join references, or sort them                           *)
(***************************************************************************)
JoinsRefs(key) ==
  /\ key \in pending /\ key \in DOMAIN ir /\ key.kind = "HTTPRoute" /\ Filling /\ pass = 1
  /\ pass' = pass /\ pending' = pending \ {key}
  /\ \A k \in DOMAIN ir : k # key => resources'[k] = resources[k]
  /\ \A n \in 1..Size(ir[key]) :
       /\ resources'[key].rules[n].from = resources[key].rules[n].from
       /\ resources'[key].rules[n].backends \in UniqueBackendRefs(resources[key].rules[n].backends)

LEMMA DuplicatesJoin ==
  ASSUME LoopInv, ResourcesInv, RulesInv, RemoveBackendRefsDuplicates
  PROVE  (\E key : JoinsRefs(key)) /\ backends' = backends
PROOF
<1>1. PICK key \in pending : /\ \E rules \in WithBackends(resources[key].rules, UniqueBackendRefs) :
                                  resources' = [resources EXCEPT ![key].rules = rules]
                             /\ pending' = pending \ {key}
  BY DEF RemoveBackendRefsDuplicates
<1>2. At({"duplicates"}) /\ pass' = pass /\ backends' = backends
  BY DEF RemoveBackendRefsDuplicates, outputs
<1> DEFINE s == resources[key].rules
           size == Size(ir[key])
<1>3. PICK lists : /\ \A n \in DOMAIN s : lists[n] \in UniqueBackendRefs(s[n].backends)
                   /\ resources' = [resources EXCEPT ![key].rules =
                        [n \in DOMAIN s |-> [s[n] EXCEPT !.backends = lists[n]]]]
  BY <1>1 DEF WithBackends
<1> DEFINE t == [n \in DOMAIN s |-> [s[n] EXCEPT !.backends = lists[n]]]
<1>4. key \in DOMAIN ir /\ key.kind = "HTTPRoute" /\ pass = 1 /\ Filling
  <2>1. pass \in DOMAIN Passes /\ key \in DOMAIN ir /\ key.kind = Passes[pass][2]
    BY <1>1, <1>2 DEF LoopInv, At
  <2>2. \A n \in DOMAIN Passes : Passes[n][1] = "duplicates" => Passes[n][2] = "HTTPRoute" /\ n = 1
    BY DEF Passes
  <2>3. pass = 1 /\ key.kind = "HTTPRoute"
    BY <1>2, <2>1, <2>2 DEF At
  <2>4. \A m \in DOMAIN Passes : m <= 1 => Passes[m][1] \notin {"sort", "check"}
    BY DEF Passes
  <2> QED
    BY <2>1, <2>3, <2>4 DEF Filling, Sorting
<1>5. ShapedRules(s, size) /\ DOMAIN resources[key] = {"features", "parentRefs", "rules"}
  BY <1>4 DEF RulesInv
<1> HIDE DEF s, size
<1>6. DOMAIN s = 1..size
  BY <1>5 DEF ShapedRules
<1>7. ASSUME NEW n \in 1..size
      PROVE  t[n].from = s[n].from /\ t[n].backends \in UniqueBackendRefs(s[n].backends)
  <2>1. Shaped(s[n]) /\ lists[n] \in UniqueBackendRefs(s[n].backends)
    BY <1>3, <1>5, <1>6 DEF ShapedRules
  <2>2. t[n] = [s[n] EXCEPT !.backends = lists[n]]
    BY <1>6
  <2> HIDE DEF t
  <2>3. t[n].from = s[n].from /\ t[n].backends = lists[n]
    BY <2>1, <2>2 DEF Shaped
  <2> QED
    BY <2>1, <2>3
<1>8. resources' = [resources EXCEPT ![key].rules = t]
  BY <1>3 DEF s
<1>9. resources'[key].rules = t /\ \A k \in DOMAIN ir : k # key => resources'[k] = resources[k]
  <2> HIDE DEF t
  <2> QED
    BY <1>4, <1>5, <1>8 DEF ResourcesInv
<1> HIDE DEF t
<1> QED
  BY <1>1, <1>2, <1>4, <1>7, <1>9 DEF JoinsRefs, s, size

SortsRefs(key) ==
  /\ key \in DOMAIN ir /\ key.kind # "Gateway" /\ ~Filling /\ pass' = pass
  /\ \A k \in DOMAIN ir : k # key => resources'[k] = resources[k]
  /\ \A n \in 1..Size(ir[key]) : \E m \in 1..Size(ir[key]) :
       /\ resources'[key].rules[n].from = resources[key].rules[m].from
       /\ resources'[key].rules[n].backends \in SortedBackends(resources[key].rules[m].backends)

LEMMA SortingReorders ==
  ASSUME LoopInv, ResourcesInv, RulesInv, SortResource
  PROVE  (AllRefsKept \/ \E key : SortsRefs(key)) /\ backends' = backends
PROOF
<1>1. PICK key \in pending :
        \/ key.kind = "Gateway" /\ \E listeners \in SortedLists(resources[key].listeners, NameBefore) :
             resources' = [resources EXCEPT ![key].listeners = listeners]
        \/ key.kind # "Gateway" /\
             \E ordered \in SortedLists(resources[key].rules, RuleBefore)
                              \union SortedLists(resources[key].rules, GRPCRuleBefore) :
             \E rules \in WithBackends(ordered, SortedBackends) :
               resources' = [resources EXCEPT ![key].rules = rules]
  BY DEF SortResource
<1>2. At({"sort"}) /\ pass' = pass /\ backends' = backends
  BY DEF SortResource, outputs
<1>3. key \in DOMAIN ir /\ ~Filling
  BY <1>1, <1>2 DEF LoopInv, At, Filling, Sorting
<1>4. CASE key.kind = "Gateway"
  <2>1. \A k \in DOMAIN ir : k.kind # "Gateway" => resources'[k] = resources[k]
    BY <1>1, <1>4 DEF ResourcesInv
  <2> QED
    BY <1>2, <2>1 DEF AllRefsKept, RefsKept
<1>5. CASE key.kind # "Gateway"
  <2> DEFINE s == resources[key].rules
             size == Size(ir[key])
  <2>1. PICK ordered \in SortedLists(s, RuleBefore) \union SortedLists(s, GRPCRuleBefore) :
          \E rules \in WithBackends(ordered, SortedBackends) :
            resources' = [resources EXCEPT ![key].rules = rules]
    BY <1>1, <1>5
  <2>2. PICK rules \in WithBackends(ordered, SortedBackends) :
          resources' = [resources EXCEPT ![key].rules = rules]
    BY <2>1
  <2>3. PICK order \in SetToSeqs(DOMAIN s) : ordered = [n \in DOMAIN s |-> s[order[n]]]
    <3> HIDE DEF s
    <3> QED
      BY <2>1 DEF SortedLists
  <2>4. PICK lists : /\ rules = [n \in DOMAIN ordered |-> [ordered[n] EXCEPT !.backends = lists[n]]]
                     /\ \A n \in DOMAIN ordered : lists[n] \in SortedBackends(ordered[n].backends)
    BY <2>2 DEF WithBackends
  <2>5. ShapedRules(s, size) /\ DOMAIN resources[key] = {"features", "parentRefs", "rules"} /\ size \in Nat
    BY <1>3, <1>5, SizeOfSections DEF RulesInv
  <2> HIDE DEF s, size
  <2>6. DOMAIN s = 1..size
    BY <2>5 DEF ShapedRules
  <2>7. order \in [1..size -> 1..size]
    BY <2>3, <2>5, <2>6, OrderIsOnto
  <2>8. ASSUME NEW n \in 1..size
        PROVE  /\ rules[n].from = s[order[n]].from
               /\ rules[n].backends \in SortedBackends(s[order[n]].backends)
    <3> DEFINE r == s[order[n]]
    <3>1. Shaped(r)
      BY <2>5, <2>7 DEF ShapedRules
    <3>2. rules[n] = [r EXCEPT !.backends = lists[n]] /\ lists[n] \in SortedBackends(r.backends)
      BY <2>3, <2>4, <2>6
    <3> HIDE DEF r
    <3>3. rules[n].from = r.from /\ rules[n].backends = lists[n]
      BY <3>1, <3>2 DEF Shaped
    <3> QED
      BY <3>2, <3>3 DEF r
  <2>9. resources'[key].rules = rules /\ \A k \in DOMAIN ir : k # key => resources'[k] = resources[k]
    BY <1>3, <2>2, <2>5 DEF ResourcesInv
  <2>10. \A n \in 1..size : \E m \in 1..size :
           /\ resources'[key].rules[n].from = s[m].from
           /\ resources'[key].rules[n].backends \in SortedBackends(s[m].backends)
    BY <2>7, <2>8, <2>9
  <2>11. SortsRefs(key)
    BY <1>2, <1>3, <1>5, <2>9, <2>10 DEF SortsRefs, s, size
  <2> QED
    BY <1>2, <2>11
<1> QED
  BY <1>4, <1>5
LEMMA BackendTLSPanics ==
  ASSUME EmitBackendTLS, pass' = Panicked
  PROVE  AllRefsKept /\ backends' = backends
PROOF
<1>1. PICK idx \in todo :
        /\ Emits({"backendTLS"}, idx)
        /\ (Panic /\ UNCHANGED <<resources, backends>>) \/ Succeed(idx)
  BY DEF EmitBackendTLS
<1>2. pass \in DOMAIN Passes /\ pass # Panicked
  BY <1>1, PassesDistinct DEF Emits, At
<1>3. UNCHANGED <<resources, backends>>
  BY <1>1, <1>2 DEF Succeed, Finish
<1> QED
  BY <1>3 DEF AllRefsKept, RefsKept

TrafficParts == TrafficInv /\ UntouchedInv /\ MovedInv /\ MergedInv /\ BuiltInv

\* What a step does to the references of the rules.
LEMMA RefsStep ==
  ASSUME AllInRange, BackendsApart, LoopInv, ResourcesInv, RulesInv, TrafficParts, [Next]_vars
  PROVE  /\ \/ AllRefsKept
            \/ \E key : JoinsRefs(key)
            \/ \E key : SortsRefs(key)
            \/ \E idx : MovesRefs(idx)
         /\ BackendsStay /\ BuiltInv'
PROOF
<1>1. ir' = ir
  BY StepOfLoops
<1>2. \A b, backend : IsBuilt(b, backend)' <=> IsBuilt(b, backend)
  BY <1>1 DEF IsBuilt, IsAsked, BackendKey, BackendFor, AsksTLS, TLSSettings, TLSIndex, LoadedRefs
<1>3. backends' = backends => BackendsStay /\ BuiltInv'
  BY <1>2 DEF BackendsStay, BuiltInv, TrafficParts
<1>4. CASE RemoveBackendRefsDuplicates
  BY <1>3, <1>4, DuplicatesJoin
<1>5. CASE SortResource
  BY <1>3, <1>5, SortingReorders
<1>6. CASE EmitBackendTLS /\ pass' = Panicked
  BY <1>3, <1>6, BackendTLSPanics
<1>7. CASE EmitBackendTLS /\ pass' # Panicked
  <2>1. /\ \E idx : MovesRefs(idx)
        /\ BackendsStay /\ \A b \in DOMAIN backends' : IsBuilt(b, backends'[b])
    BY <1>7, BackendTLSBuilds DEF TrafficParts
  <2>2. BuiltInv'
    BY <1>2, <2>1 DEF BuiltInv
  <2> QED
    BY <2>1, <2>2
<1>8. CASE ~RemoveBackendRefsDuplicates /\ ~SortResource /\ ~EmitBackendTLS
  BY <1>3, <1>8, OthersKeepRefs
<1> QED
  BY <1>4, <1>5, <1>6, <1>7, <1>8

LEMMA UntouchedStep ==
  ASSUME LoopInv, ResourcesInv, RulesInv, UntouchedInv, [Next]_vars
  PROVE  UntouchedInv'
PROOF
<1>1. ir' = ir /\ (Continues \/ pass' = Panicked \/ NextPass \/ VisitResource)
  BY StepOfLoops
<1> SUFFICES ASSUME pass' = 1, NEW key \in pending', NEW n \in DOMAIN ir[key].rules
             PROVE  resources'[key].rules[n].backends = ir[key].rules[n].backends
  BY <1>1 DEF UntouchedInv, LoadedRefs
<1>2. pass = 1 /\ pending' \subseteq pending
  <2>1. CASE Continues
    BY <2>1 DEF Continues
  <2>2. CASE NextPass
    BY <2>2, PassesDistinct DEF NextPass
  <2>3. CASE VisitResource
    BY <2>3 DEF VisitResource
  <2> QED
    BY <1>1, <2>1, <2>2, <2>3 DEF Panicked
<1>3. /\ key \in pending /\ key \in DOMAIN ir /\ key.kind = "HTTPRoute"
      /\ resources[key].rules[n].backends = ir[key].rules[n].backends
  <2>1. 1 \in DOMAIN Passes /\ Passes[1][2] = "HTTPRoute"
    BY DEF Passes
  <2> QED
    BY <1>2, <2>1 DEF LoopInv, UntouchedInv, LoadedRefs
<1>4. n \in 1..Size(ir[key])
  BY <1>3, SizeOfSections DEF Sections
<1>5. Passes[pass][1] = "duplicates"
  BY <1>2 DEF Passes
<1>6. CASE RemoveBackendRefsDuplicates
  <2>1. PICK k : JoinsRefs(k)
    BY <1>6, DuplicatesJoin
  <2>2. k # key
    BY <2>1 DEF JoinsRefs
  <2> QED
    BY <1>3, <2>1, <2>2 DEF JoinsRefs
<1>7. ~SortResource /\ ~EmitBackendTLS
  BY <1>5 DEF SortResource, EmitBackendTLS, Emits, At
<1>8. CASE ~RemoveBackendRefsDuplicates
  <2>1. RefsKept(key)
    BY <1>3, <1>7, <1>8, OthersKeepRefs DEF AllRefsKept
  <2> QED
    BY <1>3, <1>4, <2>1 DEF RefsKept
<1> QED
  BY <1>6, <1>8

LEMMA MovedStep ==
  ASSUME AllInRange, BackendsApart, LoopInv, ResourcesInv, RulesInv, TrafficParts, [Next]_vars
  PROVE  MovedInv'
PROOF
<1>1. ir' = ir
  BY StepOfLoops
<1> SUFFICES ASSUME Filling', NEW key \in DOMAIN ir, key.kind # "Gateway", NEW n \in 1..Size(ir[key]),
                    NEW ref \in ToSet(resources'[key].rules[n].backends), ref.kind = "Backend"
             PROVE  Done("backendTLS", key, TLSIndex(key, n))'
  BY <1>1 DEF MovedInv
<1>2. Filling /\ pass' # Panicked
  BY FillingBefore, PassesDistinct DEF Filling
<1>3. PICK idx : idx = TLSIndex(key, n)
  OBVIOUS
<1>4. TLSIndex(key, n)' = idx
  BY <1>1, <1>3 DEF TLSIndex
<1>5. ASSUME \E old \in ToSet(resources[key].rules[n].backends) : old.kind = "Backend"
      PROVE  Done("backendTLS", key, idx)'
  <2>1. Done("backendTLS", key, idx)
    BY <1>2, <1>3, <1>5 DEF TrafficParts, MovedInv
  <2> QED
    BY <1>2, <2>1, DoneStays
<1>6. CASE resources'[key].rules[n].backends = resources[key].rules[n].backends
  BY <1>4, <1>5, <1>6
<1>7. CASE \E k : JoinsRefs(k)
  <2>1. PICK k : JoinsRefs(k)
    BY <1>7
  <2>2. CASE k = key
    <3>1. AreRefs(resources[key].rules[n].backends)
      <4>1. ShapedRules(resources[key].rules, Size(ir[key]))
        BY DEF RulesInv
      <4> QED
        BY <4>1 DEF ShapedRules, Shaped
    <3>2. resources'[key].rules[n].backends \in UniqueBackendRefs(resources[key].rules[n].backends)
      BY <2>1, <2>2 DEF JoinsRefs
    <3>3. PICK list : list = resources'[key].rules[n].backends
      OBVIOUS
    <3>4. \E old \in ToSet(resources[key].rules[n].backends) : ref.kind = old.kind
      BY <3>1, <3>2, <3>3, UniqueRefs
    <3> QED
      BY <1>4, <1>5, <3>4
  <2>3. CASE k # key
    BY <1>6, <2>1, <2>3 DEF JoinsRefs
  <2> QED
    BY <2>2, <2>3
<1>8. CASE \E i : MovesRefs(i)
  <2>1. PICK i : MovesRefs(i)
    BY <1>8
  <2>2. CASE key = current /\ Covered(i, n)
    <3>1. pass' = pass /\ pending' = pending /\ current' = current /\ i \notin todo'
      BY <2>1 DEF MovesRefs, Finish
    <3>2. /\ i \in todo /\ At({"backendTLS"}) /\ pass \in DOMAIN Passes /\ Feature = "backendTLS"
      BY <2>1 DEF MovesRefs, At, Feature
    <3>3. Asking(current, n, i)
      BY <2>2, <3>2, RuleAsks DEF Covered, TrafficParts
    <3>4. i = idx
      BY <1>3, <2>2, <3>3 DEF Asking
    <3>5. current \notin pending /\ current.kind = Passes[pass][2]
      BY <1>2, <3>2, AtResource
    <3>6. Passes[pass] = <<"backendTLS", key.kind>>
      BY <2>2, <3>2, <3>5, PassesKinds DEF Feature
    <3>7. Done("backendTLS", key, idx)'
      BY <2>2, <3>1, <3>2, <3>4, <3>5, <3>6 DEF Done
    <3> QED
      BY <1>4, <3>7
  <2>3. CASE key = current /\ ~Covered(i, n)
    BY <1>6, <2>1, <2>3 DEF MovesRefs
  <2>4. CASE key # current
    BY <1>6, <2>1, <2>4 DEF MovesRefs
  <2> QED
    BY <2>2, <2>3, <2>4
<1>9. CASE AllRefsKept
  BY <1>6, <1>9 DEF AllRefsKept, RefsKept
<1>10. ~\E k : SortsRefs(k)
  BY <1>2 DEF SortsRefs
<1> QED
  BY <1>7, <1>8, <1>9, <1>10, RefsStep
LEMMA RefsLoaded ==
  ASSUME ResourcesInv, NoBackendsLoaded, NEW key \in DOMAIN ir, key.kind # "Gateway",
         NEW n \in 1..Size(ir[key])
  PROVE  FreshRefs(LoadedRefs(key, n)) /\ n \in DOMAIN ir[key].rules
PROOF
<1>1. IsResource(key, ir[key]) /\ DOMAIN ir[key].rules = 1..Size(ir[key])
  BY SizeOfSections DEF Sections
<1>2. IsRule(ir[key].rules[n])
  BY <1>1 DEF IsResource
<1>3. IsRefs(LoadedRefs(key, n))
  BY <1>2 DEF IsRule, IsRefs, LoadedRefs
<1>4. \A x \in DOMAIN LoadedRefs(key, n) : LoadedRefs(key, n)[x].kind # "Backend"
  <2>1. ir[key].rules[n] \in ToSet(ir[key].rules)
    BY <1>1 DEF ToSet
  <2>2. \A ref \in ToSet(ir[key].rules[n].backends) : ref.kind # "Backend"
    BY <2>1 DEF NoBackendsLoaded
  <2> QED
    BY <2>2 DEF LoadedRefs, ToSet
<1> QED
  BY <1>1, <1>3, <1>4 DEF FreshRefs

LEMMA MovedAreRefs ==
  ASSUME NEW refs, IsRefs(refs), NEW idx, NEW list, list = Moved(refs, idx)
  PROVE  /\ IsRefs(list) /\ DOMAIN list = DOMAIN refs
         /\ \A x \in DOMAIN refs : /\ list[x].kind = "Backend" /\ list[x].weight = refs[x].weight
                                   /\ list[x].name = BackendName(idx, refs[x].name)
PROOF
<1> DEFINE to(ref) == [ref EXCEPT !.kind = "Backend", !.name = BackendName(idx, @), !.port = 0]
<1>1. Len(refs) \in Nat /\ DOMAIN refs = 1..Len(refs) /\ \A x \in DOMAIN refs : IsBackendRef(refs[x])
  BY WeightsOfRefs DEF IsRefs
<1>2. ASSUME NEW ref, IsBackendRef(ref)
      PROVE  /\ IsBackendRef(to(ref)) /\ to(ref).kind = "Backend" /\ to(ref).weight = ref.weight
             /\ to(ref).name = BackendName(idx, ref.name)
  <2> DEFINE new == to(ref)
  <2>1. DOMAIN ref = {"kind", "name", "port", "weight"} /\ (ref.weight # <<>> => ref.weight[1] \in Nat)
    BY <1>2 DEF IsBackendRef
  <2>2. /\ DOMAIN new = DOMAIN ref /\ new.kind = "Backend" /\ new.weight = ref.weight
        /\ new.name = BackendName(idx, ref.name) /\ new.port = 0
    BY <2>1
  <2> HIDE DEF new
  <2>3. IsBackendRef(new)
    BY <2>1, <2>2 DEF IsBackendRef
  <2> QED
    BY <2>2, <2>3 DEF new
<1> DEFINE size == Len(refs)
<1>3. list = [x \in 1..size |-> to(refs[x])]
  BY <1>1 DEF Moved
<1> HIDE DEF to, size
<1>4. DOMAIN list = 1..size /\ \A x \in 1..size : list[x] = to(refs[x])
  BY <1>3
<1>5. IsList(list)
  <2> DEFINE T == {to(refs[x]) : x \in 1..size}
  <2>1. list \in [1..size -> T]
    BY <1>3
  <2> HIDE DEF T
  <2>2. list \in Seq(T)
    BY <1>1, <2>1 DEF size
  <2> QED
    BY <2>2, SeqIsList
<1>6. \A x \in 1..size : IsBackendRef(refs[x])
  BY <1>1 DEF size
<1> QED
  BY <1>1, <1>2, <1>4, <1>5, <1>6 DEF IsRefs, size

LEMMA TrafficStep ==
  ASSUME AllInRange, BackendsApart, NoBackendsLoaded, WeightsAlike,
         LoopInv, ResourcesInv, RulesInv, TrafficParts, [Next]_vars
  PROVE  TrafficInv'
PROOF
<1>1. ir' = ir /\ BackendsStay
  BY StepOfLoops, RefsStep
<1> SUFFICES ASSUME NEW key \in DOMAIN ir, key.kind # "Gateway", NEW n \in 1..Size(ir[key]), NEW from, NEW list,
                    from = resources'[key].rules[n].from, list = resources'[key].rules[n].backends
             PROVE  KeepsTraffic(key, from, list)'
  BY <1>1 DEF TrafficInv
<1>2. from = resources'[key].rules[n].from /\ list = resources'[key].rules[n].backends
  OBVIOUS
<1>3. ASSUME NEW refs, KeepsTraffic(key, from, refs), list = refs
      PROVE  KeepsTraffic(key, from, list)'
  BY <1>1, <1>3, KeptStays
<1>4. \A m \in 1..Size(ir[key]) : KeepsTraffic(key, resources[key].rules[m].from, resources[key].rules[m].backends)
  BY DEF TrafficParts, TrafficInv
<1>5. CASE /\ resources'[key].rules[n].from = resources[key].rules[n].from
           /\ resources'[key].rules[n].backends = resources[key].rules[n].backends
  <2>1. KeepsTraffic(key, from, list)
    BY <1>2, <1>4, <1>5
  <2> QED
    BY <1>3, <2>1
<1>6. CASE AllRefsKept
  BY <1>5, <1>6 DEF AllRefsKept, RefsKept
<1>7. CASE \E k : JoinsRefs(k)
  <2>1. PICK k : JoinsRefs(k)
    BY <1>7
  <2>2. CASE k = key
    <3>1. FreshRefs(LoadedRefs(key, n)) /\ n \in DOMAIN ir[key].rules
      BY RefsLoaded
    <3>2. from = n /\ resources[key].rules[n].backends = LoadedRefs(key, n)
      BY <1>2, <2>1, <2>2, <3>1 DEF JoinsRefs, RulesInv, UntouchedInv, TrafficParts
    <3>3. list \in UniqueBackendRefs(LoadedRefs(key, n))
      BY <1>2, <2>1, <2>2, <3>2 DEF JoinsRefs
    <3>4. WeightsAgree(LoadedRefs(key, n))
      BY <2>1, <2>2, <3>1 DEF JoinsRefs, WeightsAlike, WeightsAgree
    <3>5. KeepsTraffic(key, from, list)
      BY <3>1, <3>2, <3>3, <3>4, KeptByJoining
    <3> QED
      BY <1>3, <3>5
  <2>3. CASE k # key
    BY <1>5, <2>1, <2>3 DEF JoinsRefs
  <2> QED
    BY <2>2, <2>3
<1>8. CASE \E k : SortsRefs(k)
  <2>1. PICK k : SortsRefs(k)
    BY <1>8
  <2>2. CASE k = key
    <3>1. PICK m \in 1..Size(ir[key]) :
            /\ resources'[key].rules[n].from = resources[key].rules[m].from
            /\ resources'[key].rules[n].backends \in SortedBackends(resources[key].rules[m].backends)
      BY <2>1, <2>2 DEF SortsRefs
    <3>2. PICK refs : refs = resources[key].rules[m].backends
      OBVIOUS
    <3>3. KeepsTraffic(key, from, refs) /\ list \in SortedBackends(refs)
      BY <1>2, <1>4, <3>1, <3>2
    <3>4. KeepsTraffic(key, from, list)
      BY <3>3, KeptByReordering
    <3> QED
      BY <1>3, <3>4
  <2>3. CASE k # key
    BY <1>5, <2>1, <2>3 DEF SortsRefs
  <2> QED
    BY <2>2, <2>3
<1>9. CASE \E i : MovesRefs(i)
  <2>1. PICK i : MovesRefs(i)
    BY <1>9
  <2>2. CASE key = current /\ Covered(i, n)
    <3>1. i \in todo /\ At({"backendTLS"})
      BY <2>1 DEF MovesRefs
    <3>2. Filling
      BY <3>1, FillingAt DEF At, Features, MergedFeatures
    <3>3. PICK refs : refs = resources[key].rules[n].backends
      OBVIOUS
    <3>4. /\ from = n /\ list = Moved(refs, i)
          /\ \A x \in DOMAIN refs : <<key.ns, BackendName(i, refs[x].name)>> \in DOMAIN backends'
      <4>1. resources[key].rules[n].from = n
        BY <3>2 DEF RulesInv
      <4> QED
        BY <1>2, <2>1, <2>2, <3>3, <4>1 DEF MovesRefs
    <3>5. i \in {RouteRuleAllIndex, n}
      BY <2>2 DEF Covered
    <3>6. Asking(key, n, i)
      BY <2>2, <3>1, <3>5, RuleAsks DEF TrafficParts
    <3>7. /\ KeepsTraffic(key, n, refs)
          /\ \A x \in DOMAIN refs :
               /\ refs[x].kind # "Backend" /\ IsBackendRef(refs[x])
               /\ \E ref : /\ IsAsked(key, n, ref) /\ ref.port = refs[x].port
                           /\ BackendKey(key, n, ref.name) = <<key.ns, BackendName(i, refs[x].name)>>
                           /\ BackendFor(key, n, ref) = BackendFor(key, n, refs[x])
      BY <2>2, <3>1, <3>3, <3>5, RefsAsk DEF TrafficParts
    <3>8. /\ IsRefs(list) /\ DOMAIN list = DOMAIN refs
          /\ \A x \in DOMAIN refs : /\ list[x].kind = "Backend" /\ list[x].weight = refs[x].weight
                                    /\ list[x].name = BackendName(i, refs[x].name)
      <4>1. IsRefs(refs)
        BY <3>7 DEF KeepsTraffic
      <4> QED
        BY <3>4, <4>1, MovedAreRefs
    <3>9. ASSUME NEW b \in DOMAIN backends'
          PROVE  IsBuilt(b, backends'[b])
      <4>1. BuiltInv'
        BY RefsStep
      <4>2. \A backend : IsBuilt(b, backend)' <=> IsBuilt(b, backend)
        BY <1>1 DEF IsBuilt, IsAsked, BackendKey, BackendFor, AsksTLS, TLSSettings, TLSIndex, LoadedRefs
      <4> QED
        BY <4>1, <4>2 DEF BuiltInv
    <3>10. ASSUME NEW x \in DOMAIN refs
           PROVE  /\ refs[x].kind = "Service"
                  /\ <<key.ns, list[x].name>> \in DOMAIN backends'
                  /\ backends'[<<key.ns, list[x].name>>] = BackendFor(key, n, refs[x])
      <4>1. PICK b, backend : /\ b = <<key.ns, BackendName(i, refs[x].name)>>
                              /\ backend = backends'[<<key.ns, BackendName(i, refs[x].name)>>]
        OBVIOUS
      <4>2. b \in DOMAIN backends' /\ backend = backends'[b] /\ b = <<key.ns, list[x].name>>
        BY <3>4, <3>8, <4>1
      <4>3. IsBuilt(b, backend)
        BY <3>9, <4>2
      <4>4. PICK ref : /\ IsAsked(key, n, ref) /\ ref.port = refs[x].port
                       /\ BackendKey(key, n, ref.name) = b
                       /\ BackendFor(key, n, ref) = BackendFor(key, n, refs[x])
        BY <3>7, <4>1
      <4>5. backend = BackendFor(key, n, ref) /\ ref.port # 0
        BY <4>3, <4>4, BuiltFor
      <4>6. refs[x].kind = "Service"
        BY <3>7, <4>4, <4>5 DEF IsBackendRef
      <4> QED
        BY <4>2, <4>4, <4>5, <4>6
    <3>11. AsksTLS(key, n)
      BY <3>6 DEF Asking
    <3>12. KeepsTraffic(key, n, list)'
      BY <1>1, <3>7, <3>8, <3>10, <3>11, KeptByMoving
    <3> QED
      BY <3>4, <3>12
  <2>3. CASE key = current /\ ~Covered(i, n)
    BY <1>5, <2>1, <2>3 DEF MovesRefs
  <2>4. CASE key # current
    BY <1>5, <2>1, <2>4 DEF MovesRefs
  <2> QED
    BY <2>2, <2>3, <2>4
<1> QED
  BY <1>6, <1>7, <1>8, <1>9, RefsStep

(***************************************************************************)
(* The invariant holds at the start, and is kept                           *)
(***************************************************************************)
LEMMA BackendsAtLoading ==
  ASSUME Init, NEW key \in DOMAIN ir, key.kind # "Gateway", NEW n \in 1..Size(ir[key])
  PROVE  resources[key].rules[n].backends = LoadedRefs(key, n)
PROOF
<1> DEFINE s == ir[key].rules
           t == WithFrom(s)
<1>1. IsResource(key, ir[key]) /\ resources[key] = Loaded(key, ir[key])
  BY EmitterIRsAssumption DEF Init
<1>2. "rules" \in DOMAIN ir[key]
  BY <1>1 DEF IsResource
<1>3. resources[key] = [ir[key] EXCEPT !.rules = t]
  BY <1>1 DEF Loaded
<1>4. resources[key].rules = t
  <2> HIDE DEF t
  <2> QED
    BY <1>2, <1>3
<1>5. n \in DOMAIN s
  BY <1>1, AtTheStart, SizeOfSections DEF Sections
<1>6. IsRule(s[n])
  BY <1>1, <1>5 DEF IsResource
<1>7. t[n] = Put(s[n], "from", n)
  BY <1>5 DEF WithFrom
<1>8. Put(s[n], "from", n).backends = s[n].backends
  <2>1. PICK r : r = s[n]
    OBVIOUS
  <2>2. "backends" \in DOMAIN r
    BY <1>6, <2>1 DEF IsRule
  <2>3. Put(r, "from", n).backends = r.backends
    BY <2>2 DEF Put
  <2> QED
    BY <2>1, <2>3
<1> QED
  BY <1>4, <1>7, <1>8 DEF LoadedRefs

LEMMA TrafficAtTheStart ==
  ASSUME Init, NoBackendsLoaded
  PROVE  TrafficParts
PROOF
<1>1. /\ LoopInv /\ ResourcesInv /\ RulesInv
      /\ pass = 1 /\ todo = {} /\ backends = EmptyMap /\ pending = KeysOf(ir, 1)
  BY AtTheStart, LoadedRules DEF Init
<1>2. ASSUME NEW key \in DOMAIN ir, key.kind # "Gateway", NEW n \in 1..Size(ir[key])
      PROVE  /\ FreshRefs(LoadedRefs(key, n)) /\ resources[key].rules[n].backends = LoadedRefs(key, n)
             /\ Filling => resources[key].rules[n].from = n
  BY <1>1, <1>2, BackendsAtLoading, RefsLoaded DEF RulesInv
<1>3. Filling
  BY <1>1, PassesDistinct, SortingComesLast DEF Filling, Sorting, Passes
<1>4. TrafficInv
  <2> SUFFICES ASSUME NEW key \in DOMAIN ir, key.kind # "Gateway", NEW n \in 1..Size(ir[key]), NEW from, NEW refs,
                      from = resources[key].rules[n].from, refs = resources[key].rules[n].backends
               PROVE  KeepsTraffic(key, from, refs)
    BY DEF TrafficInv
  <2>1. FreshRefs(LoadedRefs(key, n)) /\ refs = LoadedRefs(key, n) /\ from = n
    BY <1>2, <1>3
  <2> QED
    BY <2>1, KeptAsLoaded
<1>5. UntouchedInv
  <2> SUFFICES ASSUME NEW key \in pending, NEW n \in DOMAIN ir[key].rules
               PROVE  resources[key].rules[n].backends = LoadedRefs(key, n)
    BY DEF UntouchedInv
  <2>1. key \in DOMAIN ir /\ key.kind = "HTTPRoute"
    BY <1>1, PassesDistinct DEF KeysOf, Passes
  <2>2. n \in 1..Size(ir[key])
    BY <1>1, <2>1, SizeOfSections DEF Sections
  <2> QED
    BY <1>2, <2>1, <2>2
<1>6. MovedInv
  <2> SUFFICES ASSUME NEW key \in DOMAIN ir, key.kind # "Gateway", NEW n \in 1..Size(ir[key]),
                      NEW ref \in ToSet(resources[key].rules[n].backends), ref.kind = "Backend"
               PROVE  FALSE
    BY DEF MovedInv
  <2>1. \A x \in DOMAIN LoadedRefs(key, n) : LoadedRefs(key, n)[x].kind # "Backend"
    BY <1>2 DEF FreshRefs
  <2>2. ref \in ToSet(LoadedRefs(key, n))
    BY <1>2
  <2> QED
    BY <2>1, <2>2 DEF ToSet
<1>7. MergedInv
  BY <1>1 DEF MergedInv
<1>8. BuiltInv
  BY <1>1 DEF BuiltInv, EmptyMap
<1> QED
  BY <1>4, <1>5, <1>6, <1>7, <1>8 DEF TrafficParts

\* What a rule asked of TLS is laid down when its route has been visited: all of
\* its references are to Backends.
LaidDownInv ==
  pass # Panicked => \A key \in DOMAIN ir : Eligible(key) /\ key.kind # "Gateway" =>
    \A n \in DOMAIN Sections(key) : AsksTLS(key, n) /\ "backendTLS" \in Visited(key) =>
      InRules(key, "backendTLS", n) \/ Due(key, "backendTLS", n)

LEMMA LaidDownByEmission ==
  ASSUME LoopInv, ResourcesInv, RulesInv, GatewaysInv, [Next]_vars, pass' # Panicked, EmitBackendTLS,
         NEW n, n \in 1..Size(ir[current])
  PROVE  \E j \in todo : /\ current' = current /\ pass' = pass /\ todo' = todo \ {j}
                         /\ j \in {RouteRuleAllIndex, n} => InRules(current, "backendTLS", n)'
PROOF
<1>1. PICK j : /\ Handles({"backendTLS"}, j)
               /\ \A m \in 1..Size(ir[current]) : j \in {RouteRuleAllIndex, m} => AllBackends(RuleAt(m)')
  BY BackendTLSTreats
<1>2. /\ j \in todo /\ current' = current /\ pass' = pass /\ todo' = todo \ {j} /\ ir' = ir
      /\ At({"backendTLS"})
  BY <1>1, StepOfLoops DEF Handles
<1>3. Filling /\ Filling' /\ current \in DOMAIN ir /\ current.kind # "Gateway"
  <2>1. At(Features) /\ At(Features \ {"mTLS"})
    BY <1>2 DEF At, Features, MergedFeatures
  <2>2. Filling
    BY <2>1, FillingAt
  <2>3. current \in DOMAIN ir /\ current.kind # "Gateway"
    BY <1>2, <2>1, AtRoute DEF ResourcesInv
  <2> QED
    BY <1>2, <2>2, <2>3 DEF Filling, Sorting
<1>4. ASSUME j \in {RouteRuleAllIndex, n}
      PROVE  InRules(current, "backendTLS", n)'
  <2>1. AllBackends(resources'[current].rules[n])
    BY <1>1, <1>2, <1>4 DEF RuleAt
  <2>2. \A m \in 1..Size(ir[current]) : resources'[current].rules[m].from = m
    BY <1>2, <1>3, RulesInvStep DEF RulesInv
  <2> QED
    BY <1>2, <2>1, <2>2 DEF InRules, RuleGot
<1> QED
  BY <1>2, <1>4

LEMMA LaidDownStep ==
  ASSUME LoopInv, ResourcesInv, RulesInv, GatewaysInv, ParsedInv, LaidDownInv, [Next]_vars
  PROVE  LaidDownInv'
PROOF
<1>1. ir' = ir
  BY StepOfLoops
<1> DEFINE f == "backendTLS"
<1> SUFFICES ASSUME pass' # Panicked, NEW key \in DOMAIN ir, Eligible(key), key.kind # "Gateway",
                    NEW n \in DOMAIN Sections(key), AsksTLS(key, n), f \in Visited(key)'
             PROVE  InRules(key, f, n)' \/ Due(key, f, n)'
  BY <1>1, EligibleStays DEF LaidDownInv, AsksTLS, Sections
<1>2. /\ pass # Panicked /\ InRange(key) /\ n \in 1..Size(ir[key]) /\ f \in Features /\ f \in OfRules
      /\ <<f, n>> \in DOMAIN ir[key].features
  BY NoPanicBefore, SizeOfSections DEF Eligible, AsksTLS, Features, MergedFeatures, OfRules
<1>3. CASE f \notin Visited(key)
  <2>1. Visits(key) /\ Filling /\ f = Feature
    BY <1>3, VisitedByVisit
  <2>2. \E idx \in todo' : idx \in {RouteRuleAllIndex, n}
    BY <1>2, <2>1, VisitIsDue
  <2>3. Passes[pass] = <<f, key.kind>>
    BY <2>1, PassesKinds DEF Visits, Feature
  <2> QED
    BY <2>1, <2>2, <2>3 DEF Due, Visits
<1>4. CASE InRules(key, f, n)
  BY <1>2, <1>4, InRulesStays
<1>5. CASE Due(key, f, n)
  <2>1. PICK idx \in todo : idx \in {RouteRuleAllIndex, n}
    BY <1>5 DEF Due
  <2>2. key = current /\ pass \in DOMAIN Passes /\ Passes[pass] = <<f, key.kind>>
    BY <1>5 DEF Due
  <2>3. f = Feature /\ At(Features) /\ Passes[pass][2] = key.kind
    BY <1>2, <2>2 DEF Feature, At
  <2>4. Filling
    BY <2>3, FillingAt
  <2>5. ASSUME UNCHANGED <<pass, current>>, idx \in todo'
        PROVE  Due(key, f, n)'
    BY <2>1, <2>2, <2>5 DEF Due
  <2>6. CASE AlreadyParsed
    <3>1. PICK j \in todo : IR(j).id \in parsed /\ todo' = todo \ {j}
      BY <2>6 DEF AlreadyParsed
    <3>2. j # idx
      <4> SUFFICES ASSUME j = idx
                   PROVE  FALSE
        OBVIOUS
      <4>1. /\ <<Feature, idx>> \in DOMAIN resources[key].features
            /\ resources[key].features[<<Feature, idx>>].id \in parsed
        BY <2>2, <2>4, <3>1, IRAtIndex
      <4>2. Done(<<Feature, idx>>[1], key, <<Feature, idx>>[2])
        BY <2>4, <4>1 DEF ParsedInv
      <4>3. ~Done(Feature, key, idx)
        BY <2>1, <2>2, <2>3, NotYetDone
      <4> QED
        BY <4>2, <4>3
    <3> QED
      BY <2>5, <2>6, <3>1, <3>2 DEF AlreadyParsed
  <2>7. CASE EmitBackendTLS
    <3>1. PICK j \in todo : /\ current' = current /\ pass' = pass /\ todo' = todo \ {j}
                            /\ j \in {RouteRuleAllIndex, n} => InRules(current, "backendTLS", n)'
      BY <1>2, <2>2, <2>7, LaidDownByEmission
    <3>2. CASE j = idx
      BY <2>1, <2>2, <3>1, <3>2
    <3>3. CASE j # idx
      BY <2>1, <2>5, <3>1, <3>3
    <3> QED
      BY <3>2, <3>3
  <2>8. CASE UNCHANGED <<pass, current, todo>>
    BY <2>1, <2>5, <2>8
  <2>9. ~NextPass /\ ~VisitResource
    BY <2>1 DEF NextPass, VisitResource
  <2>10. \A features : f \notin features => ~At(features)
    BY <2>3 DEF At, Feature
  <2>11. ~EmitRegex /\ ~EmitRewrite /\ ~EmitRedirect /\ ~EmitPolicy /\ ~EmitMTLS
    BY <2>10 DEF EmitRegex, EmitRewrite, EmitRedirect, EmitPolicy, EmitMTLS, Emits, OfRoutePolicies
  <2>12. RemoveBackendRefsDuplicates \/ SortResource \/ CheckConvertExtensionFeatures \/ EmissionEnded
           \/ UNCHANGED vars => UNCHANGED <<pass, current, todo>>
    BY DEF RemoveBackendRefsDuplicates, SortResource, CheckConvertExtensionFeatures, Panic,
           EmissionEnded, vars, loop
  <2> QED
    BY <2>6, <2>7, <2>8, <2>9, <2>11, <2>12 DEF Next
<1>6. CASE f \in Visited(key)
  BY <1>2, <1>4, <1>5, <1>6 DEF LaidDownInv
<1> QED
  BY <1>3, <1>6

LEMMA LaidDownAtTheStart ==
  ASSUME Init
  PROVE  LaidDownInv
PROOF
<1> SUFFICES ASSUME NEW key, "backendTLS" \in Visited(key)
             PROVE  FALSE
  BY DEF LaidDownInv
<1>1. pass = 1
  BY DEF Init
<1>2. Passes[1] = <<"backendTLS", key.kind>>
  BY <1>1, PassesDistinct DEF Visited
<1>3. Passes[1][1] = "duplicates"
  BY DEF Passes
<1> QED
  BY <1>2, <1>3

LEMMA PartsStep ==
  ASSUME AllInRange, BackendsApart, NoBackendsLoaded, WeightsAlike,
         LoopInv, ResourcesInv, RulesInv, TrafficParts, [Next]_vars
  PROVE  TrafficParts'
PROOF
<1>1. TrafficInv'
  BY TrafficStep
<1>2. UntouchedInv'
  BY UntouchedStep DEF TrafficParts
<1>3. MovedInv'
  BY MovedStep
<1>4. MergedInv'
  BY MergedStep DEF TrafficParts
<1>5. BuiltInv'
  BY RefsStep
<1> QED
  BY <1>1, <1>2, <1>3, <1>4, <1>5 DEF TrafficParts

(***************************************************************************)
(* The traffic of a rule at the end                                        *)
(***************************************************************************)
\* Every reference leads where its rule should send what it sends to it.
LEMMA ReferencesLead ==
  ASSUME pass = Ended, ResourcesInv, RulesInv, TrafficInv, LaidDownInv,
         NEW key, Eligible(key), key.kind # "Gateway", NEW n \in 1..Size(ir[key]),
         NEW refs, refs = RuleFrom(key, n).backends
  PROVE  \E goals : /\ \A x \in DOMAIN refs : Destination(key.ns, refs[x]) = goals[x]
                    /\ SameTraffic(refs, goals, LoadedRefs(key, n), Goals(key, n))
PROOF
<1>1. key \in DOMAIN ir /\ n \in DOMAIN Sections(key) /\ IsResource(key, ir[key])
  BY SizeOfSections DEF Eligible
<1>2. PICK m \in 1..Size(ir[key]) :
        RuleFrom(key, n) = resources[key].rules[m] /\ resources[key].rules[m].from = n
  BY <1>1, RuleIsThere
<1>3. KeepsTraffic(key, n, refs)
  BY <1>1, <1>2 DEF TrafficInv
<1>4. PICK goals : /\ \A x \in DOMAIN refs : LeadsTo(key, n, refs[x], goals[x])
                   /\ SameTraffic(refs, goals, LoadedRefs(key, n), Goals(key, n))
  BY <1>3 DEF KeepsTraffic
<1>5. ASSUME AsksTLS(key, n), NEW x \in DOMAIN refs
      PROVE  refs[x].kind = "Backend"
  <2>1. "backendTLS" \in FeaturesOfKind(key.kind)
    BY <1>1, <1>5 DEF IsResource, AsksTLS
  <2>2. "backendTLS" \in Visited(key)
    BY <1>1, <2>1, AllVisited DEF IsResource
  <2>3. pass # Panicked /\ pass \notin DOMAIN Passes
    BY PassesDistinct
  <2>4. InRules(key, "backendTLS", n)
    BY <1>1, <1>5, <2>2, <2>3 DEF LaidDownInv, Due
  <2>5. AllBackends(RuleFrom(key, n))
    BY <1>2, <2>4 DEF InRules, RuleGot
  <2> QED
    BY <2>5 DEF AllBackends, ToSet
<1>6. ASSUME NEW x \in DOMAIN refs
      PROVE  Destination(key.ns, refs[x]) = goals[x]
  <2>1. LeadsTo(key, n, refs[x], goals[x])
    BY <1>4
  <2>2. PICK ref, goal : ref = refs[x] /\ goal = goals[x]
    OBVIOUS
  <2>3. CASE ref.kind # "Backend"
    <3>1. TLSSettings(key, n) = EmptyMap
      BY <1>5, <2>2, <2>3 DEF TLSSettings
    <3>2. goal = Goal(key, n, ref)
      BY <2>1, <2>2, <2>3 DEF LeadsTo
    <3> QED
      BY <2>2, <2>3, <3>1, <3>2 DEF Goal, Destination
  <2>4. CASE ref.kind = "Backend"
    <3>1. /\ backends[<<key.ns, ref.name>>] =
               [service |-> goal.name, ns |-> key.ns, port |-> goal.port, tls |-> goal.tls]
          /\ goal = [kind |-> "Service", name |-> goal.name, port |-> goal.port, tls |-> goal.tls]
      BY <2>1, <2>2, <2>4 DEF LeadsTo
    <3>2. Destination(key.ns, ref) = [kind |-> "Service", name |-> goal.name, port |-> goal.port, tls |-> goal.tls]
      BY <2>4, <3>1 DEF Destination
    <3> QED
      BY <2>2, <3>1, <3>2
  <2> QED
    BY <2>3, <2>4
<1> QED
  BY <1>4, <1>6

\* What RulesKeepTheirBackends says of a rule.
SendsAsLoaded(key, n) ==
  LET at  == <<"backendTLS", n>>
      tls == IF at \in DOMAIN ir[key].features THEN ir[key].features[at].fields ELSE EmptyMap
  IN  Traffic(RuleFrom(key, n).backends, LAMBDA ref : Destination(key.ns, ref))
        = Traffic(ir[key].rules[n].backends, LAMBDA ref : [Destination(key.ns, ref) EXCEPT !.tls = tls])

LEMMA RuleKeepsItsBackends ==
  ASSUME pass = Ended, NoBackendsLoaded, ResourcesInv, RulesInv, TrafficInv, LaidDownInv,
         NEW key, Eligible(key), key.kind # "Gateway", NEW n \in 1..Size(ir[key])
  PROVE  SendsAsLoaded(key, n)
PROOF
<1>1. PICK refs : refs = RuleFrom(key, n).backends
  OBVIOUS
<1>2. PICK refs0, goals0 : refs0 = LoadedRefs(key, n) /\ goals0 = Goals(key, n)
  OBVIOUS
<1>3. PICK goals : /\ \A x \in DOMAIN refs : Destination(key.ns, refs[x]) = goals[x]
                   /\ SameTraffic(refs, goals, refs0, goals0)
  BY <1>1, <1>2, ReferencesLead
<1> DEFINE to(ref)  == Destination(key.ns, ref)
           to0(ref) == [Destination(key.ns, ref) EXCEPT !.tls = TLSSettings(key, n)]
           places(d)  == {x \in DOMAIN refs : to(refs[x]) = d /\ refs[x].weight # <<>>}
           places0(d) == {x \in DOMAIN refs0 : to0(refs0[x]) = d /\ refs0[x].weight # <<>>}
           S  == {to(ref) : ref \in ToSet(refs)}
           S0 == {to0(ref) : ref \in ToSet(refs0)}
<1>4. ASSUME NEW x \in DOMAIN refs0
      PROVE  to0(refs0[x]) = goals0[x]
  <2>1. key \in DOMAIN ir
    BY DEF Eligible
  <2>2. refs0[x].kind # "Backend"
    BY <1>2, <2>1, RefsLoaded DEF FreshRefs
  <2>3. goals0[x] = Goal(key, n, refs0[x])
    BY <1>2 DEF Goals
  <2> QED
    BY <2>2, <2>3 DEF Goal, Destination
<1>5. S = {goals[x] : x \in DOMAIN refs}
  <2>1. S = {to(refs[x]) : x \in DOMAIN refs}
    BY DEF ToSet
  <2> QED
    BY <1>3, <2>1
<1>6. S0 = {goals0[x] : x \in DOMAIN refs0}
  <2> HIDE DEF to0
  <2>1. S0 = {to0(refs0[x]) : x \in DOMAIN refs0}
    BY DEF ToSet
  <2> QED
    BY <1>4, <2>1
<1>7. \A d : places(d) = WeightedFor(refs, goals, d)
  BY <1>3 DEF WeightedFor
<1>8. \A d : places0(d) = WeightedFor(refs0, goals0, d)
  BY <1>4 DEF WeightedFor
<1>9. S = S0 /\ \A d \in S0 : SumOfWeights(refs, places(d)) = SumOfWeights(refs0, places0(d))
  <2> HIDE DEF S, S0, places, places0
  <2> QED
    BY <1>3, <1>5, <1>6, <1>7, <1>8 DEF SameTraffic
<1>10. [d \in S |-> SumOfWeights(refs, places(d))] = [d \in S0 |-> SumOfWeights(refs0, places0(d))]
  <2> HIDE DEF S, S0, places, places0
  <2> QED
    BY <1>9
<1> QED
  BY <1>1, <1>2, <1>10 DEF SendsAsLoaded, Traffic, LoadedRefs, TLSSettings, AsksTLS

\* The assumptions on references.
Keepable == AllInRange /\ BackendsApart /\ NoBackendsLoaded /\ WeightsAlike

KeepingInv ==
  /\ AnswersInv
  /\ IdsApart => LaidDownInv
  /\ Keepable => TrafficParts

LEMMA KeepingAtTheStart ==
  ASSUME Init
  PROVE  KeepingInv
  BY AnswersAtTheStart, LaidDownAtTheStart, TrafficAtTheStart DEF KeepingInv, Keepable

LEMMA AssumptionsStay ==
  ASSUME ir' = ir
  PROVE  (Keepable' => Keepable) /\ (IdsApart' => IdsApart)
PROOF
<1>1. AllInRange' <=> AllInRange
  BY DEF AllInRange, InRange, Sections
<1>2. BackendsApart' <=> BackendsApart
  BY DEF BackendsApart, BackendKey, BackendFor, TLSIndex, TLSSettings, AsksTLS, LoadedRefs
<1>3. NoBackendsLoaded' <=> NoBackendsLoaded
  BY DEF NoBackendsLoaded
<1>4. WeightsAlike' <=> WeightsAlike
  BY DEF WeightsAlike, LoadedRefs
<1>5. IdsApart' <=> IdsApart
  BY DEF IdsApart
<1> QED
  BY <1>1, <1>2, <1>3, <1>4, <1>5 DEF Keepable

LEMMA KeepingStep ==
  ASSUME KeepingInv, [Next]_vars
  PROVE  KeepingInv'
PROOF
<1>1. AnswersInv'
  BY AnswersStep DEF KeepingInv
<1>2. (Keepable' => Keepable) /\ (IdsApart' => IdsApart)
  BY StepOfLoops, AssumptionsStay
<1>3. IdsApart' => LaidDownInv'
  BY <1>2, LaidDownStep DEF KeepingInv, AnswersInv
<1>4. Keepable' => TrafficParts'
  BY <1>2, PartsStep DEF KeepingInv, AnswersInv, Keepable
<1> QED
  BY <1>1, <1>3, <1>4 DEF KeepingInv

LEMMA AllBackendsKept ==
  ASSUME KeepingInv, Keepable, IdsApart
  PROVE  RulesKeepTheirBackends
PROOF
<1>1. /\ ResourcesInv /\ RulesInv /\ LaidDownInv /\ TrafficInv /\ NoBackendsLoaded
  BY DEF KeepingInv, AnswersInv, TrafficParts, Keepable
<1>2. ASSUME pass = Ended, NEW key \in DOMAIN ir, key.kind # "Gateway", InRange(key), Unshared(key),
             NEW n \in DOMAIN ir[key].rules
      PROVE  SendsAsLoaded(key, n)
  <2>1. Eligible(key) /\ n \in 1..Size(ir[key])
    BY <1>1, <1>2, SizeOfSections DEF Eligible, Sections
  <2> QED
    BY <1>1, <1>2, <2>1, RuleKeepsItsBackends
<1> QED
  BY <1>2 DEF RulesKeepTheirBackends, SendsAsLoaded

\* Leaving out duplicates, and putting Backends in place of Services, neither
\* loses nor redirects traffic: when the emission has ended, every rule sends each
\* service and port the weights it was given, with the TLS settings of the rule's
\* own feature; whichever Services have one Backend, whatever is merged or visited
\* first, and in whatever order rules and references are sorted.  It does for
\* every emitter IR without references to Backends and features of rules that are
\* not there, whose features are IRs of their own, in which references whose
\* Backends have one name want the same Backend, and in which the references to a
\* port that follow one without a weight have none either.
THEOREM BackendsAreKept ==
  Spec => [](AllInRange /\ NoBackendsLoaded /\ IdsApart /\ BackendsApart /\ WeightsAlike
               => RulesKeepTheirBackends)
PROOF
<1>1. Init => KeepingInv
  BY KeepingAtTheStart
<1>2. KeepingInv /\ [Next]_vars => KeepingInv'
  BY KeepingStep
<1>3. KeepingInv => (AllInRange /\ NoBackendsLoaded /\ IdsApart /\ BackendsApart /\ WeightsAlike
                       => RulesKeepTheirBackends)
  BY AllBackendsKept DEF Keepable
<1> QED
  BY <1>1, <1>2, <1>3, PTL DEF Spec
===============================================================================
