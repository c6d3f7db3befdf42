---------------------------- MODULE ConversionProofs ----------------------------
(***************************************************************************)
(* Proofs about the conversions of whole routes, for any Ingresses and     *)
(* annotations.  What FeatureProofs shows of the other parsers holds here  *)
(* until the last parser runs: it is the only one that takes rules away.   *)
(***************************************************************************)
EXTENDS Conversions, FeatureProofs

(***************************************************************************)
(* Which parser runs                                                       *)
(***************************************************************************)
LEMMA StepNumbers ==
  /\ FeatureStep => step \in 1..14
  /\ At({"sslPassthrough"}) => step = 15
  /\ At({"backendProtocol"}) => step = 16
  /\ At(ConversionParsers) => step \in {15, 16}
<1>1. \A n \in 1..16 : Parsers[n] = "sslPassthrough" => n = 15
  <2>1. Parsers[15] = "sslPassthrough"
    BY DEF Parsers
  <2> QED
    BY <2>1, ParsersDistinct
<1>2. \A n \in 1..16 : Parsers[n] = "backendProtocol" => n = 16
  <2>1. Parsers[16] = "backendProtocol"
    BY DEF Parsers
  <2> QED
    BY <2>1, ParsersDistinct
<1>3. At(FeatureParsers) => step \in 1..14
  <2> SUFFICES ASSUME At(FeatureParsers) PROVE step \in 1..14
    OBVIOUS
  <2>1. step \in 1..16 /\ Parsers[step] \in FeatureParsers
    BY ParsersShape DEF At
  <2>2. PICK n \in 1..14 : Parsers[step] = Parsers[n]
    BY <2>1 DEF FeatureParsers, Conversion
  <2>3. n \in 1..16
    BY <2>2
  <2>4. step = n
    BY <2>1, <2>2, <2>3, ParsersDistinct
  <2> QED
    BY <2>2, <2>4
<1>4. FeatureStep => At(FeatureParsers)
  <2>1. /\ PerSource \subseteq FeatureParsers /\ OneFeature \subseteq FeatureParsers
        /\ {"canary", "redirect", "auth", "header"} \subseteq FeatureParsers
    <3>1. /\ Parsers[1] = "canary" /\ Parsers[4] = "redirect" /\ Parsers[5] = "auth"
          /\ Parsers[9] = "header"
      BY DEF Parsers
    <3> QED
      BY <3>1 DEF FeatureParsers, PerSource, OneFeature, Conversion
  <2>2. ParseCanaryRule => At({"canary"})
    BY CanaryStep DEF AtRule, Running
  <2>3. /\ VisitGroup(FeatureParsers) \/ NextParser(FeatureParsers) => At(FeatureParsers)
        /\ NextRule(PerSource) => At(PerSource)
        /\ FinishGroup(FeatureParsers \ {"canary", "redirect"}) => At(FeatureParsers)
    BY DEF VisitGroup, NextParser, NextRule, FinishGroup, RulesDone, AtRule, Running, At
  <2>4. /\ FinishCanary => At({"canary"})
        /\ FinishRedirect => At({"redirect"})
        /\ ParseFeature => At(OneFeature)
        /\ ParseAuth => At({"auth"})
        /\ ParseHeaders => At({"header"})
    BY DEF FinishCanary, FinishRedirect, ParseFeature, ParseAuth, ParseHeaders, RulesDone, AtSource, AtRule, Running
  <2>5. \A parsers \in SUBSET FeatureParsers : At(parsers) => At(FeatureParsers)
    BY DEF At
  <2>6. \A name \in {"canary", "redirect", "auth", "header"} : At({name}) => At(FeatureParsers)
    BY <2>1, <2>5
  <2> QED
    BY <2>1, <2>2, <2>3, <2>4, <2>5, <2>6 DEF FeatureStep
<1> QED
  BY <1>1, <1>2, <1>3, <1>4, ParsersShape DEF At, ConversionParsers

(***************************************************************************)
(* What a step changes                                                     *)
(***************************************************************************)
\* The steps that only lead a parser from one source to the next.
Leading ==
  \/ VisitRoute
  \/ (NextRule(ConversionParsers) \/ MissingRule(ConversionParsers)
       \/ NextParser(ConversionParsers)) /\ UNCHANGED conversionVars
  \/ LookForPassthrough \/ CollectRule
  \/ UNCHANGED vars

LEMMA LeadingEffect ==
  ASSUME Leading
  PROVE  /\ UNCHANGED inputs
         /\ UNCHANGED <<httpRoutes, gateways, tlsRoutes, grpcRoutes>>
         /\ newRules' = <<>> \/ UNCHANGED newRules
         /\ appRoot' = <<>> \/ UNCHANGED appRoot
         /\ group # Nothing => UNCHANGED group /\ (UNCHANGED newRules)
         /\ group' # Nothing /\ group = Nothing => newRules' = <<>>
  BY DEF Leading, VisitRoute, VisitGroup, NextRule, MissingRule, NextParser, LookForPassthrough, CollectRule,
         AtSource, AtRule, Running, NextSource, vars, featureVars, conversionVars, localVars, loopVars

LEMMA LeadingLoop ==
  ASSUME InputsInv, LoopInv, Leading
  PROVE  LoopInv'
<1>1. UNCHANGED inputs /\ UNCHANGED httpRoutes
  BY LeadingEffect
<1>2. ruleGroups' = ruleGroups /\ pir' = pir
  BY <1>1 DEF inputs
<1>3. \A n \in Nat : n + 1 \in Nat \ {0}
  OBVIOUS
<1>4. CASE VisitRoute
  <2>1. step' = step /\ VisitGroup(ConversionParsers)
    BY <1>4 DEF VisitRoute, VisitGroup
  <2>2. PICK g \in pending :
          /\ pending' = pending \ {g}
          /\ IF ruleGroups[g] \in DOMAIN httpRoutes
             THEN group' = g /\ i' = 1 /\ j' = 1
             ELSE UNCHANGED <<group, i, j>>
    BY <2>1 DEF VisitGroup
  <2>3. CASE ruleGroups[g] \in DOMAIN httpRoutes
    BY <1>1, <1>2, <2>1, <2>2, <2>3 DEF LoopInv, Key, Panicked
  <2>4. CASE ruleGroups[g] \notin DOMAIN httpRoutes
    <3>1. UNCHANGED <<group, i, j>>
      BY <2>2, <2>4
    <3> QED
      BY <1>1, <1>2, <2>1, <2>2, <3>1 DEF LoopInv, Key
  <2> QED
    BY <2>3, <2>4
<1>5. CASE NextParser(ConversionParsers)
  <2>1. step \in 1..16 /\ step' = step + 1 /\ Ended = 17 /\ step' \in 0..17
    BY <1>5, ParsersShape DEF NextParser, At
  <2>2. UNCHANGED <<group, i, j>> /\ pending' = DOMAIN ruleGroups
    BY <1>5 DEF NextParser
  <2> QED
    BY <1>1, <1>2, <2>1, <2>2 DEF LoopInv, Key, Panicked
<1>6. CASE NextRule(ConversionParsers) \/ MissingRule(ConversionParsers)
           \/ LookForPassthrough \/ CollectRule
  <2>1. /\ UNCHANGED <<step, pending, group>> /\ i' \in {i, i + 1}
        /\ j' \in {1, j, j + 1, Len(Sources[i]) + 1}
    BY <1>6 DEF NextRule, MissingRule, LookForPassthrough, CollectRule, NextSource
  <2>2. j' \in Nat \ {0}
    <3>1. CASE LookForPassthrough
      <4>1. Len(Sources[i]) \in Nat
        BY <3>1, AtRuleFacts, IsSeqShape DEF LookForPassthrough, AtSource
      <4> QED
        BY <2>1, <4>1 DEF LoopInv
    <3>2. CASE ~LookForPassthrough
      <4>1. j' \in {1, j, j + 1}
        BY <1>6, <3>2 DEF NextRule, MissingRule, CollectRule, NextSource
      <4> QED
        BY <4>1 DEF LoopInv
    <3> QED
      BY <3>1, <3>2
  <2>3. i' \in Nat \ {0}
    BY <2>1 DEF LoopInv
  <2> QED
    BY <1>1, <1>2, <2>1, <2>2, <2>3 DEF LoopInv, Key
<1>7. CASE UNCHANGED vars
  <2>1. UNCHANGED <<step, pending, group, i, j>>
    BY <1>7 DEF vars, featureVars, loopVars
  <2> QED
    BY <1>1, <1>2, <2>1 DEF LoopInv, Key
<1> QED
  BY <1>4, <1>5, <1>6, <1>7 DEF Leading

(***************************************************************************)
(* The shape of what the conversions make                                  *)
(***************************************************************************)
\* A route of which rules may have been taken away.
IsPartOf(rt, provided) ==
  /\ rt = [ns |-> rt.ns, host |-> rt.host, features |-> rt.features,
           parentRefs |-> rt.parentRefs, rules |-> rt.rules]
  /\ IsSeq(rt.rules)
  /\ \A n \in DOMAIN rt.rules : IsRule(rt.rules[n], provided)

\* Indices of a route's rules.
IsCollected(indices, rt) == IsSeq(indices) /\ \A n \in DOMAIN indices : indices[n] \in DOMAIN rt.rules

ComeFrom(rules, provided) == \A n \in DOMAIN rules : rules[n].from \in {0} \union DOMAIN provided

LEMMA RouteIsPart ==
  ASSUME NEW rt, NEW provided, IsRoute(rt, provided)
  PROVE  IsPartOf(rt, provided)
  BY DEF IsRoute, IsPartOf

LEMMA IndexSet ==
  ASSUME NEW rt, NEW indices, IsCollected(indices, rt)
  PROVE  /\ IsFiniteSet(ToSet(indices)) /\ Cardinality(ToSet(indices)) \in Nat
         /\ ToSet(indices) \subseteq DOMAIN rt.rules
<1>1. ToSet(indices) = {indices[n] : n \in DOMAIN indices}
  BY DEF ToSet
<1>2. Len(indices) \in Nat /\ DOMAIN indices = 1..Len(indices)
  BY IsSeqShape DEF IsCollected
<1>3. IsFiniteSet(DOMAIN indices)
  BY <1>2, IndicesFinite
<1>4. IsFiniteSet(ToSet(indices))
  BY <1>1, <1>3, ImageFinite
<1> QED
  BY <1>1, <1>4, FS_CardinalityType DEF IsCollected

\* The features of backendTLS are found again at the indices of the order.
LEMMA BackendTLSShape ==
  ASSUME NEW rt, NEW indices, IsCollected(indices, rt), NEW order \in Orders(ToSet(indices)),
         NEW features
  PROVE  \A at \in DOMAIN BackendTLSAt(features, order) :
           /\ at[1] = "backendTLS" /\ at[2] \in DOMAIN order /\ at = <<"backendTLS", at[2]>>
           /\ at[2] \in Nat \ {0}
           /\ order[at[2]] \in DOMAIN rt.rules
           /\ <<"backendTLS", order[at[2]]>> \in DOMAIN features
           /\ BackendTLSAt(features, order)[at] = features[<<"backendTLS", order[at[2]]>>]
<1> DEFINE kept == {n \in DOMAIN order : <<"backendTLS", order[n]>> \in DOMAIN features}
           all  == {<<"backendTLS", n>> : n \in kept}
<1>1. BackendTLSAt(features, order) = [at \in all |-> features[<<"backendTLS", order[at[2]]>>]]
  BY DEF BackendTLSAt
<1>2. DOMAIN order = 1..Cardinality(ToSet(indices)) /\ \A n \in DOMAIN order : order[n] \in ToSet(indices)
  BY DEF Orders
<1>3. \A n \in DOMAIN order : n \in Nat \ {0} /\ order[n] \in DOMAIN rt.rules
  BY <1>2, IndexSet
<1>4. \A at \in all : at[2] \in kept /\ at[1] = "backendTLS" /\ at = <<"backendTLS", at[2]>>
  <2> SUFFICES ASSUME NEW at \in all
               PROVE  at[2] \in kept /\ at[1] = "backendTLS" /\ at = <<"backendTLS", at[2]>>
    OBVIOUS
  <2> HIDE DEF kept
  <2>1. PICK n \in kept : at = <<"backendTLS", n>>
    OBVIOUS
  <2>2. at[1] = "backendTLS" /\ at[2] = n
    BY <2>1
  <2> QED
    BY <2>1, <2>2
<1>5. \A n \in kept : n \in DOMAIN order /\ <<"backendTLS", order[n]>> \in DOMAIN features
  OBVIOUS
<1> HIDE DEF kept, all
<1> QED
  BY <1>1, <1>3, <1>4, <1>5

LEMMA RulesAtShape ==
  ASSUME NEW rt, NEW indices, IsCollected(indices, rt)
  PROVE  /\ IsSeq(RulesAt(rt, indices)) /\ DOMAIN RulesAt(rt, indices) = DOMAIN indices
         /\ \A n \in DOMAIN indices : RulesAt(rt, indices)[n] = rt.rules[indices[n]]
<1> DEFINE rules == RulesAt(rt, indices)
<1>1. DOMAIN rules = DOMAIN indices /\ \A n \in DOMAIN indices : rules[n] = rt.rules[indices[n]]
  BY DEF RulesAt
<1>2. Len(indices) \in Nat /\ DOMAIN indices = 1..Len(indices)
  BY IsSeqShape DEF IsCollected
<1>3. rules = [n \in 1..Len(indices) |-> rules[n]]
  BY <1>2 DEF RulesAt
<1> HIDE DEF rules
<1>4. IsSeq(rules)
  BY <1>1, <1>2, <1>3, FunctionIsSeq
<1> QED
  BY <1>1, <1>4 DEF rules

LEMMA HTTPRouteShape ==
  ASSUME NEW rt, NEW provided, IsPartOf(rt, provided), NEW indices, NEW order
  PROVE  HTTPRoute(rt, indices, order)
           = [ns |-> rt.ns, host |-> rt.host,
              features |-> Over(BackendTLSAt(rt.features, order), OtherFeatures(rt.features)),
              parentRefs |-> rt.parentRefs, rules |-> RulesAt(rt, indices)]
<1> DEFINE rules    == RulesAt(rt, indices)
           new(f)   == Over(BackendTLSAt(f, order), OtherFeatures(f))
           features == new(rt.features)
           one      == [rt EXCEPT !.rules = rules]
           two      == [one EXCEPT !.features = new(@)]
<1>1. HTTPRoute(rt, indices, order) = two
  BY DEF HTTPRoute
<1>2. one = [ns |-> rt.ns, host |-> rt.host, features |-> rt.features,
             parentRefs |-> rt.parentRefs, rules |-> rules]
  BY DEF IsPartOf
<1>3. two = [one EXCEPT !.features = new(one.features)]
  OBVIOUS
<1>4. new(one.features) = features
  BY <1>2
<1> HIDE DEF one, new, features, rules
<1>5. two = [ns |-> rt.ns, host |-> rt.host, features |-> features,
             parentRefs |-> rt.parentRefs, rules |-> rules]
  BY <1>2, <1>3, <1>4
<1> QED
  BY <1>1, <1>5 DEF features, new, rules

LEMMA HTTPRouteIsPart ==
  ASSUME NEW rt, NEW provided, IsPartOf(rt, provided), IsFeatures(rt.features),
         NEW indices, IsCollected(indices, rt), NEW order \in Orders(ToSet(indices))
  PROVE  /\ IsPartOf(HTTPRoute(rt, indices, order), provided)
         /\ IsFeatures(HTTPRoute(rt, indices, order).features)
<1> DEFINE new == HTTPRoute(rt, indices, order)
           moved == BackendTLSAt(rt.features, order)
           others == OtherFeatures(rt.features)
<1>1. new = [ns |-> rt.ns, host |-> rt.host, features |-> Over(moved, others),
             parentRefs |-> rt.parentRefs, rules |-> RulesAt(rt, indices)]
  BY HTTPRouteShape
<1>2. IsSeq(RulesAt(rt, indices)) /\ \A n \in DOMAIN RulesAt(rt, indices) : IsRule(RulesAt(rt, indices)[n], provided)
  BY RulesAtShape DEF IsPartOf, IsCollected
<1>3. "backendTLS" \in FeatureNames
  <2>1. 11 \in 2..14 /\ Parsers[11] = "backendTLS"
    BY DEF Parsers
  <2> QED
    BY <2>1 DEF FeatureNames, OneFeature, PerSource
<1>4. IsFeatures(moved)
  <2> SUFFICES ASSUME NEW at \in DOMAIN moved
               PROVE  at[1] \in FeatureNames /\ at[2] \in Nat \ {0} /\ IsIR(moved[at])
    BY DEF IsFeatures
  <2>1. /\ at[1] = "backendTLS" /\ at[2] \in Nat \ {0}
        /\ <<"backendTLS", order[at[2]]>> \in DOMAIN rt.features
        /\ moved[at] = rt.features[<<"backendTLS", order[at[2]]>>]
    <3>1. PICK features : features = rt.features
      OBVIOUS
    <3>2. at \in DOMAIN BackendTLSAt(features, order)
      BY <3>1
    <3>3. /\ at[1] = "backendTLS" /\ at[2] \in Nat \ {0}
          /\ <<"backendTLS", order[at[2]]>> \in DOMAIN features
          /\ BackendTLSAt(features, order)[at] = features[<<"backendTLS", order[at[2]]>>]
      BY <3>2, BackendTLSShape
    <3> QED
      BY <3>1, <3>3
  <2>2. IsIR(rt.features[<<"backendTLS", order[at[2]]>>])
    BY <2>1 DEF IsFeatures
  <2> QED
    BY <1>3, <2>1, <2>2
<1>5. IsFeatures(others)
  BY DEF IsFeatures, OtherFeatures
<1> HIDE DEF moved, others, new
<1>6. IsFeatures(Over(moved, others))
  BY <1>4, <1>5 DEF IsFeatures, Over
<1>7. IsPartOf(new, provided) /\ new.features = Over(moved, others)
  BY <1>1, <1>2 DEF IsPartOf
<1> QED
  BY <1>6, <1>7 DEF new

LEMMA GRPCRuleKeeps ==
  ASSUME NEW r, NEW provided, IsRule(r, provided)
  PROVE  GRPCRule(r).from = r.from /\ GRPCRule(r).backends = r.backends
<1>1. PICK filters : GRPCRule(r) = [r EXCEPT !.filters = filters]
  BY DEF GRPCRule
<1> QED
  BY <1>1 DEF IsRule

LEMMA GRPCRouteShape ==
  ASSUME NEW rt, NEW provided, IsPartOf(rt, provided), NEW indices, IsCollected(indices, rt), NEW order
  PROVE  LET rules == GRPCRoute(rt, indices, order).rules
         IN  /\ DOMAIN rules = DOMAIN indices
             /\ \A n \in DOMAIN rules : rules[n].from = rt.rules[indices[n]].from
                                        /\ rules[n].backends = rt.rules[indices[n]].backends
<1> DEFINE rules == GRPCRoute(rt, indices, order).rules
<1>1. DOMAIN rules = DOMAIN indices /\ \A n \in DOMAIN rules : rules[n] = GRPCRule(rt.rules[indices[n]])
  BY DEF GRPCRoute
<1> HIDE DEF rules
<1>2. \A n \in DOMAIN rules : IsRule(rt.rules[indices[n]], provided)
  BY <1>1 DEF IsPartOf, IsCollected
<1>3. DOMAIN rules = DOMAIN indices
        /\ \A n \in DOMAIN rules : rules[n].from = rt.rules[indices[n]].from
                                   /\ rules[n].backends = rt.rules[indices[n]].backends
  BY <1>1, <1>2, GRPCRuleKeeps
<1> QED
  BY <1>3 DEF rules

(***************************************************************************)
(* ConversionTypeOK                                                        *)
(***************************************************************************)
PartsInv == \A key \in DOMAIN httpRoutes : IsPartOf(httpRoutes[key], pir[key].rules)

\* What backendProtocolFeature has collected of the route it visits.
CollectedInv ==
  step = 16 /\ group # Nothing => IsCollected(grpcRules, Route) /\ IsCollected(httpRules, Route)

\* Where the routes are: the one map loses what the others get.
WhereInv ==
  /\ DOMAIN httpRoutes \union DOMAIN tlsRoutes \union DOMAIN grpcRoutes = DOMAIN pir
  /\ DOMAIN tlsRoutes \cap (DOMAIN httpRoutes \union DOMAIN grpcRoutes) = {}
  /\ step \in 1..14 => DOMAIN tlsRoutes = {}
  /\ step < 16 => DOMAIN grpcRoutes = {}

ComeFromInv ==
  /\ \A key \in DOMAIN tlsRoutes : ComeFrom(tlsRoutes[key].rules, pir[key].rules)
  /\ \A key \in DOMAIN grpcRoutes : ComeFrom(grpcRoutes[key].rules, pir[key].rules)

ConversionInv ==
  /\ InputsInv /\ LoopInv /\ NewRulesInv /\ FeaturesInv
  /\ step < 16 => RoutesInv
  /\ PartsInv /\ CollectedInv /\ WhereInv /\ ComeFromInv

\* The route of a group becomes a TLSRoute, and its Gateway gets a listener for it.
PassesThrough ==
  /\ group # Nothing /\ step = 15 /\ passthrough /\ Route.parentRefs # <<>>
  /\ tlsRoutes' = Put(tlsRoutes, Key, TLSRoute(Route, TLSListener(ParentGateway(Route), Route.host)))
  /\ gateways' = IF ParentGateway(Route) \notin DOMAIN gateways THEN gateways
                 ELSE [gateways EXCEPT ![ParentGateway(Route)].listeners = WithTLSListener(@, Route.host)]
  /\ httpRoutes' = RemoveKey(httpRoutes, Key)
  /\ group' = Nothing /\ i' = 1 /\ j' = 1 /\ UNCHANGED <<step, pending>>

LEMMA PassthroughEffect ==
  ASSUME FinishPassthrough
  PROVE  /\ UNCHANGED inputs /\ UNCHANGED <<newRules, appRoot, errors, grpcRoutes, grpcRules, httpRules, passthrough>>
         /\ group # Nothing /\ step = 15
         /\ \/ /\ ~passthrough /\ UNCHANGED <<httpRoutes, gateways, tlsRoutes, step, pending>>
               /\ group' = Nothing /\ i' = 1 /\ j' = 1
            \/ /\ UNCHANGED <<httpRoutes, gateways, tlsRoutes>>
               /\ step' = Panicked /\ UNCHANGED <<pending, group, i, j>>
            \/ PassesThrough
<1>1. At({"sslPassthrough"}) /\ group # Nothing
  BY DEF FinishPassthrough, RulesDone, Running
<1>2. step = 15
  BY <1>1, StepNumbers
<1>3. /\ UNCHANGED inputs
      /\ UNCHANGED <<newRules, appRoot, errors, grpcRoutes, grpcRules, httpRules, passthrough>>
  BY DEF FinishPassthrough, localVars, conversionLocals
<1>4. CASE ~passthrough
  BY <1>1, <1>2, <1>3, <1>4 DEF FinishPassthrough, LeaveGroup
<1>5. CASE passthrough /\ Route.parentRefs = <<>>
  BY <1>1, <1>2, <1>3, <1>5 DEF FinishPassthrough, Panic
<1>6. CASE passthrough /\ Route.parentRefs # <<>>
  <2>1. PassesThrough
    BY <1>1, <1>2, <1>6 DEF FinishPassthrough, LeaveGroup, PassesThrough
  <2> QED
    BY <1>1, <1>2, <1>3, <2>1
<1> QED
  BY <1>4, <1>5, <1>6

\* Rules of a group's route move to a GRPCRoute.
Splits ==
  /\ grpcRules # <<>>
  /\ \E order \in Orders(ToSet(grpcRules)) :
       grpcRoutes' = Put(grpcRoutes, Key, GRPCRoute(Route, grpcRules, order))
  /\ \E order \in Orders(ToSet(httpRules)) :
       httpRoutes' = Moved(httpRoutes, Route, Key, httpRules, order)

LEMMA ProtocolEffect ==
  ASSUME FinishProtocol
  PROVE  /\ UNCHANGED inputs
         /\ UNCHANGED <<newRules, appRoot, errors, gateways, tlsRoutes, step, pending, passthrough,
                        grpcRules, httpRules>>
         /\ group # Nothing /\ step = 16 /\ group' = Nothing /\ i' = 1 /\ j' = 1
         /\ (grpcRules = <<>> /\ UNCHANGED <<httpRoutes, grpcRoutes>>) \/ Splits
<1>1. At({"backendProtocol"}) /\ group # Nothing
  BY DEF FinishProtocol, RulesDone, Running
<1>2. step = 16
  BY <1>1, StepNumbers
<1> QED
  BY <1>1, <1>2 DEF FinishProtocol, LeaveGroup, Splits, localVars, conversionLocals

LEMMA TLSRouteShape ==
  ASSUME NEW rt, NEW provided, IsPartOf(rt, provided), NEW sectionName
  PROVE  LET new == TLSRoute(rt, sectionName)
         IN  /\ ComeFrom(new.rules, provided)
             /\ DOMAIN new.rules = DOMAIN rt.rules
             /\ \A n \in DOMAIN rt.rules : new.rules[n].from = rt.rules[n].from
                                           /\ new.rules[n].backends = BackendSources(rt.rules[n])
<1> DEFINE rules == TLSRoute(rt, sectionName).rules
<1>1. rules = [n \in DOMAIN rt.rules |-> TLSRule(rt.rules[n])]
  BY DEF TLSRoute
<1>2. \A r : TLSRule(r).from = r.from /\ TLSRule(r).backends = BackendSources(r)
  BY DEF TLSRule
<1>3. \A n \in DOMAIN rt.rules : rt.rules[n].from \in {0} \union DOMAIN provided
  BY DEF IsPartOf, IsRule
<1> HIDE DEF rules
<1>4. ComeFrom(rules, provided)
  BY <1>1, <1>2, <1>3 DEF ComeFrom
<1>5. DOMAIN rules = DOMAIN rt.rules
  BY <1>1
<1>6. \A n \in DOMAIN rt.rules : rules[n].from = rt.rules[n].from
                                 /\ rules[n].backends = BackendSources(rt.rules[n])
  BY <1>1, <1>2
<1> QED
  BY <1>4, <1>5, <1>6 DEF rules

LEMMA FeaturesStayIRs ==
  ASSUME UNCHANGED inputs
  PROVE  /\ \A ir : IsIR(ir)' <=> IsIR(ir)
         /\ \A features : IsFeatures(features)' <=> IsFeatures(features)
  BY DEF inputs, IsIR, IsFeatures

LEMMA LeadingKeeps ==
  ASSUME ConversionInv, Leading
  PROVE  ConversionInv'
<1>1. /\ UNCHANGED inputs /\ UNCHANGED <<httpRoutes, gateways, tlsRoutes, grpcRoutes>>
      /\ newRules' = <<>> \/ UNCHANGED newRules
      /\ appRoot' = <<>> \/ UNCHANGED appRoot
      /\ group # Nothing => UNCHANGED group /\ (UNCHANGED newRules)
      /\ group' # Nothing /\ group = Nothing => newRules' = <<>>
  BY LeadingEffect
<1>2. /\ InputsInv /\ LoopInv /\ NewRulesInv /\ FeaturesInv /\ (step < 16 => RoutesInv)
      /\ PartsInv /\ CollectedInv /\ WhereInv /\ ComeFromInv
  BY DEF ConversionInv
<1>3. InputsInv' /\ LoopInv'
  BY <1>1, <1>2, InputsKept, LeadingLoop
<1>4. ruleGroups' = ruleGroups /\ pir' = pir /\ ingresses' = ingresses
  BY <1>1 DEF inputs
<1>5. NewRulesInv'
  <2> SUFFICES ASSUME group' # Nothing PROVE AreHeaderRules(newRules, pir[Key].rules)'
    BY DEF NewRulesInv
  <2>1. CASE newRules' = <<>>
    BY <2>1, EmptyIsSeq DEF AreHeaderRules
  <2>2. CASE newRules' # <<>>
    <3>1. group # Nothing /\ UNCHANGED <<group, newRules>>
      BY <1>1, <2>2
    <3> QED
      BY <1>2, <1>4, <3>1 DEF NewRulesInv, Key
  <2> QED
    BY <2>1, <2>2
<1>6. FeaturesInv'
  BY <1>1, <1>2, <1>4 DEF FeaturesInv, IsFeatures, IsIR, IsAppRoot
<1>7. \/ UNCHANGED step
      \/ step \in {15, 16} /\ step' = step + 1 /\ group' = Nothing
  BY ParsersShape, StepNumbers
     DEF Leading, VisitRoute, VisitGroup, NextRule, MissingRule, NextParser, LookForPassthrough, CollectRule,
         NextSource, vars, featureVars, loopVars
<1>8. step \in 0..17
  BY <1>2, ParsersShape DEF LoopInv, Panicked
<1>9. step' < 16 => RoutesInv'
  BY <1>1, <1>2, <1>7, <1>8, RoutesUnchanged
<1>10. PartsInv' /\ ComeFromInv'
  BY <1>1, <1>2, <1>4 DEF PartsInv, ComeFromInv
<1>11. WhereInv'
  <2>1. step' \in 1..14 => step \in 1..14
    BY <1>7, <1>8
  <2>2. step' < 16 => step < 16
    BY <1>7, <1>8
  <2> QED
    BY <1>1, <1>2, <1>4, <2>1, <2>2 DEF WhereInv
<1>12. CollectedInv'
  <2> SUFFICES ASSUME step' = 16, group' # Nothing
               PROVE  (IsCollected(grpcRules, Route) /\ IsCollected(httpRules, Route))'
    BY DEF CollectedInv
  <2>1. step = 16
    BY <1>7, <1>8
  <2>2. CASE VisitRoute
    <3>1. grpcRules' = <<>> /\ httpRules' = <<>>
      BY <2>2 DEF VisitRoute
    <3> QED
      BY <3>1, EmptyIsSeq DEF IsCollected
  <2>3. CASE CollectRule
    <3>1. AtSource({"backendProtocol"}) /\ group # Nothing /\ Key \in DOMAIN httpRoutes
            /\ i \in Nat \ {0} /\ i <= Len(Route.rules)
      BY <1>2, <2>3, AtSourceFacts DEF CollectRule, LoopInv
    <3>2. IsPartOf(Route, pir[Key].rules)
      BY <1>2, <3>1 DEF PartsInv, Route
    <3>3. i \in DOMAIN Route.rules
      BY <3>1, <3>2, IsSeqShape DEF IsPartOf
    <3>4. IsCollected(grpcRules, Route) /\ IsCollected(httpRules, Route)
      BY <1>2, <2>1, <3>1 DEF CollectedInv
    <3>5. ASSUME NEW indices, IsCollected(indices, Route)
          PROVE  IsCollected(Append(indices, i), Route)
      <4> DEFINE new == Append(indices, i)
      <4>1. /\ IsSeq(new) /\ DOMAIN new = 1..(Len(indices) + 1) /\ new[Len(indices) + 1] = i
            /\ \A n \in 1..Len(indices) : new[n] = indices[n]
        BY <3>5, AppendSeq DEF IsCollected
      <4>2. Len(indices) \in Nat /\ DOMAIN indices = 1..Len(indices)
        BY <3>5, IsSeqShape DEF IsCollected
      <4> HIDE DEF new
      <4>3. \A n \in DOMAIN new : n \in 1..Len(indices) \/ n = Len(indices) + 1
        BY <4>1, <4>2
      <4>4. \A n \in DOMAIN new : new[n] \in DOMAIN Route.rules
        BY <3>3, <3>5, <4>1, <4>2, <4>3 DEF IsCollected
      <4> QED
        BY <4>1, <4>4 DEF IsCollected, new
    <3>6. Route' = Route
      BY <1>1, <1>4, <3>1 DEF Route, Key
    <3>7. \/ grpcRules' = Append(grpcRules, i) /\ httpRules' = httpRules
          \/ httpRules' = Append(httpRules, i) /\ grpcRules' = grpcRules
      BY <2>3 DEF CollectRule
    <3> QED
      BY <3>4, <3>5, <3>6, <3>7 DEF IsCollected
  <2>4. CASE ~VisitRoute /\ ~CollectRule
    <3>1. UNCHANGED <<grpcRules, httpRules>>
      BY <2>4 DEF Leading, LookForPassthrough, vars, conversionVars
    <3>2. group # Nothing /\ UNCHANGED group
      BY <2>4 DEF Leading, LookForPassthrough, AtSource, AtRule, Running, NextRule, MissingRule, NextParser,
                  vars, featureVars, loopVars
    <3> QED
      BY <1>1, <1>2, <1>4, <2>1, <3>1, <3>2 DEF CollectedInv, IsCollected, Route, Key
  <2> QED
    BY <2>2, <2>3, <2>4
<1> QED
  BY <1>3, <1>5, <1>6, <1>9, <1>10, <1>11, <1>12 DEF ConversionInv

LEMMA PassthroughKeeps ==
  ASSUME ConversionInv, FinishPassthrough
  PROVE  ConversionInv'
<1>1. /\ UNCHANGED inputs
      /\ UNCHANGED <<newRules, appRoot, errors, grpcRoutes, grpcRules, httpRules, passthrough>>
      /\ group # Nothing /\ step = 15
      /\ \/ /\ ~passthrough /\ UNCHANGED <<httpRoutes, gateways, tlsRoutes, step, pending>>
            /\ group' = Nothing /\ i' = 1 /\ j' = 1
         \/ /\ UNCHANGED <<httpRoutes, gateways, tlsRoutes>>
            /\ step' = Panicked /\ UNCHANGED <<pending, group, i, j>>
         \/ PassesThrough
  BY PassthroughEffect
<1>2. /\ InputsInv /\ LoopInv /\ NewRulesInv /\ FeaturesInv /\ RoutesInv
      /\ PartsInv /\ WhereInv /\ ComeFromInv
  BY <1>1 DEF ConversionInv
<1>3. InputsInv' /\ ruleGroups' = ruleGroups /\ pir' = pir /\ ingresses' = ingresses
  BY <1>1, <1>2, InputsKept DEF inputs
<1>4. CollectedInv'
  BY <1>1 DEF CollectedInv, PassesThrough, Panicked
<1>5. NewRulesInv'
  BY <1>1, <1>2, <1>3 DEF NewRulesInv, PassesThrough, Key
<1>6. CASE UNCHANGED <<httpRoutes, gateways, tlsRoutes>>
  <2>1. /\ step' \in {15, 0}
        /\ \/ group' = Nothing /\ i' = 1 /\ j' = 1 /\ UNCHANGED pending
           \/ UNCHANGED <<pending, group, i, j>>
    BY <1>1 DEF PassesThrough, Panicked
  <2>2. LoopInv'
    BY <1>1, <1>2, <1>3, <1>6, <2>1, ParsersShape DEF LoopInv, Key, Panicked
  <2>3. RoutesInv' /\ PartsInv' /\ ComeFromInv'
    BY <1>1, <1>2, <1>3, <1>6 DEF RoutesInv, PartsInv, ComeFromInv
  <2>4. FeaturesInv'
    BY <1>1, <1>2, <1>3, <1>6 DEF FeaturesInv, IsFeatures, IsIR, IsAppRoot
  <2>5. WhereInv'
    BY <1>1, <1>2, <1>3, <1>6, <2>1 DEF WhereInv
  <2> QED
    BY <1>3, <1>4, <1>5, <2>2, <2>3, <2>4, <2>5 DEF ConversionInv
<1>7. CASE PassesThrough
  <2> DEFINE gw == ParentGateway(Route)
             rt == TLSRoute(Route, TLSListener(gw, Route.host))
  <2>1. Key \in DOMAIN httpRoutes /\ Key \in DOMAIN pir /\ Route = httpRoutes[Key]
    BY <1>1, <1>2 DEF LoopInv, Route
  <2>2. /\ DOMAIN httpRoutes' = DOMAIN httpRoutes \ {Key}
        /\ \A k \in DOMAIN httpRoutes' : httpRoutes'[k] = httpRoutes[k]
    BY <1>7 DEF PassesThrough, RemoveKey
  <2>3. /\ DOMAIN tlsRoutes' = DOMAIN tlsRoutes \union {Key} /\ tlsRoutes'[Key] = rt
        /\ \A k \in DOMAIN tlsRoutes : k # Key => tlsRoutes'[k] = tlsRoutes[k]
    <3> HIDE DEF rt
    <3>1. tlsRoutes' = Put(tlsRoutes, Key, rt)
      BY <1>7 DEF PassesThrough, rt
    <3> QED
      BY <3>1 DEF Put
  <2>4. ComeFrom(rt.rules, pir[Key].rules)
    BY <1>2, <2>1, TLSRouteShape DEF PartsInv
  <2> HIDE DEF rt
  <2>5. UNCHANGED <<step, pending>> /\ group' = Nothing /\ i' = 1 /\ j' = 1
    BY <1>7 DEF PassesThrough
  <2>6. LoopInv'
    BY <1>1, <1>2, <1>3, <2>2, <2>5 DEF LoopInv
  <2>7. RoutesInv' /\ PartsInv'
    BY <1>2, <1>3, <2>2 DEF RoutesInv, PartsInv
  <2>8. ComeFromInv'
    BY <1>1, <1>2, <1>3, <2>3, <2>4 DEF ComeFromInv
  <2>9. WhereInv'
    BY <1>1, <1>2, <1>3, <2>1, <2>2, <2>3, <2>5 DEF WhereInv
  <2>10. FeaturesInv'
    <3>1. \A k \in DOMAIN httpRoutes' : IsFeatures(httpRoutes'[k].features)
      BY <1>2, <2>2 DEF FeaturesInv
    <3>2. \A g \in DOMAIN gateways' :
            /\ gateways'[g] = [features |-> gateways'[g].features, listeners |-> gateways'[g].listeners]
            /\ \A n \in DOMAIN gateways'[g].features : IsIR(gateways'[g].features[n])
      <4>1. CASE gateways' = gateways
        BY <1>2, <4>1 DEF FeaturesInv
      <4>2. ASSUME NEW ls, gw \in DOMAIN gateways, gateways' = [gateways EXCEPT ![gw].listeners = ls]
            PROVE  \A g \in DOMAIN gateways' :
                     /\ gateways'[g] = [features |-> gateways'[g].features,
                                        listeners |-> gateways'[g].listeners]
                     /\ \A n \in DOMAIN gateways'[g].features : IsIR(gateways'[g].features[n])
        <5> DEFINE new == [gateways[gw] EXCEPT !.listeners = ls]
        <5>1. new = [features |-> gateways[gw].features, listeners |-> ls]
          BY <1>2, <4>2 DEF FeaturesInv
        <5>2. gateways' = [gateways EXCEPT ![gw] = new]
          BY <4>2
        <5> HIDE DEF new, gw
        <5>3. \A g \in DOMAIN gateways : gateways'[g] = IF g = gw THEN new ELSE gateways[g]
          BY <5>2
        <5> QED
          BY <1>2, <4>2, <5>1, <5>2, <5>3 DEF FeaturesInv
      <4> QED
        BY <1>7, <4>1, <4>2 DEF PassesThrough
    <3> QED
      BY <1>1, <1>2, <1>3, <3>1, <3>2 DEF FeaturesInv, IsFeatures, IsIR, IsAppRoot
  <2> QED
    BY <1>3, <1>4, <1>5, <2>6, <2>7, <2>8, <2>9, <2>10 DEF ConversionInv
<1> QED
  BY <1>1, <1>6, <1>7

\* Of the HTTPRoutes only the one that is visited changes: it keeps the rules
\* that were collected for it, or goes when there are none.
LEMMA SplitEffect ==
  ASSUME ConversionInv, group # Nothing, step = 16, Splits
  PROVE  /\ Key \in DOMAIN httpRoutes /\ IsPartOf(Route, pir[Key].rules)
         /\ IsCollected(grpcRules, Route) /\ IsCollected(httpRules, Route)
         /\ \E order \in Orders(ToSet(grpcRules)) :
              /\ DOMAIN grpcRoutes' = DOMAIN grpcRoutes \union {Key}
              /\ grpcRoutes'[Key] = GRPCRoute(Route, grpcRules, order)
         /\ \A k \in DOMAIN grpcRoutes : k # Key => grpcRoutes'[k] = grpcRoutes[k]
         /\ \A k \in DOMAIN httpRoutes : k # Key => k \in DOMAIN httpRoutes' /\ httpRoutes'[k] = httpRoutes[k]
         /\ \/ httpRules = <<>> /\ DOMAIN httpRoutes' = DOMAIN httpRoutes \ {Key}
            \/ /\ httpRules # <<>> /\ DOMAIN httpRoutes' = DOMAIN httpRoutes
               /\ \E order \in Orders(ToSet(httpRules)) :
                    httpRoutes'[Key] = HTTPRoute(Route, httpRules, order)
<1>1. Key \in DOMAIN httpRoutes /\ IsPartOf(Route, pir[Key].rules)
  BY DEF ConversionInv, LoopInv, PartsInv, Route
<1>2. IsCollected(grpcRules, Route) /\ IsCollected(httpRules, Route)
  BY DEF ConversionInv, CollectedInv
<1>3. PICK order \in Orders(ToSet(grpcRules)) : grpcRoutes' = Put(grpcRoutes, Key, GRPCRoute(Route, grpcRules, order))
  BY DEF Splits
<1>4. /\ DOMAIN grpcRoutes' = DOMAIN grpcRoutes \union {Key}
      /\ grpcRoutes'[Key] = GRPCRoute(Route, grpcRules, order)
      /\ \A k \in DOMAIN grpcRoutes : k # Key => grpcRoutes'[k] = grpcRoutes[k]
  BY <1>3 DEF Put
<1>5. PICK other \in Orders(ToSet(httpRules)) : httpRoutes' = Moved(httpRoutes, Route, Key, httpRules, other)
  BY DEF Splits
<1>6. CASE httpRules = <<>>
  <2>1. /\ DOMAIN httpRoutes' = DOMAIN httpRoutes \ {Key}
        /\ \A k \in DOMAIN httpRoutes : k # Key => k \in DOMAIN httpRoutes' /\ httpRoutes'[k] = httpRoutes[k]
    BY <1>5, <1>6 DEF Moved, RemoveKey
  <2> QED
    BY <1>1, <1>2, <1>3, <1>4, <1>6, <2>1
<1>7. CASE httpRules # <<>>
  <2>1. httpRoutes' = Put(httpRoutes, Key, HTTPRoute(Route, httpRules, other))
    BY <1>5, <1>7 DEF Moved
  <2>2. /\ DOMAIN httpRoutes' = DOMAIN httpRoutes
        /\ \A k \in DOMAIN httpRoutes : k # Key => k \in DOMAIN httpRoutes' /\ httpRoutes'[k] = httpRoutes[k]
        /\ httpRoutes'[Key] = HTTPRoute(Route, httpRules, other)
    BY <1>1, <2>1 DEF Put
  <2> QED
    BY <1>1, <1>2, <1>3, <1>4, <1>5, <1>7, <2>2
<1> QED
  BY <1>6, <1>7

LEMMA ProtocolKeeps ==
  ASSUME ConversionInv, FinishProtocol
  PROVE  ConversionInv'
<1>1. /\ UNCHANGED inputs
      /\ UNCHANGED <<newRules, appRoot, errors, gateways, tlsRoutes, step, pending, passthrough,
                     grpcRules, httpRules>>
      /\ group # Nothing /\ step = 16 /\ group' = Nothing /\ i' = 1 /\ j' = 1
      /\ (grpcRules = <<>> /\ UNCHANGED <<httpRoutes, grpcRoutes>>) \/ Splits
  BY ProtocolEffect
<1>2. /\ InputsInv /\ LoopInv /\ NewRulesInv /\ FeaturesInv
      /\ PartsInv /\ WhereInv /\ ComeFromInv
  BY DEF ConversionInv
<1>3. InputsInv' /\ ruleGroups' = ruleGroups /\ pir' = pir /\ ingresses' = ingresses
  BY <1>1, <1>2, InputsKept DEF inputs
<1>4. CollectedInv' /\ NewRulesInv' /\ (step' < 16 => RoutesInv')
  BY <1>1 DEF CollectedInv, NewRulesInv
<1>5. CASE UNCHANGED <<httpRoutes, grpcRoutes>>
  <2>1. LoopInv' /\ PartsInv' /\ ComeFromInv'
    BY <1>1, <1>2, <1>3, <1>5 DEF LoopInv, PartsInv, ComeFromInv
  <2>2. FeaturesInv'
    BY <1>1, <1>2, <1>3, <1>5 DEF FeaturesInv, IsFeatures, IsIR, IsAppRoot
  <2>3. WhereInv'
    BY <1>1, <1>2, <1>3, <1>5 DEF WhereInv
  <2> QED
    BY <1>3, <1>4, <2>1, <2>2, <2>3 DEF ConversionInv
<1>6. CASE Splits
  <2> DEFINE provided == pir[Key].rules
  <2>1. /\ Key \in DOMAIN httpRoutes /\ IsPartOf(Route, provided)
        /\ IsCollected(grpcRules, Route) /\ IsCollected(httpRules, Route)
        /\ \A k \in DOMAIN grpcRoutes : k # Key => grpcRoutes'[k] = grpcRoutes[k]
        /\ \A k \in DOMAIN httpRoutes : k # Key => k \in DOMAIN httpRoutes' /\ httpRoutes'[k] = httpRoutes[k]
    BY <1>1, <1>6, SplitEffect
  <2>2. PICK order \in Orders(ToSet(grpcRules)) :
          /\ DOMAIN grpcRoutes' = DOMAIN grpcRoutes \union {Key}
          /\ grpcRoutes'[Key] = GRPCRoute(Route, grpcRules, order)
    BY <1>1, <1>6, SplitEffect
  <2>3. DOMAIN httpRoutes' \subseteq DOMAIN httpRoutes
        /\ DOMAIN httpRoutes \subseteq DOMAIN httpRoutes' \union {Key}
    BY <1>1, <1>6, SplitEffect
  <2>4. Key \in DOMAIN httpRoutes' =>
          \E other \in Orders(ToSet(httpRules)) : httpRoutes'[Key] = HTTPRoute(Route, httpRules, other)
    BY <1>1, <1>6, SplitEffect
  <2>5. IsFeatures(Route.features) /\ Key \in DOMAIN pir
    BY <1>2, <2>1 DEF FeaturesInv, Route, LoopInv
  <2>6. Key \in DOMAIN httpRoutes' => IsPartOf(httpRoutes'[Key], provided) /\ IsFeatures(httpRoutes'[Key].features)
    BY <2>1, <2>4, <2>5, HTTPRouteIsPart
  <2>7. PartsInv'
    BY <1>2, <1>3, <2>1, <2>3, <2>6 DEF PartsInv
  <2>8. FeaturesInv'
    <3>1. \A k \in DOMAIN httpRoutes' : IsFeatures(httpRoutes'[k].features)
      BY <1>2, <2>1, <2>3, <2>6 DEF FeaturesInv
    <3> QED
      BY <1>1, <1>2, <1>3, <3>1 DEF FeaturesInv, IsFeatures, IsIR, IsAppRoot
  <2>9. LoopInv'
    BY <1>1, <1>2, <1>3, <2>3 DEF LoopInv
  <2>10. ComeFromInv'
    <3>1. ComeFrom(grpcRoutes'[Key].rules, provided)
      <4> DEFINE rules == GRPCRoute(Route, grpcRules, order).rules
      <4>1. DOMAIN rules = DOMAIN grpcRules
              /\ \A n \in DOMAIN rules : rules[n].from = Route.rules[grpcRules[n]].from
        BY <2>1, GRPCRouteShape
      <4>2. \A n \in DOMAIN grpcRules : Route.rules[grpcRules[n]].from \in {0} \union DOMAIN provided
        BY <2>1 DEF IsCollected, IsPartOf, IsRule
      <4> HIDE DEF rules
      <4>3. ComeFrom(rules, provided)
        BY <4>1, <4>2 DEF ComeFrom
      <4> QED
        BY <2>2, <4>3 DEF rules
    <3> QED
      BY <1>1, <1>2, <1>3, <2>1, <2>2, <3>1 DEF ComeFromInv
  <2>11. WhereInv'
    <3>1. /\ DOMAIN httpRoutes \union DOMAIN tlsRoutes \union DOMAIN grpcRoutes = DOMAIN pir
          /\ DOMAIN tlsRoutes \cap (DOMAIN httpRoutes \union DOMAIN grpcRoutes) = {}
      BY <1>2 DEF WhereInv
    <3>2. UNCHANGED tlsRoutes /\ step' = 16
      BY <1>1
    <3>3. DOMAIN httpRoutes' \union DOMAIN tlsRoutes' \union DOMAIN grpcRoutes' = DOMAIN pir'
      BY <1>3, <2>1, <2>2, <2>3, <2>5, <3>1, <3>2
    <3>4. DOMAIN tlsRoutes' \cap (DOMAIN httpRoutes' \union DOMAIN grpcRoutes') = {}
      BY <2>1, <2>2, <2>3, <3>1, <3>2
    <3> QED
      BY <3>2, <3>3, <3>4 DEF WhereInv
  <2> QED
    BY <1>3, <1>4, <2>7, <2>8, <2>9, <2>10, <2>11 DEF ConversionInv
<1> QED
  BY <1>1, <1>5, <1>6

LEMMA FeatureStepKeeps ==
  ASSUME ConversionInv, FeatureStep, UNCHANGED conversionVars
  PROVE  ConversionInv'
<1>1. step \in 1..14
  BY StepNumbers
<1>2. KeptInv /\ FeaturesInv /\ WhereInv /\ ComeFromInv
  BY <1>1 DEF ConversionInv, KeptInv
<1>3. KeptInv' /\ FeaturesInv'
  BY <1>2, StepKept, StepFeatures
<1>4. pir' = pir /\ DOMAIN httpRoutes' = DOMAIN httpRoutes
  BY <1>2, StepKeepsInputs, LoopStep DEF KeptInv, inputs
<1>5. step' \in 0..15
  <2>1. CASE VisitGroup(FeatureParsers) \/ NextRule(PerSource)
              \/ FinishGroup(FeatureParsers \ {"canary", "redirect"}) \/ FinishCanary \/ FinishRedirect
              \/ ParseHeaders
    <3>1. step' = step
      BY <2>1 DEF VisitGroup, NextRule, FinishGroup, FinishCanary, FinishRedirect, ParseHeaders, NextSource
    <3> QED
      BY <1>1, <3>1
  <2>2. CASE NextParser(FeatureParsers)
    BY <1>1, <2>2 DEF NextParser
  <2>3. CASE ParseCanaryRule
    <3>1. step' \in {step, 0}
      BY <2>3, CanaryStep DEF Panicked
    <3> QED
      BY <1>1, <3>1
  <2>4. CASE ParseFeature \/ ParseAuth
    <3>1. step' \in {step, 0}
      <4>1. CASE ParseFeature
        BY <4>1 DEF ParseFeature, Panic, NextSource, Panicked
      <4>2. CASE ParseAuth
        BY <4>2 DEF ParseAuth, Panic, NextSource, Panicked
      <4> QED
        BY <2>4, <4>1, <4>2
    <3> QED
      BY <1>1, <3>1
  <2> QED
    BY <2>1, <2>2, <2>3, <2>4 DEF FeatureStep
<1>6. PartsInv'
  BY <1>3, RouteIsPart DEF KeptInv, RoutesInv, PartsInv
<1>7. ComeFromInv' /\ CollectedInv'
  BY <1>2, <1>4, <1>5 DEF ComeFromInv, CollectedInv, conversionVars
<1>8. WhereInv'
  BY <1>1, <1>2, <1>4, <1>5 DEF WhereInv, conversionVars
<1> QED
  BY <1>3, <1>6, <1>7, <1>8 DEF ConversionInv, KeptInv

LEMMA InitConversion == ConversionInit => ConversionInv
<1> SUFFICES ASSUME ConversionInit PROVE ConversionInv
  OBVIOUS
<1>1. Init /\ tlsRoutes = EmptyMap /\ grpcRoutes = EmptyMap
  BY DEF ConversionInit
<1>2. KeptInv /\ FeaturesInv
  BY <1>1, InitKept, InitFeatures
<1>3. step = 1 /\ DOMAIN httpRoutes = DOMAIN pir
  BY <1>1 DEF Init
<1>4. DOMAIN EmptyMap = {}
  BY DEF EmptyMap
<1>5. PartsInv
  BY <1>2, RouteIsPart DEF KeptInv, RoutesInv, PartsInv
<1> QED
  BY <1>1, <1>2, <1>3, <1>4, <1>5 DEF ConversionInv, KeptInv, CollectedInv, WhereInv, ComeFromInv

LEMMA StepConversion == ConversionInv /\ [ConversionNext]_vars => ConversionInv'
<1> SUFFICES ASSUME ConversionInv, [ConversionNext]_vars PROVE ConversionInv'
  OBVIOUS
<1>1. (FeatureStep /\ UNCHANGED conversionVars) \/ Leading \/ FinishPassthrough \/ FinishProtocol
  BY DEF ConversionNext, ConversionStep, ConversionEnded, Leading
<1> QED
  BY <1>1, FeatureStepKeeps, LeadingKeeps, PassthroughKeeps, ProtocolKeeps

\* Whatever is annotated, a route of the provider IR ends as an HTTPRoute, a
\* GRPCRoute or both, or as a TLSRoute alone; its rules stand for the route's
\* own; and the features moved with the rules are still features
\* (ssl-passthrough.go, backend-protocol.go).
THEOREM ConversionTypes == ConversionSpec => []ConversionTypeOK
<1>1. ConversionInv => ConversionTypeOK
  <2> SUFFICES ASSUME ConversionInv PROVE ConversionTypeOK
    OBVIOUS
  <2>1. LoopInv /\ FeaturesInv /\ PartsInv /\ WhereInv /\ ComeFromInv
    BY DEF ConversionInv
  <2>2. \A key \in DOMAIN httpRoutes : \A n \in DOMAIN httpRoutes[key].rules :
          LET r == httpRoutes[key].rules[n]
          IN  /\ r.from \in {0} \union DOMAIN pir[key].rules
              /\ \A x \in DOMAIN r.backends :
                   r.backends[x].weight \in Seq(Nat) /\ Len(r.backends[x].weight) <= 1
    BY <2>1 DEF PartsInv, IsPartOf, IsRule, IsBackend
  <2>3. group \in DOMAIN ruleGroups \union {Nothing}
    BY <2>1 DEF LoopInv
  <2>4. TypeOK
    BY <2>1, <2>2, <2>3 DEF TypeOK, LoopInv, FeaturesInv, IsFeatures
  <2> QED
    BY <2>1, <2>4 DEF ConversionTypeOK, WhereInv, ComeFromInv, ComeFrom
<1> QED
  BY <1>1, InitConversion, StepConversion, PTL DEF ConversionSpec

(***************************************************************************)
(* Groups and the routes and Gateways made of them                         *)
(***************************************************************************)
LEMMA GroupsShape ==
  ASSUME NEW S \in Inputs
  PROVE  /\ IsFiniteSet(Groups(S))
         /\ \A k \in Groups(S) : k.ns \in String /\ k.class \in String /\ k.host \in String
<1> DEFINE keys(ing) == {GroupKey(ing, r.host) : r \in ToSet(ing.rules)}
           f         == [ing \in S |-> keys(ing)]
<1>1. ASSUME NEW ing \in S
      PROVE  /\ IsFiniteSet(keys(ing))
             /\ \A k \in keys(ing) : k.ns \in String /\ k.class \in String /\ k.host \in String
  <2> DEFINE g == [n \in DOMAIN ing.rules |-> GroupKey(ing, ing.rules[n].host)]
  <2>1. Len(ing.rules) \in Nat /\ DOMAIN ing.rules = 1..Len(ing.rules)
    BY InputShape
  <2>2. keys(ing) = {g[n] : n \in DOMAIN g}
    BY DEF ToSet
  <2>3. IsFiniteSet(DOMAIN g)
    BY <2>1, IndicesFinite
  <2>4. ASSUME NEW n \in DOMAIN g
        PROVE  g[n].ns \in String /\ g[n].class \in String /\ g[n].host \in String
    <3>1. ing.ns \in String /\ GetIngressClass(ing) \in String /\ ing.rules[n].host \in String
      BY InputShape
    <3> QED
      BY <3>1 DEF GroupKey
  <2> HIDE DEF g
  <2> QED
    BY <2>2, <2>3, <2>4, ImageFinite
<1> HIDE DEF keys
<1>2. IsFiniteSet(DOMAIN f) /\ \A ing \in DOMAIN f : IsFiniteSet(f[ing])
  BY <1>1, InputShape
<1>3. Groups(S) = UNION {f[ing] : ing \in DOMAIN f}
  BY DEF Groups, keys
<1>4. \A k \in Groups(S) : \E ing \in S : k \in keys(ing)
  BY DEF Groups, keys
<1> HIDE DEF f
<1>5. IsFiniteSet(Groups(S))
  BY <1>2, <1>3, UnionFinite
<1> QED
  BY <1>1, <1>4, <1>5

LEMMA KeyStringIsString ==
  ASSUME NEW k, k.ns \in String, k.class \in String, k.host \in String
  PROVE  KeyString(k) \in String
<1>1. "/" \in Tokens
  BY AlphabetAssumption DEF Tokens
<1>2. <<"/">> \in Seq(Tokens)
  BY <1>1
<1> DEFINE T == Tokens
<1>3. k.ns \in Seq(T) /\ k.class \in Seq(T) /\ k.host \in Seq(T) /\ <<"/">> \in Seq(T)
  BY <1>2 DEF String
<1> HIDE DEF T
<1>4. \A s, t \in Seq(T) : s \o t \in Seq(T)
  BY ConcatProperties
<1>5. (((k.ns \o <<"/">>) \o k.class) \o <<"/">>) \o k.host \in Seq(T)
  <2>1. k.ns \o <<"/">> \in Seq(T)
    BY <1>3, <1>4
  <2>2. (k.ns \o <<"/">>) \o k.class \in Seq(T)
    BY <1>3, <1>4, <2>1
  <2>3. ((k.ns \o <<"/">>) \o k.class) \o <<"/">> \in Seq(T)
    BY <1>3, <1>4, <2>2
  <2> QED
    BY <1>3, <1>4, <2>3
<1> QED
  BY <1>5 DEF KeyString, String, T

\* The key that the stable sort leaves last is that of a group.
LEMMA LastKey ==
  ASSUME NEW S \in Inputs, NEW same, same \subseteq Groups(S), same # {}
  PROVE  \E k \in same : \A l \in same : ~KeyPrecedes(k, l)
<1> DEFINE f     == [k \in same |-> KeyString(k)]
           T     == {f[k] : k \in DOMAIN f}
           order == {p \in T \X T : Precedes(p[2], p[1])}
<1>1. \A k \in same : f[k] \in String
  BY GroupsShape, KeyStringIsString
<1>2. IsFiniteSet(DOMAIN f)
  BY GroupsShape, FS_Subset
<1>3. IsFiniteSet(T)
  <2> HIDE DEF f
  <2> QED
    BY <1>2, ImageFinite
<1>4. T # {} /\ \A s \in T : s \in String
  BY <1>1
<1>5. DOMAIN f = same /\ \A k \in same : f[k] \in T /\ f[k] = KeyString(k)
  OBVIOUS
<1>6. \A s \in T : \E k \in same : s = f[k]
  OBVIOUS
<1> HIDE DEF f, T
<1>7. \A s, t \in T : <<s, t>> \in order <=> Precedes(t, s)
  OBVIOUS
<1> HIDE DEF order
<1>8. IsOrder(T, order)
  <2>1. \A s, t \in T : s # t => Precedes(t, s) \/ Precedes(s, t)
    BY <1>4, PrecedesTotal
  <2>2. \A s, t, u \in T : Precedes(t, s) /\ Precedes(u, t) => Precedes(u, s)
    BY <1>4, PrecedesTransitive
  <2>3. \A s \in T : ~Precedes(s, s)
    BY <1>4, PrecedesIrreflexive
  <2> QED
    BY <1>7, <2>1, <2>2, <2>3 DEF IsOrder
<1>9. PICK s \in T : \A t \in T : s = t \/ <<s, t>> \in order
  BY <1>3, <1>4, <1>8, FirstInOrder
<1>10. PICK k \in same : s = f[k]
  BY <1>6, <1>9
<1>11. ASSUME NEW l \in same, KeyPrecedes(k, l)
       PROVE  FALSE
  <2>1. f[l] \in T /\ Precedes(f[k], f[l])
    BY <1>5, <1>11 DEF KeyPrecedes
  <2>2. f[k] = f[l] \/ Precedes(f[l], f[k])
    BY <1>5, <1>7, <1>9, <1>10, <2>1
  <2>3. f[k] \in String /\ f[l] \in String
    BY <1>1
  <2> QED
    BY <2>1, <2>2, <2>3, PrecedesIrreflexive, PrecedesTransitive
<1> QED
  BY <1>10, <1>11

\* A route is that of a default backend, or of a group.
LEMMA GroupOrigin ==
  ASSUME NEW S \in Inputs, NEW name \in DOMAIN Routes(S)
  PROVE  \/ \E ing \in S : HasDefault(ing) /\ Routes(S)[name] = DefaultRoute(ing)
                           /\ name = [ns |-> ing.ns, name |-> DefaultRouteName(ing.name)]
         \/ \E k \in Groups(S) : Routes(S)[name] = GroupRoute(S, k)
<1> DEFINE defaults == {DefaultRoute(ing) : ing \in {x \in S : HasDefault(x)}}
           groups   == {GroupRoute(S, k) : k \in Groups(S)}
           Name(r)  == [ns |-> r.ns, name |-> r.name]
           same     == {k \in Groups(S) : Name(GroupRoute(S, k)) = name}
           default  == CHOOSE d \in defaults : Name(d) = name
           last     == CHOOSE k \in same : \A l \in same : ~KeyPrecedes(k, l)
<1>1. Routes(S)[name] = IF \E d \in defaults : Name(d) = name THEN default ELSE GroupRoute(S, last)
  BY DEF Routes
<1>2. CASE \E d \in defaults : Name(d) = name
  <2>1. default \in defaults /\ Name(default) = name
    BY <1>2
  <2>2. PICK ing \in S : HasDefault(ing) /\ default = DefaultRoute(ing)
    BY <2>1
  <2> HIDE DEF default
  <2>3. name = [ns |-> ing.ns, name |-> DefaultRouteName(ing.name)]
    <3>1. name = [ns |-> default.ns, name |-> default.name]
      BY <2>1
    <3>2. DefaultRoute(ing).ns = ing.ns /\ DefaultRoute(ing).name = DefaultRouteName(ing.name)
      BY DEF DefaultRoute
    <3> QED
      BY <2>2, <3>1, <3>2
  <2> QED
    BY <1>1, <1>2, <2>2, <2>3
<1>3. CASE ~\E d \in defaults : Name(d) = name
  <2>1. name \in {Name(r) : r \in defaults \union groups}
    BY DEF Routes
  <2>2. PICK r \in defaults \union groups : name = Name(r)
    <3> HIDE DEF defaults, groups, Name
    <3> QED
      BY <2>1
  <2>3. r \in groups
    <3> HIDE DEF defaults, groups, Name
    <3> QED
      BY <1>3, <2>2
  <2>4. same # {}
    BY <2>2, <2>3
  <2>5. same \subseteq Groups(S)
    OBVIOUS
  <2> HIDE DEF same
  <2>6. last \in same
    BY <2>4, <2>5, LastKey
  <2> HIDE DEF last, defaults, default
  <2> QED
    BY <1>1, <1>3, <2>5, <2>6
<1> QED
  BY <1>2, <1>3

(***************************************************************************)
(* Listeners                                                               *)
(***************************************************************************)
LEMMA IncreasingShape ==
  ASSUME NEW S, IsFiniteSet(S), S \subseteq Nat
  PROVE  /\ IsSeq(Increasing(S)) /\ Len(Increasing(S)) = Cardinality(S)
         /\ \A n \in DOMAIN Increasing(S) : Increasing(S)[n] \in S
         /\ \A x \in S : \E n \in DOMAIN Increasing(S) : Increasing(S)[n] = x
         /\ \A m, n \in DOMAIN Increasing(S) : m < n => Increasing(S)[m] < Increasing(S)[n]
<1> DEFINE order == {p \in S \X S : p[1] < p[2]}
<1>1. Increasing(S) = Ordered(S, order)
  BY DEF Increasing
<1>2. \A x, y \in S : <<x, y>> \in order <=> x < y
  OBVIOUS
<1>3. \A x, y : <<x, y>> \in order => x < y
  OBVIOUS
<1> HIDE DEF order
<1>4. IsOrder(S, order)
  <2>1. \A x, y \in S : x # y => x < y \/ y < x
    OBVIOUS
  <2>2. \A x, y, z \in S : x < y /\ y < z => x < z
    OBVIOUS
  <2>3. \A x \in S : ~(x < x)
    OBVIOUS
  <2> QED
    BY <1>2, <2>1, <2>2, <2>3 DEF IsOrder
<1> DEFINE s == Ordered(S, order)
<1>5. /\ IsSeq(s) /\ Len(s) = Cardinality(S)
      /\ \A n \in DOMAIN s : s[n] \in S
      /\ \A x \in S : \E n \in DOMAIN s : s[n] = x
      /\ \A m, n \in DOMAIN s : m < n => <<s[m], s[n]>> \in order
  BY <1>4, OrderedShape, OrderedElements
<1>6. Increasing(S) = s
  BY <1>1
<1> HIDE DEF s
<1>7. \A m, n \in DOMAIN s : m < n => s[m] < s[n]
  BY <1>3, <1>5
<1> QED
  BY <1>5, <1>6, <1>7

\* Some of the elements of a sequence: at tells where each was.
AreThose(new, s, indices, at) ==
  /\ IsSeq(new) /\ DOMAIN at = DOMAIN new
  /\ \A n \in DOMAIN new : at[n] \in indices /\ new[n] = s[at[n]]
  /\ \A x \in indices : \E n \in DOMAIN new : at[n] = x
  /\ \A m, n \in DOMAIN new : at[m] = at[n] => m = n

LEMMA ThoseShape ==
  ASSUME NEW s, IsSeq(s), NEW indices, indices \subseteq DOMAIN s
  PROVE  \E at : AreThose(Those(s, indices), s, indices, at)
<1> DEFINE at == Increasing(indices)
           new == Those(s, indices)
<1>1. Len(s) \in Nat /\ DOMAIN s = 1..Len(s)
  BY IsSeqShape
<1>2. indices \subseteq Nat /\ IsFiniteSet(indices)
  BY <1>1, IndicesFinite, FS_Subset
<1>3. /\ IsSeq(at)
      /\ \A n \in DOMAIN at : at[n] \in indices
      /\ \A x \in indices : \E n \in DOMAIN at : at[n] = x
      /\ \A m, n \in DOMAIN at : m < n => at[m] < at[n]
  BY <1>2, IncreasingShape
<1>4. new = [n \in DOMAIN at |-> s[at[n]]]
  BY DEF Those
<1> HIDE DEF at, new
<1>5. Len(at) \in Nat /\ DOMAIN at = 1..Len(at)
  BY <1>3, IsSeqShape
<1>6. IsSeq(new)
  BY <1>4, <1>5, FunctionIsSeq
<1>7. ASSUME NEW m \in DOMAIN at, NEW n \in DOMAIN at, at[m] = at[n]
      PROVE  m = n
  <2>1. m \in Nat /\ n \in Nat /\ at[m] \in Nat /\ at[n] \in Nat
    BY <1>2, <1>3, <1>5
  <2>2. ~(m < n) /\ ~(n < m)
    BY <1>3, <1>7, <2>1
  <2> QED
    BY <2>1, <2>2
<1>8. AreThose(new, s, indices, at)
  BY <1>3, <1>4, <1>6, <1>7 DEF AreThose
<1> QED
  BY <1>8 DEF new

HasTLS(ls, host) == \E n \in DOMAIN ls : ls[n].protocol = "TLS" /\ ls[n].host = host

\* The listeners of a Gateway: one that lets TLS through has its own name, and
\* its host for itself but for HTTP.
IsListeners(ls) ==
  /\ IsSeq(ls)
  /\ \A n \in DOMAIN ls : ls[n].protocol \in {"HTTP", "HTTPS", "TLS"}
  /\ \A n \in DOMAIN ls : ls[n].protocol = "TLS" => ls[n].name = TLSListenerName(ls[n].host)
  /\ \A m, n \in DOMAIN ls :
       ls[m].protocol = "TLS" /\ ls[n].protocol # "HTTP" /\ ls[m].host = ls[n].host => m = n

LEMMA TLSListenerAdded ==
  ASSUME NEW ls, IsListeners(ls), NEW host
  PROVE  LET new == WithTLSListener(ls, host)
         IN  /\ IsListeners(new) /\ HasTLS(new, host)
             /\ \A n \in DOMAIN ls : ls[n].host # host => \E m \in DOMAIN new : new[m] = ls[n]
<1> DEFINE new == WithTLSListener(ls, host)
<1>1. CASE HasTLS(ls, host)
  <2>1. new = ls
    BY <1>1 DEF WithTLSListener, HasTLS
  <2> HIDE DEF new
  <2>2. /\ IsListeners(new) /\ HasTLS(new, host)
        /\ \A n \in DOMAIN ls : ls[n].host # host => \E m \in DOMAIN new : new[m] = ls[n]
    BY <1>1, <2>1
  <2> QED
    BY <2>2 DEF new
<1>2. CASE ~HasTLS(ls, host)
  <2> DEFINE kept == {n \in DOMAIN ls : ls[n].protocol # "HTTPS" \/ ls[n].host # host}
             rest == Those(ls, kept)
             l    == [name |-> TLSListenerName(host), host |-> host, protocol |-> "TLS"]
  <2>1. new = Append(rest, l)
    BY <1>2 DEF WithTLSListener, WithTLSAdded, HasTLS
  <2>2. PICK at : AreThose(rest, ls, kept, at)
    BY ThoseShape DEF IsListeners
  <2>3. \A n \in kept : n \in DOMAIN ls /\ (ls[n].protocol # "HTTPS" \/ ls[n].host # host)
    OBVIOUS
  <2>4. \A n \in DOMAIN ls : ls[n].host # host => n \in kept
    OBVIOUS
  <2>5. l.name = TLSListenerName(host) /\ l.host = host /\ l.protocol = "TLS"
    OBVIOUS
  <2> HIDE DEF new, kept, rest, l
  <2>6. /\ IsSeq(new) /\ DOMAIN new = 1..(Len(rest) + 1) /\ new[Len(rest) + 1] = l
        /\ \A n \in 1..Len(rest) : new[n] = rest[n]
    BY <2>1, <2>2, AppendSeq DEF AreThose
  <2>7. Len(rest) \in Nat /\ DOMAIN rest = 1..Len(rest)
    BY <2>2, IsSeqShape DEF AreThose
  <2> DEFINE z == Len(rest) + 1
  <2>8. /\ z \in DOMAIN new /\ new[z] = l
        /\ \A n \in DOMAIN new : n # z => n \in DOMAIN rest /\ new[n] = ls[at[n]] /\ at[n] \in kept
        /\ \A n \in DOMAIN rest : n \in DOMAIN new /\ n # z /\ new[n] = ls[at[n]]
    BY <2>2, <2>6, <2>7 DEF AreThose
  <2> HIDE DEF z
  \* Of the others none ends TLS for the host or lets it through.
  <2>9. \A n \in DOMAIN new : n # z /\ new[n].host = host => new[n].protocol = "HTTP"
    BY <1>2, <2>3, <2>8 DEF IsListeners, HasTLS
  <2>10. IsListeners(new)
    <3>1. \A n \in DOMAIN new : new[n].protocol \in {"HTTP", "HTTPS", "TLS"}
      BY <2>3, <2>5, <2>8 DEF IsListeners
    <3>2. \A n \in DOMAIN new : new[n].protocol = "TLS" => new[n].name = TLSListenerName(new[n].host)
      BY <2>3, <2>5, <2>8 DEF IsListeners
    <3>3. ASSUME NEW m \in DOMAIN new, NEW n \in DOMAIN new,
                 new[m].protocol = "TLS", new[n].protocol # "HTTP", new[m].host = new[n].host
          PROVE  m = n
      <4>1. CASE m = z \/ n = z
        BY <2>5, <2>8, <2>9, <3>3, <4>1
      <4>2. CASE m # z /\ n # z
        <5>1. at[m] = at[n]
          BY <2>3, <2>8, <3>3, <4>2 DEF IsListeners
        <5> QED
          BY <2>2, <2>8, <4>2, <5>1 DEF AreThose
      <4> QED
        BY <4>1, <4>2
    <3> QED
      BY <2>6, <3>1, <3>2, <3>3 DEF IsListeners
  <2>11. HasTLS(new, host)
    BY <2>5, <2>8 DEF HasTLS
  <2>12. ASSUME NEW n \in DOMAIN ls, ls[n].host # host
         PROVE  \E m \in DOMAIN new : new[m] = ls[n]
    <3>1. PICK m \in DOMAIN rest : at[m] = n
      BY <2>2, <2>4, <2>12 DEF AreThose
    <3> QED
      BY <2>8, <3>1
  <2> QED
    BY <2>10, <2>11, <2>12 DEF new
<1> QED
  BY <1>1, <1>2

LEMMA NameIsSeq ==
  ASSUME NEW host \in String
  PROVE  IsSeq(NameFromHost(host))
<1> DEFINE indices == {n \in DOMAIN host : host[n] \notin Special \/ (n > 1 /\ host[n - 1] \notin Special)}
           kept    == Increasing(indices)
           name    == [n \in DOMAIN kept |-> IF host[kept[n]] \in Special THEN "-" ELSE host[kept[n]]]
<1>1. CASE host \in {<<>>, <<"*">>}
  <2>1. NameFromHost(host) = <<"all", "-", "hosts">>
    BY <1>1 DEF NameFromHost, AllHosts
  <2>2. <<"all", "-", "hosts">> \in Seq({"all", "-", "hosts"})
    OBVIOUS
  <2> QED
    BY <2>1, <2>2, SeqOfAny
<1>2. CASE host \notin {<<>>, <<"*">>}
  <2>1. NameFromHost(host) = name
    BY <1>2 DEF NameFromHost
  <2>2. Len(host) \in Nat /\ DOMAIN host = 1..Len(host)
    BY StringShape
  <2>3. indices \subseteq 1..Len(host)
    BY <2>2
  <2>4. IsFiniteSet(indices) /\ indices \subseteq Nat
    BY <2>2, <2>3, IndicesFinite, FS_Subset
  <2> HIDE DEF indices
  <2>5. Len(kept) \in Nat /\ DOMAIN kept = 1..Len(kept)
    BY <2>4, IncreasingShape, IsSeqShape
  <2> HIDE DEF kept
  <2>6. DOMAIN name = 1..Len(kept) /\ name = [n \in 1..Len(kept) |-> name[n]]
    BY <2>5
  <2> HIDE DEF name
  <2>7. IsSeq(name)
    BY <2>5, <2>6, FunctionIsSeq
  <2> QED
    BY <2>1, <2>7
<1> QED
  BY <1>1, <1>2

LEMMA TLSListenerNamed ==
  ASSUME NEW host \in String
  PROVE  TLSListenerName(host) # <<>>
<1>1. CASE host = <<>>
  BY <1>1 DEF TLSListenerName
<1>2. CASE host # <<>>
  <2> DEFINE suffix == <<"-", "tls">>
  <2>1. suffix \in Seq({"-", "tls"}) /\ Len(suffix) = 2
    OBVIOUS
  <2>2. IsSeq(suffix)
    BY <2>1, SeqOfAny
  <2> HIDE DEF suffix
  <2>3. PICK name : name = NameFromHost(host)
    OBVIOUS
  <2>4. IsSeq(name)
    BY <2>3, NameIsSeq
  <2>5. Len(name) \in Nat
    BY <2>4, IsSeqShape
  <2>6. Len(name \o suffix) = Len(name) + Len(suffix)
    BY <2>2, <2>4, ConcatSeq
  <2>7. Len(name \o suffix) # 0
    BY <2>1, <2>5, <2>6
  <2>8. name \o suffix # <<>>
    BY <2>7, EmptyIsSeq
  <2> QED
    BY <1>2, <2>3, <2>8 DEF TLSListenerName, suffix
<1> QED
  BY <1>1, <1>2

\* The listeners that a Gateway has before any route is passed through.
FirstListeners(gw) == EmitterGateway(Gateways(ingresses)[gw]).listeners

LEMMA FirstListenersShape ==
  ASSUME NEW S \in Inputs, NEW gw \in DOMAIN Gateways(S)
  PROVE  LET ls == EmitterGateway(Gateways(S)[gw]).listeners
         IN  IsListeners(ls) /\ \A n \in DOMAIN ls : ls[n].protocol \in {"HTTP", "HTTPS"}
<1> DEFINE slots == {s \in Groups(S) \X {1, 2} :
                       GatewayOf(s[1]) = gw /\ s[2] \in DOMAIN GroupListeners(S, s[1])}
           order == {p \in slots \X slots :
                       KeyPrecedes(p[1][1], p[2][1]) \/ (p[1][1] = p[2][1] /\ p[1][2] < p[2][2])}
           at    == Ordered(slots, order)
           gls   == [n \in DOMAIN at |-> GroupListeners(S, at[n][1])[at[n][2]]]
           ls    == EmitterGateway(Gateways(S)[gw]).listeners
<1>1. Gateways(S)[gw] = gls
  BY Zenon DEF Gateways
<1>2. IsFiniteSet(slots)
  <2>1. IsFiniteSet({1, 2})
    <3>1. IsFiniteSet({1} \union {2})
      BY FS_Singleton, FS_Union
    <3>2. {1} \union {2} = {1, 2}
      OBVIOUS
    <3> QED
      BY <3>1, <3>2
  <2>2. IsFiniteSet(Groups(S) \X {1, 2})
    BY <2>1, GroupsShape, FS_Product
  <2>3. slots \subseteq Groups(S) \X {1, 2}
    OBVIOUS
  <2> HIDE DEF slots
  <2> QED
    BY <2>2, <2>3, FS_Subset
<1> HIDE DEF slots, order
<1>3. Len(at) \in Nat /\ DOMAIN at = 1..Len(at)
  BY <1>2, OrderedShape, IsSeqShape
<1> HIDE DEF at
<1>4. DOMAIN gls = 1..Len(at)
  BY <1>3
<1> HIDE DEF gls
<1>5. ls = [n \in DOMAIN gls |-> [name |-> gls[n].name, host |-> gls[n].host,
              protocol |-> IF gls[n].port = 80 THEN "HTTP" ELSE "HTTPS"]]
  BY <1>1 DEF EmitterGateway
<1> HIDE DEF ls
<1>6. IsSeq(ls)
  BY <1>3, <1>4, <1>5, FunctionIsSeq
<1>7. \A n \in DOMAIN ls : ls[n].protocol \in {"HTTP", "HTTPS"}
  BY <1>5
<1>8. IsListeners(ls)
  BY <1>6, <1>7 DEF IsListeners
<1> QED
  BY <1>7, <1>8 DEF ls

(***************************************************************************)
(* Which listeners the routes are attached to                              *)
(***************************************************************************)
\* Every Gateway has listeners in order, and those of hosts that no route has
\* taken are as they were.
GatewaysInv ==
  /\ DOMAIN gateways = DOMAIN Gateways(ingresses)
  /\ \A gw \in DOMAIN gateways : IsListeners(gateways[gw].listeners)
  /\ OtherListenersKept

\* A TLSRoute has the frame of the route it was, and when its Gateway exists the
\* Gateway lets TLS through for it.
Attached(key) ==
  LET rt == tlsRoutes[key]
      gw == ParentGateway(rt)
  IN  /\ Named(key) /\ gw = GatewayOf(pir[key]) /\ rt.host = pir[key].host
      /\ gw \in DOMAIN gateways =>
           /\ HasTLS(gateways[gw].listeners, rt.host)
           /\ rt.parentRefs[1].sectionName = TLSListenerName(rt.host)

AttachedInv == \A key \in DOMAIN tlsRoutes : Attached(key)

AttachInv ==
  /\ ConversionInv
  /\ step < 16 => FramesInv
  /\ GatewaysInv /\ AttachedInv

LEMMA InitAttach == ConversionInit => AttachInv
<1> SUFFICES ASSUME ConversionInit PROVE AttachInv
  OBVIOUS
<1>1. Init /\ tlsRoutes = EmptyMap
  BY DEF ConversionInit
<1>2. ConversionInv /\ FramesInv /\ InputsInv
  BY <1>1, InitConversion, InitListeners, InitInputs
<1>3. DOMAIN tlsRoutes = {}
  BY <1>1 DEF EmptyMap
<1>4. /\ DOMAIN gateways = DOMAIN Gateways(ingresses)
      /\ \A gw \in DOMAIN gateways : gateways[gw] = EmitterGateway(Gateways(ingresses)[gw])
  <2>1. PICK gws : gws = Gateways(ingresses)
    OBVIOUS
  <2>2. gateways = [g \in DOMAIN gws |-> EmitterGateway(gws[g])]
    BY <1>1, <2>1 DEF Init
  <2> QED
    BY <2>1, <2>2
<1>5. \A gw \in DOMAIN gateways : IsListeners(gateways[gw].listeners)
  BY <1>2, <1>4, FirstListenersShape DEF InputsInv
<1>6. OtherListenersKept
  BY <1>4 DEF OtherListenersKept
<1> QED
  BY <1>2, <1>3, <1>4, <1>5, <1>6 DEF AttachInv, GatewaysInv, AttachedInv

\* The frame of a group's route before any rule is taken from it.
LEMMA RouteFrame ==
  ASSUME AttachInv, step < 16, group # Nothing, Route.parentRefs # <<>>
  PROVE  /\ Route.parentRefs = <<[name |-> pir[Key].class, sectionName |-> <<>>]>>
         /\ ParentGateway(Route) = GatewayOf(pir[Key]) /\ Route.host = pir[Key].host
         /\ Key \in DOMAIN httpRoutes /\ Key \in DOMAIN pir /\ Named(Key) /\ pir[Key].host \in String
<1>1. LoopInv /\ InputsInv /\ FramesInv
  BY DEF AttachInv, ConversionInv
<1>2. group \in DOMAIN ruleGroups /\ Key \in DOMAIN httpRoutes /\ Key \in DOMAIN pir
  BY <1>1 DEF LoopInv
<1>3. SameFrame(Route, EmitterRoute(pir[Key]))
  BY <1>1, <1>2 DEF FramesInv, Route
<1>4. /\ EmitterRoute(pir[Key]).ns = pir[Key].ns /\ EmitterRoute(pir[Key]).host = pir[Key].host
      /\ EmitterRoute(pir[Key]).parentRefs \in {<<>>, <<[name |-> pir[Key].class, sectionName |-> <<>>]>>}
  BY DEF EmitterRoute
<1>5. Route.parentRefs = <<[name |-> pir[Key].class, sectionName |-> <<>>]>>
  BY <1>3, <1>4 DEF SameFrame
<1>6. ParentGateway(Route) = GatewayOf(pir[Key]) /\ Route.host = pir[Key].host
  <2>1. Route.ns = pir[Key].ns /\ Route.parentRefs[1].name = pir[Key].class
    BY <1>3, <1>4, <1>5 DEF SameFrame
  <2> QED
    BY <1>3, <1>4, <2>1 DEF ParentGateway, GatewayOf, SameFrame
<1>7. pir[Key].host \in String
  <2>1. PICK S : S = ingresses
    OBVIOUS
  <2>2. S \in Inputs /\ Key \in DOMAIN Routes(S) /\ pir[Key] = Routes(S)[Key]
    BY <1>1, <1>2, <2>1 DEF InputsInv
  <2>3. CASE \E ing \in S : pir[Key] = DefaultRoute(ing)
    <3>1. pir[Key].host = <<>>
      BY <2>3 DEF DefaultRoute
    <3> QED
      BY <3>1 DEF String
  <2>4. CASE \E k \in Groups(S) : pir[Key] = GroupRoute(S, k)
    <3>1. PICK k \in Groups(S) : pir[Key] = GroupRoute(S, k)
      BY <2>4
    <3>2. pir[Key].host = k.host
      BY <3>1 DEF GroupRoute
    <3> QED
      BY <2>2, <3>2, GroupsShape
  <2> QED
    BY <2>2, <2>3, <2>4, GroupOrigin
<1> QED
  BY <1>2, <1>5, <1>6, <1>7 DEF Named, Key

\* The TLSRoute made of the route has its frame, and refers to a listener by the
\* name that listeners for its host have.
LEMMA TLSRouteFrame ==
  ASSUME AttachInv, step < 16, group # Nothing, Route.parentRefs # <<>>
  PROVE  LET gw == ParentGateway(Route)
             rt == TLSRoute(Route, TLSListener(gw, Route.host))
         IN  /\ ParentGateway(rt) = gw /\ rt.host = Route.host
             /\ gw \in DOMAIN gateways => rt.parentRefs[1].sectionName = TLSListenerName(rt.host)
<1> DEFINE gw   == ParentGateway(Route)
           name == TLSListener(gw, Route.host)
           rt   == TLSRoute(Route, name)
           ref  == [name |-> pir[Key].class, sectionName |-> <<>>]
<1>1. /\ Route.parentRefs = <<ref>> /\ Route.host \in String
  BY RouteFrame
<1>2. /\ rt.ns = Route.ns /\ rt.host = Route.host
      /\ rt.parentRefs = IF name = <<>> THEN Route.parentRefs
                         ELSE [Route.parentRefs EXCEPT ![1].sectionName = name]
  BY DEF TLSRoute
<1> HIDE DEF rt
<1>3. rt.parentRefs[1].name = Route.parentRefs[1].name
      /\ (name # <<>> => rt.parentRefs[1].sectionName = name)
  <2> HIDE DEF name
  <2> QED
    BY <1>1, <1>2
<1>4. ParentGateway(rt) = gw
  BY <1>2, <1>3 DEF ParentGateway
<1>5. ASSUME gw \in DOMAIN gateways
      PROVE  name = TLSListenerName(Route.host)
  <2> DEFINE ls == gateways[gw].listeners
             at == {n \in DOMAIN ls : ls[n].protocol = "TLS" /\ ls[n].host = Route.host}
  <2>1. name = IF at # {} THEN ls[Min(at)].name ELSE TLSListenerName(Route.host)
    BY <1>5 DEF TLSListener
  <2>2. CASE at = {}
    BY <2>1, <2>2
  <2>3. CASE at # {}
    <3>1. PICK n \in at : TRUE
      BY <2>3
    <3>2. IsListeners(ls)
      BY <1>5 DEF AttachInv, GatewaysInv
    <3>3. n \in DOMAIN ls /\ ls[n].protocol = "TLS" /\ ls[n].host = Route.host
      BY <3>1
    <3>4. \A m \in at : m = n
      BY <3>2, <3>3 DEF IsListeners
    <3>5. n \in Nat
      <4>1. Len(ls) \in Nat /\ DOMAIN ls = 1..Len(ls)
        BY <3>2, IsSeqShape DEF IsListeners
      <4> QED
        BY <3>3, <4>1
    <3> HIDE DEF at, ls
    <3>6. Min(at) = n
      <4>1. at = {n}
        BY <3>1, <3>4
      <4>2. n <= n
        BY <3>5
      <4>3. Min({n}) = n
        BY <4>2 DEF Min
      <4> QED
        BY <4>1, <4>3
    <3>7. ls[n].name = TLSListenerName(Route.host)
      BY <3>2, <3>3 DEF IsListeners
    <3> QED
      BY <2>1, <2>3, <3>6, <3>7
  <2> QED
    BY <2>2, <2>3
<1>6. gw \in DOMAIN gateways => rt.parentRefs[1].sectionName = TLSListenerName(rt.host)
  BY <1>1, <1>2, <1>3, <1>5, TLSListenerNamed
<1> QED
  BY <1>2, <1>4, <1>6 DEF rt

\* The route that is passed through takes its host's listeners, and no other's.
LEMMA PassesAttached ==
  ASSUME AttachInv, group # Nothing, PassesThrough, UNCHANGED inputs
  PROVE  GatewaysInv' /\ AttachedInv' /\ FramesInv'
<1> DEFINE gw == ParentGateway(Route)
           h  == Route.host
           rt == TLSRoute(Route, TLSListener(gw, h))
           old == gateways[gw].listeners
           new == WithTLSListener(old, h)
<1>1. /\ step < 16 /\ Route.parentRefs # <<>> /\ tlsRoutes' = Put(tlsRoutes, Key, rt)
      /\ gateways' = IF gw \notin DOMAIN gateways THEN gateways
                     ELSE [gateways EXCEPT ![gw].listeners = WithTLSListener(@, h)]
      /\ httpRoutes' = RemoveKey(httpRoutes, Key)
  BY DEF PassesThrough
<1>2. /\ gw = GatewayOf(pir[Key]) /\ h = pir[Key].host
      /\ Key \in DOMAIN httpRoutes /\ Key \in DOMAIN pir /\ Named(Key)
  BY <1>1, RouteFrame
<1>3. /\ ParentGateway(rt) = gw /\ rt.host = h
      /\ gw \in DOMAIN gateways => rt.parentRefs[1].sectionName = TLSListenerName(rt.host)
  BY <1>1, TLSRouteFrame
<1>4. UNCHANGED <<ingresses, pir, ruleGroups>>
  BY DEF inputs
<1>5. /\ FramesInv /\ GatewaysInv /\ AttachedInv /\ WhereInv /\ FeaturesInv
  BY <1>1 DEF AttachInv, ConversionInv
<1> HIDE DEF rt
<1>6. /\ DOMAIN tlsRoutes' = DOMAIN tlsRoutes \union {Key} /\ tlsRoutes'[Key] = rt
      /\ \A key \in DOMAIN tlsRoutes : key # Key /\ tlsRoutes'[key] = tlsRoutes[key]
  <2>1. Key \notin DOMAIN tlsRoutes
    BY <1>2, <1>5 DEF WhereInv
  <2> QED
    BY <1>1, <2>1 DEF Put
<1>7. /\ DOMAIN gateways' = DOMAIN gateways
      /\ \A g \in DOMAIN gateways : gateways'[g].listeners = IF g = gw THEN new ELSE gateways[g].listeners
  <2>1. CASE gw \notin DOMAIN gateways
    BY <1>1, <2>1
  <2>2. CASE gw \in DOMAIN gateways
    <3>1. gateways[gw] = [features |-> gateways[gw].features, listeners |-> old]
      BY <1>5, <2>2 DEF FeaturesInv
    <3> DEFINE one == [gateways[gw] EXCEPT !.listeners = WithTLSListener(@, h)]
    <3>2. gateways' = [gateways EXCEPT ![gw] = one]
      BY <1>1, <2>2
    <3>3. one.listeners = new
      BY <3>1
    <3> HIDE DEF one, gw, new
    <3> QED
      BY <3>2, <3>3
  <2> QED
    BY <2>1, <2>2
<1>8. ASSUME gw \in DOMAIN gateways
      PROVE  /\ IsListeners(new) /\ HasTLS(new, h)
             /\ \A n \in DOMAIN old : old[n].host # h => \E m \in DOMAIN new : new[m] = old[n]
  <2>1. IsListeners(old)
    BY <1>5, <1>8 DEF GatewaysInv
  <2> HIDE DEF old
  <2> QED
    BY <2>1, TLSListenerAdded
<1> HIDE DEF gw, h, new, old
<1>9. FramesInv'
  BY <1>1, <1>4, <1>5 DEF FramesInv, RemoveKey
<1>10. \A g \in DOMAIN gateways' : IsListeners(gateways'[g].listeners)
  BY <1>5, <1>7, <1>8 DEF GatewaysInv
<1>11. OtherListenersKept'
  <2> SUFFICES ASSUME NEW g \in DOMAIN gateways',
                      NEW l \in ToSet(FirstListeners(g)),
                      \A key \in DOMAIN tlsRoutes' :
                        tlsRoutes'[key].host # l.host \/ ParentGateway(tlsRoutes'[key]) # g
               PROVE  l \in ToSet(gateways'[g].listeners)
    BY <1>4 DEF OtherListenersKept, FirstListeners
  <2>1. \A key \in DOMAIN tlsRoutes : tlsRoutes[key].host # l.host \/ ParentGateway(tlsRoutes[key]) # g
    BY <1>6
  <2>2. g \in DOMAIN gateways /\ l \in ToSet(gateways[g].listeners)
    BY <1>5, <1>7, <2>1 DEF GatewaysInv, OtherListenersKept, FirstListeners
  <2>3. CASE g # gw
    BY <1>7, <2>2, <2>3
  <2>4. CASE g = gw
    <3>1. l.host # h
      BY <1>3, <1>6, <2>4
    <3>2. PICK n \in DOMAIN old : old[n] = l
      BY <2>2, <2>4 DEF ToSet, old
    <3>3. PICK m \in DOMAIN new : new[m] = l
      BY <1>8, <2>2, <2>4, <3>1, <3>2
    <3> QED
      BY <1>7, <2>2, <2>4, <3>3 DEF ToSet
  <2> QED
    BY <2>3, <2>4
<1>12. GatewaysInv'
  BY <1>4, <1>5, <1>7, <1>10, <1>11 DEF GatewaysInv
<1>13. ASSUME NEW key \in DOMAIN tlsRoutes'
       PROVE  Attached(key)'
  <2>1. CASE key = Key
    <3>1. gw \in DOMAIN gateways => gateways'[gw].listeners = new
      BY <1>7
    <3> QED
      BY <1>2, <1>3, <1>4, <1>6, <1>7, <1>8, <2>1, <3>1 DEF Attached, Named
  <2>2. CASE key # Key
    <3> DEFINE g == ParentGateway(tlsRoutes[key])
    <3>1. key \in DOMAIN tlsRoutes /\ Attached(key) /\ tlsRoutes'[key] = tlsRoutes[key]
      BY <1>5, <1>6, <2>2 DEF AttachedInv
    <3>2. ASSUME g \in DOMAIN gateways
          PROVE  HasTLS(gateways'[g].listeners, tlsRoutes[key].host)
      <4>1. HasTLS(gateways[g].listeners, tlsRoutes[key].host)
        BY <3>1, <3>2 DEF Attached
      <4>2. CASE g # gw
        BY <1>7, <3>2, <4>1, <4>2
      <4>3. CASE g = gw
        <5>1. gateways'[g].listeners = new /\ HasTLS(old, tlsRoutes[key].host)
          BY <1>7, <3>2, <4>1, <4>3 DEF old
        <5>2. HasTLS(new, tlsRoutes[key].host)
          BY <1>8, <3>2, <4>3, <5>1 DEF HasTLS
        <5> QED
          BY <5>1, <5>2
      <4> QED
        BY <4>2, <4>3
    <3> QED
      BY <1>4, <1>7, <3>1, <3>2 DEF Attached, Named
  <2> QED
    BY <2>1, <2>2
<1> QED
  BY <1>9, <1>12, <1>13 DEF AttachedInv

\* A step that leaves the listeners and the TLSRoutes alone.
LEMMA QuietAttached ==
  ASSUME GatewaysInv, AttachedInv, UNCHANGED inputs, UNCHANGED tlsRoutes,
         DOMAIN gateways' = DOMAIN gateways,
         \A gw \in DOMAIN gateways : gateways'[gw].listeners = gateways[gw].listeners
  PROVE  GatewaysInv' /\ AttachedInv'
<1>1. UNCHANGED <<ingresses, pir, ruleGroups>>
  BY DEF inputs
<1>2. OtherListenersKept'
  <2> SUFFICES ASSUME NEW g \in DOMAIN gateways',
                      NEW l \in ToSet(FirstListeners(g)),
                      \A key \in DOMAIN tlsRoutes :
                        tlsRoutes[key].host # l.host \/ ParentGateway(tlsRoutes[key]) # g
               PROVE  l \in ToSet(gateways'[g].listeners)
    BY <1>1 DEF OtherListenersKept, FirstListeners
  <2>1. l \in ToSet(gateways[g].listeners)
    BY DEF GatewaysInv, OtherListenersKept, FirstListeners
  <2> QED
    BY <2>1
<1>3. GatewaysInv'
  BY <1>1, <1>2 DEF GatewaysInv
<1>4. AttachedInv'
  BY <1>1 DEF AttachedInv, Attached, Named
<1> QED
  BY <1>3, <1>4

LEMMA StepAttach == AttachInv /\ [ConversionNext]_vars => AttachInv'
<1> SUFFICES ASSUME AttachInv, [ConversionNext]_vars PROVE AttachInv'
  OBVIOUS
<1>1. ConversionInv /\ ConversionInv'
  BY StepConversion DEF AttachInv
<1>2. GatewaysInv /\ AttachedInv
  BY DEF AttachInv
<1>3. CASE FeatureStep /\ UNCHANGED conversionVars
  <2>1. FeatureInv /\ FramesInv /\ step \in 1..14
    BY <1>1, <1>3, StepNumbers DEF AttachInv, ConversionInv, FeatureInv, KeptInv
  <2>2. FramesInv'
    BY <1>3, <2>1, StepFrames DEF FeatureInv
  <2>3. UNCHANGED inputs /\ UNCHANGED tlsRoutes
    BY <1>3, StepKeepsInputs DEF conversionVars
  <2>4. DOMAIN gateways' = DOMAIN gateways
        /\ \A gw \in DOMAIN gateways : gateways'[gw].listeners = gateways[gw].listeners
    BY <1>3, <2>1, StepKeepsListeners
  <2> QED
    BY <1>1, <1>2, <2>2, <2>3, <2>4, QuietAttached DEF AttachInv
<1>4. CASE Leading
  <2>1. UNCHANGED inputs /\ UNCHANGED <<httpRoutes, gateways, tlsRoutes>>
    BY <1>4, LeadingEffect
  <2>2. step' < 16 => step < 16
    BY <1>1, <1>4, ParsersShape, StepNumbers
       DEF Leading, VisitRoute, VisitGroup, NextRule, MissingRule, NextParser, LookForPassthrough, CollectRule,
           NextSource, vars, featureVars, loopVars
  <2>3. step' < 16 => FramesInv'
    BY <2>1, <2>2 DEF AttachInv, FramesInv, inputs
  <2> QED
    BY <1>1, <1>2, <2>1, <2>3, QuietAttached DEF AttachInv
<1>5. CASE FinishPassthrough
  <2>1. UNCHANGED inputs /\ group # Nothing /\ step = 15
    BY <1>5, PassthroughEffect
  <2>2. CASE UNCHANGED <<httpRoutes, gateways, tlsRoutes>>
    <3>1. FramesInv'
      BY <2>1, <2>2 DEF AttachInv, FramesInv, inputs
    <3> QED
      BY <1>1, <1>2, <2>1, <2>2, <3>1, QuietAttached DEF AttachInv
  <2>3. CASE PassesThrough
    BY <1>1, <2>1, <2>3, PassesAttached DEF AttachInv
  <2> QED
    BY <1>5, <2>2, <2>3, PassthroughEffect
<1>6. CASE FinishProtocol
  <2>1. UNCHANGED inputs /\ UNCHANGED <<gateways, tlsRoutes>> /\ step = 16 /\ step' = 16
    BY <1>6, ProtocolEffect
  <2> QED
    BY <1>1, <1>2, <2>1, QuietAttached DEF AttachInv
<1> QED
  BY <1>3, <1>4, <1>5, <1>6 DEF ConversionNext, ConversionStep, ConversionEnded, Leading

\* A host that is not passed through keeps the listeners that the aggregation
\* gave it, in whatever order the routes of a Gateway are visited
\* (ssl-passthrough.go).
THEOREM ListenersOfOthersStay == ConversionSpec => []OtherListenersKept
<1>1. AttachInv => OtherListenersKept
  BY DEF AttachInv, GatewaysInv
<1> QED
  BY <1>1, InitAttach, StepAttach, PTL DEF ConversionSpec

\* An Ingress whose default backend has the name of a group's route is of a
\* class that has a Gateway: Gateways are made of rules, not of default backends
\* (converter.go:256).
NamedDefaultsHaveGateways ==
  \A ing \in ingresses :
    HasDefault(ing) /\ Named([ns |-> ing.ns, name |-> DefaultRouteName(ing.name)])
      => [ns |-> ing.ns, class |-> GetIngressClass(ing)] \in DOMAIN gateways

\* A TLSRoute that ssl-passthrough makes is attached, by name, to a listener of
\* an existing Gateway that lets TLS for its host through, and that Gateway has
\* no listener left that would end it, however many routes of one host and
\* Gateway are passed through one after the other.
THEOREM PassedThroughIsReachable ==
  ConversionSpec => [](NamedDefaultsHaveGateways => PassthroughReachable)
<1>1. ASSUME AttachInv, NamedDefaultsHaveGateways, NEW key \in DOMAIN tlsRoutes
      PROVE  LET rt == tlsRoutes[key]
                 gw == ParentGateway(rt)
                 ls == gateways[gw].listeners
             IN  /\ gw \in DOMAIN gateways
                 /\ \E n \in DOMAIN ls :
                      <<ls[n].name, ls[n].host, ls[n].protocol>>
                        = <<rt.parentRefs[1].sectionName, rt.host, "TLS">>
                 /\ Cardinality({n \in DOMAIN ls : ls[n].host = rt.host /\ ls[n].protocol # "HTTP"}) = 1
  <2> DEFINE rt == tlsRoutes[key]
             gw == ParentGateway(rt)
             ls == gateways[gw].listeners
  <2>1. Attached(key) /\ GatewaysInv /\ InputsInv /\ WhereInv
    BY <1>1 DEF AttachInv, ConversionInv, AttachedInv
  <2>2. Named(key) /\ gw = GatewayOf(pir[key]) /\ key \in DOMAIN pir
    BY <2>1 DEF Attached, WhereInv
  <2>3. gw \in DOMAIN gateways
    <3>1. PICK S : S = ingresses
      OBVIOUS
    <3>2. /\ S \in Inputs /\ key \in DOMAIN Routes(S) /\ pir[key] = Routes(S)[key]
          /\ DOMAIN gateways = DOMAIN Gateways(S)
      BY <2>1, <2>2, <3>1 DEF InputsInv, GatewaysInv
    <3>3. ASSUME NEW ing \in S, HasDefault(ing), pir[key] = DefaultRoute(ing),
                 key = [ns |-> ing.ns, name |-> DefaultRouteName(ing.name)]
          PROVE  GatewayOf(pir[key]) \in DOMAIN gateways
      <4>1. GatewayOf(pir[key]) = [ns |-> ing.ns, class |-> GetIngressClass(ing)]
        BY <3>3 DEF GatewayOf, DefaultRoute
      <4> QED
        BY <1>1, <2>2, <3>1, <3>3, <4>1 DEF NamedDefaultsHaveGateways
    <3>4. ASSUME NEW k \in Groups(S), pir[key] = GroupRoute(S, k)
          PROVE  GatewayOf(pir[key]) \in DOMAIN gateways
      <4>1. GatewayOf(pir[key]) = GatewayOf(k)
        BY <3>4 DEF GatewayOf, GroupRoute
      <4>2. DOMAIN Gateways(S) = {GatewayOf(l) : l \in Groups(S)}
        BY DEF Gateways
      <4> QED
        BY <3>2, <4>1, <4>2
    <3> QED
      BY <2>2, <3>2, <3>3, <3>4, GroupOrigin
  <2>4. IsListeners(ls) /\ HasTLS(ls, rt.host) /\ rt.parentRefs[1].sectionName = TLSListenerName(rt.host)
    BY <2>1, <2>3 DEF Attached, GatewaysInv
  <2> HIDE DEF ls, gw
  <2>5. PICK n \in DOMAIN ls : ls[n].protocol = "TLS" /\ ls[n].host = rt.host
    BY <2>4 DEF HasTLS
  <2>6. ls[n].name = rt.parentRefs[1].sectionName
    BY <2>4, <2>5 DEF IsListeners
  <2>7. {m \in DOMAIN ls : ls[m].host = rt.host /\ ls[m].protocol # "HTTP"} = {n}
    BY <2>4, <2>5 DEF IsListeners
  <2>8. Cardinality({m \in DOMAIN ls : ls[m].host = rt.host /\ ls[m].protocol # "HTTP"}) = 1
    BY <2>7, FS_Singleton
  <2> QED
    BY <2>3, <2>5, <2>6, <2>8 DEF ls, gw
<1>2. AttachInv => (NamedDefaultsHaveGateways => PassthroughReachable)
  BY <1>1 DEF PassthroughReachable
<1> QED
  BY <1>2, InitAttach, StepAttach, PTL DEF ConversionSpec

(***************************************************************************)
(* Which rules are served by which protocol                                *)
(***************************************************************************)
SourceAt(key, m, x)   == pir[key].rules[m].sources[x]
AnnotationsAt(key, m, x) == annotations[SourceAt(key, m, x).ing]

\* The sources that the running parser has looked at.
Seen(m, x) == m < i \/ (m = i /\ x < j)

Secure(key) == \E m \in DOMAIN pir[key].rules : \E x \in All(key, m) : IsPassthrough(AnnotationsAt(key, m, x))
SecureSeen(key) ==
  \E m \in DOMAIN pir[key].rules : \E x \in All(key, m) :
    Seen(m, x) /\ IsPassthrough(AnnotationsAt(key, m, x))

Wants(key, m, grpc) == \E x \in All(key, m) : IsGRPC(AnnotationsAt(key, m, x)) <=> grpc
WantsSeen(key, m, grpc) ==
  \E x \in All(key, m) : Seen(m, x) /\ (IsGRPC(AnnotationsAt(key, m, x)) <=> grpc)

\* A rule of the provider IR is in the route, with all its backends.
Served(routes, key, n) ==
  \E rule \in RulesIn(routes, key) : rule.from = n /\ BackendSources(rule) = pir[key].rules[n].sources
Secured(key, n) ==
  \E rule \in RulesIn(tlsRoutes, key) : rule.from = n /\ rule.backends = pir[key].rules[n].sources

\* Every rule of the provider IR is where it was.
InPlace(rt, provided) ==
  \A n \in DOMAIN provided :
    n \in DOMAIN rt.rules /\ rt.rules[n].from = n /\ BackendSources(rt.rules[n]) = provided[n].sources

\* What is known of a route before, while and after each of the two parsers
\* visits it.
SecuredPhase(key) ==
  /\ step = 15 /\ ~Visited(key) => key \notin DOMAIN tlsRoutes
  /\ step = 15 /\ Visiting(key) => IF passthrough THEN Secure(key) ELSE ~SecureSeen(key)
  /\ (step = 15 /\ Visited(key)) \/ step > 15 => (key \in DOMAIN tlsRoutes <=> Secure(key))

Collects(indices, key, grpc) ==
  \A m : m \in ToSet(indices) <=> m \in DOMAIN pir[key].rules /\ WantsSeen(key, m, grpc)

SplitPhase(key) ==
  /\ step = 16 /\ ~Visited(key) =>
       /\ key \notin DOMAIN grpcRoutes
       /\ key \in DOMAIN httpRoutes => InPlace(httpRoutes[key], pir[key].rules)
  /\ step = 16 /\ Visiting(key) => Collects(grpcRules, key, TRUE) /\ Collects(httpRules, key, FALSE)
  /\ (step = 16 /\ Visited(key)) \/ step > 16 =>
       (key \notin DOMAIN tlsRoutes =>
          \A n \in DOMAIN pir[key].rules :
            /\ Served(grpcRoutes, key, n) <=> Wants(key, n, TRUE)
            /\ Served(httpRoutes, key, n) <=> Wants(key, n, FALSE))

SecuredInv == NoHeaderCanaries => \A key \in DOMAIN tlsRoutes : \A n \in DOMAIN pir[key].rules : Secured(key, n)

PhasesInv ==
  (NoHeaderCanaries /\ step # Panicked) =>
    \A key \in DOMAIN pir : OneGroup(key) => SecuredPhase(key) /\ SplitPhase(key)

ProtocolInv ==
  /\ ConversionInv
  /\ step < 16 => NoShift
  /\ step \in {15, 16} /\ group # Nothing => group \notin pending
  /\ SecuredInv /\ PhasesInv

(***************************************************************************)
(* The course of a visit                                                   *)
(***************************************************************************)
LEMMA GroupStarts ==
  ASSUME InputsInv, LoopInv, UNCHANGED inputs, NEW parsers, VisitGroup(parsers), NEW key, OneGroup(key)
  PROVE  /\ ~Visiting(key)
         /\ \/ Visiting(key)' /\ ~Visited(key)' /\ ~Visited(key) /\ i' = 1 /\ j' = 1 /\ key \in DOMAIN httpRoutes
            \/ ~Visiting(key)' /\ (Visited(key)' <=> Visited(key))
            \/ ~Visiting(key)' /\ Visited(key)' /\ ~Visited(key) /\ key \notin DOMAIN httpRoutes
<1>1. ruleGroups' = ruleGroups /\ group = Nothing
  BY DEF inputs, VisitGroup
<1>2. PICK g \in pending :
        /\ pending' = pending \ {g}
        /\ IF ruleGroups[g] \in DOMAIN httpRoutes
           THEN group' = g /\ i' = 1 /\ j' = 1
           ELSE UNCHANGED <<group, i, j>>
  BY DEF VisitGroup
<1>3. g \in DOMAIN ruleGroups /\ g # Nothing /\ \A h \in DOMAIN ruleGroups : h # Nothing
  BY <1>2, NothingIsNoGroup DEF LoopInv
<1>4. PICK o \in DOMAIN ruleGroups : \A h \in DOMAIN ruleGroups : ruleGroups[h] = key <=> h = o
  BY DEF OneGroup
<1>5. Visited(key) <=> o \notin pending
  BY <1>1, <1>3, <1>4 DEF Visited
<1>6. CASE ruleGroups[g] \in DOMAIN httpRoutes
  <2>1. group' = g /\ i' = 1 /\ j' = 1
    BY <1>2, <1>6
  <2>2. Visited(key)' <=> o \notin pending
    BY <1>1, <1>2, <1>4, <2>1 DEF Visited
  <2>3. Visiting(key)' <=> g = o
    BY <1>1, <1>3, <1>4, <2>1 DEF Visiting, Key
  <2> QED
    BY <1>1, <1>2, <1>4, <1>5, <1>6, <2>1, <2>2, <2>3 DEF Visiting
<1>7. CASE ruleGroups[g] \notin DOMAIN httpRoutes
  <2>1. group' = Nothing
    BY <1>1, <1>2, <1>7
  <2>2. Visited(key)' <=> o \notin pending \/ g = o
    BY <1>1, <1>2, <1>3, <1>4, <2>1 DEF Visited
  <2> QED
    BY <1>1, <1>2, <1>4, <1>5, <1>7, <2>1, <2>2 DEF Visiting
<1> QED
  BY <1>6, <1>7

LEMMA GroupEnds ==
  ASSUME InputsInv, LoopInv, UNCHANGED inputs, group # Nothing, group \notin pending,
         group' = Nothing, pending' = pending, NEW key
  PROVE  ~Visiting(key)' /\ (Visited(key)' <=> Visited(key) \/ Visiting(key))
<1>1. ruleGroups' = ruleGroups /\ group \in DOMAIN ruleGroups /\ \A h \in DOMAIN ruleGroups : h # Nothing
  BY NothingIsNoGroup DEF inputs, LoopInv
<1> QED
  BY <1>1 DEF Visited, Visiting, Key

LEMMA GroupStays ==
  ASSUME UNCHANGED inputs, UNCHANGED <<group, pending>>, NEW key
  PROVE  (Visiting(key)' <=> Visiting(key)) /\ (Visited(key)' <=> Visited(key))
  BY DEF inputs, Visited, Visiting, Key

LEMMA GroupsOver ==
  ASSUME InputsInv, LoopInv, UNCHANGED inputs, NEW parsers, NextParser(parsers), NEW key, OneGroup(key)
  PROVE  /\ Visited(key) /\ ~Visiting(key) /\ ~Visited(key)' /\ ~Visiting(key)'
<1>1. ruleGroups' = ruleGroups /\ pending' = DOMAIN ruleGroups /\ pending = {} /\ group = Nothing /\ group' = Nothing
  BY DEF inputs, NextParser
<1>2. \A h \in DOMAIN ruleGroups : h # Nothing
  BY NothingIsNoGroup
<1>3. \E g \in DOMAIN ruleGroups : ruleGroups[g] = key
  BY DEF OneGroup
<1> QED
  BY <1>1, <1>2, <1>3 DEF Visited, Visiting

LEMMA VisitedOnce ==
  ASSUME LoopInv, NEW key, OneGroup(key), Visiting(key)
  PROVE  ~Visited(key)
  BY DEF LoopInv, OneGroup, Visiting, Visited, Key

\* The sources of the visited rules.
LEMMA SourcesSeen ==
  ASSUME InputsInv, LoopInv, NEW key \in DOMAIN pir
  PROVE  /\ IsSeq(pir[key].rules) /\ DOMAIN pir[key].rules = 1..Len(pir[key].rules)
         /\ Len(pir[key].rules) \in Nat /\ i \in Nat \ {0} /\ j \in Nat \ {0}
         /\ \A m \in DOMAIN pir[key].rules :
              /\ All(key, m) = 1..Len(pir[key].rules[m].sources)
              /\ Len(pir[key].rules[m].sources) \in Nat /\ All(key, m) # {}
<1>1. IsProvided(pir[key].rules, ingresses)
  BY InputsAreProvided DEF Provided
<1> DEFINE rules == pir[key].rules
<1>2. /\ IsSeq(rules) /\ \A m \in DOMAIN rules : IsSeq(rules[m].sources) /\ rules[m].sources # <<>>
  BY <1>1 DEF IsProvided
<1>3. ASSUME NEW m \in DOMAIN rules
      PROVE  /\ DOMAIN rules[m].sources = 1..Len(rules[m].sources) /\ Len(rules[m].sources) \in Nat
             /\ DOMAIN rules[m].sources # {}
  <2>1. IsSeq(rules[m].sources) /\ rules[m].sources # <<>>
    BY <1>2
  <2> DEFINE s == rules[m].sources
  <2> HIDE DEF s
  <2>2. DOMAIN s = 1..Len(s) /\ Len(s) \in Nat /\ Len(s) # 0
    BY <2>1, IsSeqShape, EmptyIsSeq DEF s
  <2>3. 1 \in DOMAIN s
    BY <2>2
  <2> QED
    BY <2>2, <2>3 DEF s
<1>4. DOMAIN rules = 1..Len(rules) /\ Len(rules) \in Nat
  BY <1>2, IsSeqShape
<1> HIDE DEF rules
<1>5. i \in Nat \ {0} /\ j \in Nat \ {0}
  BY DEF LoopInv
<1> QED
  BY <1>2, <1>3, <1>4, <1>5 DEF All, rules

\* At a source the next one is seen.
LEMMA SourceSeen ==
  ASSUME InputsInv, LoopInv, group # Nothing, NEW parsers, AtSource(parsers),
         i' = i, j' = j + 1
  PROVE  /\ i \in DOMAIN pir[Key].rules /\ j \in All(Key, i) /\ Source = SourceAt(Key, i, j)
         /\ \A m \in DOMAIN pir[Key].rules : \A x \in All(Key, m) :
              Seen(m, x)' <=> Seen(m, x) \/ (m = i /\ x = j)
<1>1. /\ Key \in DOMAIN pir /\ i \in DOMAIN pir[Key].rules
      /\ j \in DOMAIN pir[Key].rules[i].sources /\ Source = pir[Key].rules[i].sources[j]
  BY AtSourceFacts
<1>2. \A m \in DOMAIN pir[Key].rules : m \in Nat /\ \A x \in All(Key, m) : x \in Nat
  BY <1>1, SourcesSeen
<1>3. i \in Nat /\ j \in Nat
  BY <1>1, SourcesSeen
<1> QED
  BY <1>1, <1>2, <1>3 DEF Seen, All, SourceAt

\* Behind the last source of a rule no other source is seen than before.
LEMMA RuleSeen ==
  ASSUME InputsInv, LoopInv, group # Nothing, NEW parsers, AtRule(parsers), j > Len(Sources[i]),
         i' = i + 1, j' = 1
  PROVE  \A m \in DOMAIN pir[Key].rules : \A x \in All(Key, m) : Seen(m, x)' <=> Seen(m, x)
<1>1. Key \in DOMAIN pir /\ i \in DOMAIN pir[Key].rules /\ Sources[i] = pir[Key].rules[i].sources
  BY AtRuleFacts
<1>2. \A m \in DOMAIN pir[Key].rules : m \in Nat /\ \A x \in All(Key, m) : x \in Nat /\ ~(x < 1)
  <2> SUFFICES ASSUME NEW m \in DOMAIN pir[Key].rules, NEW x \in All(Key, m)
               PROVE  m \in Nat /\ x \in Nat /\ ~(x < 1)
    BY <1>1, SourcesSeen
  <2> DEFINE rules == Len(pir[Key].rules)  sources == Len(pir[Key].rules[m].sources)
  <2>1. m \in 1..rules /\ rules \in Nat /\ x \in 1..sources /\ sources \in Nat
    BY <1>1, SourcesSeen
  <2> HIDE DEF rules, sources
  <2> QED
    BY <2>1
<1>3. i \in Nat /\ j \in Nat /\ \A x \in All(Key, i) : x < j
  <2>1. Len(Sources[i]) \in Nat /\ All(Key, i) = 1..Len(Sources[i]) /\ i \in Nat /\ j \in Nat
    BY <1>1, SourcesSeen
  <2> QED
    BY <2>1
<1> QED
  BY <1>2, <1>3 DEF Seen

\* Behind the last rule all are seen.
LEMMA AllSeen ==
  ASSUME InputsInv, LoopInv, group # Nothing, NEW parsers, RulesDone(parsers)
  PROVE  \A m \in DOMAIN pir[Key].rules : \A x \in All(Key, m) : Seen(m, x)
<1>1. Key \in DOMAIN pir
  BY DEF LoopInv
<1>2. /\ DOMAIN pir[Key].rules = 1..Len(pir[Key].rules) /\ Len(pir[Key].rules) \in Nat
      /\ i \in Nat \ {0}
  BY <1>1, SourcesSeen
<1>3. ASSUME NEW m \in DOMAIN pir[Key].rules
      PROVE  m < i
  <2>1. Len(Sources) = Len(pir[Key].rules)
    BY <1>3, SourcesShape
  <2>2. i > Len(Sources)
    BY DEF RulesDone
  <2> QED
    BY <1>2, <2>1, <2>2
<1> QED
  BY <1>3 DEF Seen

(***************************************************************************)
(* The phases of a route                                                   *)
(***************************************************************************)
SameRoute(new, old, key) ==
  (key \in DOMAIN new <=> key \in DOMAIN old) /\ (key \in DOMAIN old => new[key] = old[key])

\* What is asked of a route stays as long as the annotations do.
LEMMA QuestionsStay ==
  ASSUME UNCHANGED inputs, NEW key
  PROVE  /\ Secure(key)' <=> Secure(key)
         /\ \A m, grpc : Wants(key, m, grpc)' <=> Wants(key, m, grpc)
         /\ \A routes, n : Served(routes, key, n)' <=> Served(routes, key, n)
         /\ \A m : All(key, m)' = All(key, m)
         /\ \A m, x : AnnotationsAt(key, m, x)' = AnnotationsAt(key, m, x)
         /\ pir' = pir /\ (OneGroup(key)' <=> OneGroup(key))
         /\ NoHeaderCanaries' <=> NoHeaderCanaries
<1>1. pir' = pir /\ annotations' = annotations /\ ingresses' = ingresses /\ ruleGroups' = ruleGroups
  BY DEF inputs
<1>2. \A m, x : AnnotationsAt(key, m, x)' = AnnotationsAt(key, m, x)
  BY <1>1 DEF AnnotationsAt, SourceAt
<1>3. \A m : All(key, m)' = All(key, m)
  BY <1>1 DEF All
<1>4. Secure(key)' <=> Secure(key)
  BY <1>1, <1>2, <1>3 DEF Secure
<1>5. \A m, grpc : Wants(key, m, grpc)' <=> Wants(key, m, grpc)
  BY <1>1, <1>2, <1>3 DEF Wants
<1>6. \A routes, n : Served(routes, key, n)' <=> Served(routes, key, n)
  BY <1>1 DEF Served
<1>7. (OneGroup(key)' <=> OneGroup(key)) /\ (NoHeaderCanaries' <=> NoHeaderCanaries)
  BY <1>1 DEF OneGroup, NoHeaderCanaries
<1> QED
  BY <1>1, <1>2, <1>3, <1>4, <1>5, <1>6, <1>7

LEMMA ServedThere ==
  ASSUME NEW old, NEW new, NEW key, SameRoute(new, old, key), NEW n
  PROVE  Served(new, key, n) <=> Served(old, key, n)
  BY DEF SameRoute, Served, RulesIn

\* A route that is not visited, and did not change.
LEMMA PhasesStay ==
  ASSUME UNCHANGED inputs, step' = step, NEW key, SecuredPhase(key), SplitPhase(key),
         SameRoute(httpRoutes', httpRoutes, key), SameRoute(tlsRoutes', tlsRoutes, key),
         SameRoute(grpcRoutes', grpcRoutes, key),
         Visited(key)' <=> Visited(key), ~Visiting(key)'
  PROVE  SecuredPhase(key)' /\ SplitPhase(key)'
<1>1. /\ Secure(key)' <=> Secure(key)
      /\ \A m, grpc : Wants(key, m, grpc)' <=> Wants(key, m, grpc)
      /\ \A routes, n : Served(routes, key, n)' <=> Served(routes, key, n)
      /\ pir' = pir
  BY QuestionsStay
<1>2. SecuredPhase(key)'
  BY <1>1 DEF SecuredPhase, SameRoute
<1>3. \A n : /\ Served(grpcRoutes, key, n)' <=> Served(grpcRoutes, key, n)
             /\ Served(httpRoutes, key, n)' <=> Served(httpRoutes, key, n)
  BY <1>1, ServedThere DEF Served
<1>4. InPlace(httpRoutes[key], pir[key].rules) /\ key \in DOMAIN httpRoutes
        => InPlace(httpRoutes'[key], pir'[key].rules)
  BY <1>1 DEF SameRoute
<1>5. SplitPhase(key)'
  <2>1. ASSUME step' = 16, ~Visited(key)'
        PROVE  /\ key \notin DOMAIN grpcRoutes'
               /\ key \in DOMAIN httpRoutes' => InPlace(httpRoutes'[key], pir'[key].rules)
    BY <1>4, <2>1 DEF SplitPhase, SameRoute
  <2>2. ASSUME (step' = 16 /\ Visited(key)') \/ step' > 16, key \notin DOMAIN tlsRoutes', NEW n \in DOMAIN pir[key].rules
        PROVE  /\ Served(grpcRoutes, key, n)' <=> Wants(key, n, TRUE)'
               /\ Served(httpRoutes, key, n)' <=> Wants(key, n, FALSE)'
    BY <1>1, <1>3, <2>2 DEF SplitPhase, SameRoute
  <2> QED
    BY <1>1, <2>1, <2>2 DEF SplitPhase
<1> QED
  BY <1>2, <1>5

\* A route that is visited.
LEMMA PhasesVisiting ==
  ASSUME UNCHANGED inputs, step' = step, step \in {15, 16}, NEW key, SecuredPhase(key), SplitPhase(key),
         UNCHANGED <<httpRoutes, tlsRoutes, grpcRoutes>>, ~Visited(key), ~Visited(key)',
         step = 15 => IF passthrough' THEN Secure(key) ELSE ~SecureSeen(key)',
         step = 16 => Collects(grpcRules, key, TRUE)' /\ Collects(httpRules, key, FALSE)'
  PROVE  SecuredPhase(key)' /\ SplitPhase(key)'
<1>1. pir' = pir /\ (Secure(key)' <=> Secure(key))
  BY QuestionsStay
<1>2. CASE step = 15
  <2>1. step' = 15 /\ ~(step' > 15) /\ ~(step' > 16) /\ step' # 16
    BY <1>2
  <2>2. key \notin DOMAIN tlsRoutes'
    BY <1>2 DEF SecuredPhase
  <2>3. SecuredPhase(key)'
    BY <1>1, <1>2, <2>1, <2>2 DEF SecuredPhase
  <2>4. SplitPhase(key)'
    BY <2>1 DEF SplitPhase
  <2> QED
    BY <2>3, <2>4
<1>3. CASE step = 16
  <2>1. step' = 16 /\ step > 15 /\ ~(step' > 16) /\ step' # 15
    BY <1>3
  <2>2. SecuredPhase(key)'
    BY <1>1, <2>1 DEF SecuredPhase
  <2>3. key \notin DOMAIN grpcRoutes' /\ (key \in DOMAIN httpRoutes' => InPlace(httpRoutes'[key], pir'[key].rules))
    BY <1>1, <1>3 DEF SplitPhase
  <2>4. SplitPhase(key)'
    BY <1>3, <2>1, <2>3 DEF SplitPhase
  <2> QED
    BY <2>2, <2>4
<1> QED
  BY <1>2, <1>3

LEMMA PhasesAt ==
  ASSUME ProtocolInv, NoHeaderCanaries, step \in {15, 16}, NEW key \in DOMAIN pir, OneGroup(key)
  PROVE  /\ SecuredPhase(key) /\ SplitPhase(key)
         /\ InputsInv /\ LoopInv /\ WhereInv /\ ConversionInv
         /\ step = 15 /\ key \in DOMAIN httpRoutes => InPlace(httpRoutes[key], pir[key].rules)
         /\ group # Nothing => group \notin pending
<1>1. step # Panicked
  BY DEF Panicked
<1>2. SecuredPhase(key) /\ SplitPhase(key)
  BY <1>1 DEF ProtocolInv, PhasesInv
<1>3. step = 15 => RulesInPlace
  BY DEF ProtocolInv, NoShift
<1> QED
  BY <1>2, <1>3 DEF ProtocolInv, ConversionInv, RulesInPlace, InPlace

LEMMA VisitPhases ==
  ASSUME ProtocolInv, NoHeaderCanaries, NEW key \in DOMAIN pir, OneGroup(key), VisitRoute
  PROVE  SecuredPhase(key)' /\ SplitPhase(key)'
<1>1. /\ VisitGroup(ConversionParsers) /\ step' = step /\ UNCHANGED inputs
      /\ UNCHANGED <<httpRoutes, tlsRoutes, grpcRoutes>>
      /\ passthrough' = FALSE /\ grpcRules' = <<>> /\ httpRules' = <<>>
  BY DEF VisitRoute, VisitGroup
<1>2. step \in {15, 16}
  BY <1>1, StepNumbers DEF VisitGroup
<1>3. /\ SecuredPhase(key) /\ SplitPhase(key) /\ InputsInv /\ LoopInv /\ WhereInv
  BY <1>2, PhasesAt
<1>4. UNCHANGED pir /\ \A m : All(key, m)' = All(key, m)
  BY <1>1, QuestionsStay
<1>5. CASE Visiting(key)' /\ ~Visited(key)' /\ ~Visited(key) /\ i' = 1 /\ j' = 1 /\ key \in DOMAIN httpRoutes
  <2>1. \A m \in DOMAIN pir[key].rules : \A x \in All(key, m) : ~Seen(m, x)'
    <3> SUFFICES ASSUME NEW m \in DOMAIN pir[key].rules, NEW x \in All(key, m)
                 PROVE  ~(m < 1) /\ ~(x < 1)
      BY <1>5 DEF Seen
    <3> DEFINE rules == Len(pir[key].rules)  sources == Len(pir[key].rules[m].sources)
    <3>1. m \in 1..rules /\ rules \in Nat /\ x \in 1..sources /\ sources \in Nat
      BY <1>3, SourcesSeen
    <3> HIDE DEF rules, sources
    <3> QED
      BY <3>1
  <2>2. ~SecureSeen(key)' /\ \A m, grpc : m \in DOMAIN pir[key].rules => ~WantsSeen(key, m, grpc)'
    BY <1>4, <2>1 DEF SecureSeen, WantsSeen
  <2>3. ToSet(<<>>) = {}
    BY DEF ToSet
  <2>4. Collects(grpcRules, key, TRUE)' /\ Collects(httpRules, key, FALSE)'
    BY <1>1, <1>4, <2>2, <2>3 DEF Collects
  <2> QED
    BY <1>1, <1>2, <1>3, <1>5, <2>2, <2>4, PhasesVisiting
<1>6. CASE ~Visiting(key)' /\ (Visited(key)' <=> Visited(key))
  BY <1>1, <1>3, <1>6, PhasesStay DEF SameRoute
<1>7. CASE ~Visiting(key)' /\ Visited(key)' /\ ~Visited(key) /\ key \notin DOMAIN httpRoutes
  <2>1. key \in DOMAIN tlsRoutes
    BY <1>2, <1>3, <1>7 DEF WhereInv, SecuredPhase, SplitPhase
  <2>2. step = 16
    BY <1>2, <1>3, <1>7, <2>1 DEF SecuredPhase
  <2>3. SecuredPhase(key)'
    BY <1>1, <1>3, <1>7, <2>2, QuestionsStay DEF SecuredPhase
  <2> QED
    BY <1>1, <1>7, <2>1, <2>2, <2>3 DEF SplitPhase
<1> QED
  BY <1>1, <1>3, <1>5, <1>6, <1>7, GroupStarts

\* A step within a visit.
Within == UNCHANGED inputs /\ UNCHANGED <<httpRoutes, tlsRoutes, grpcRoutes>> /\ UNCHANGED <<step, pending, group>>

LEMMA RulePhases ==
  ASSUME ProtocolInv, NoHeaderCanaries, NEW key \in DOMAIN pir, OneGroup(key),
         NextRule(ConversionParsers), UNCHANGED conversionVars
  PROVE  SecuredPhase(key)' /\ SplitPhase(key)'
<1>1. Within /\ UNCHANGED <<passthrough, grpcRules, httpRules>>
  BY DEF Within, NextRule, conversionVars
<1>2. step \in {15, 16} /\ group # Nothing
  BY StepNumbers DEF NextRule, AtRule, Running
<1>3. /\ SecuredPhase(key) /\ SplitPhase(key) /\ InputsInv /\ LoopInv
  BY <1>2, PhasesAt
<1>4. /\ (Visiting(key)' <=> Visiting(key)) /\ (Visited(key)' <=> Visited(key))
  BY <1>1, GroupStays DEF Within
<1>5. CASE ~Visiting(key)
  BY <1>1, <1>3, <1>4, <1>5, PhasesStay DEF SameRoute, Within
<1>6. CASE Visiting(key)
  <2>1. Key = key
    BY <1>6 DEF Visiting
  <2>2. \A m \in DOMAIN pir[key].rules : \A x \in All(key, m) : Seen(m, x)' <=> Seen(m, x)
    BY <1>2, <1>3, <2>1, RuleSeen DEF NextRule
  <2>3. /\ \A m : All(key, m)' = All(key, m)
        /\ \A m, x : AnnotationsAt(key, m, x)' = AnnotationsAt(key, m, x)
        /\ pir' = pir /\ (Secure(key)' <=> Secure(key))
    BY <1>1, QuestionsStay DEF Within
  <2>4. (SecureSeen(key)' <=> SecureSeen(key))
    BY <2>2, <2>3 DEF SecureSeen
  <2>5. \A grpc : \A m \in DOMAIN pir[key].rules : WantsSeen(key, m, grpc)' <=> WantsSeen(key, m, grpc)
    BY <2>2, <2>3 DEF WantsSeen
  <2>6. step = 15 => IF passthrough' THEN Secure(key) ELSE ~SecureSeen(key)'
    BY <1>1, <1>3, <1>6, <2>4 DEF SecuredPhase
  <2>7. step = 16 => Collects(grpcRules, key, TRUE)' /\ Collects(httpRules, key, FALSE)'
    BY <1>1, <1>3, <1>6, <2>3, <2>5 DEF SplitPhase, Collects
  <2>8. ~Visited(key)
    BY <1>3, <1>6, VisitedOnce
  <2> QED
    BY <1>1, <1>2, <1>3, <1>4, <2>6, <2>7, <2>8, PhasesVisiting DEF Within
<1> QED
  BY <1>5, <1>6

\* A route that one group names has every rule of the provider IR when that
\* group is visited.
LEMMA MissingPhases ==
  ASSUME ProtocolInv, NoHeaderCanaries, NEW key \in DOMAIN pir, OneGroup(key),
         MissingRule(ConversionParsers), UNCHANGED conversionVars
  PROVE  SecuredPhase(key)' /\ SplitPhase(key)'
<1>1. Within
  BY DEF Within, MissingRule, conversionVars
<1>2. step \in {15, 16} /\ group # Nothing
  BY StepNumbers DEF MissingRule, Running
<1>3. /\ SecuredPhase(key) /\ SplitPhase(key) /\ InputsInv /\ LoopInv /\ ConversionInv
      /\ step = 15 /\ key \in DOMAIN httpRoutes => InPlace(httpRoutes[key], pir[key].rules)
  BY <1>2, PhasesAt
<1>4. /\ (Visiting(key)' <=> Visiting(key)) /\ (Visited(key)' <=> Visited(key))
  BY <1>1, GroupStays DEF Within
<1>5. CASE ~Visiting(key)
  BY <1>1, <1>3, <1>4, <1>5, PhasesStay DEF SameRoute, Within
<1>6. CASE Visiting(key)
  <2>1. Key = key /\ Key \in DOMAIN httpRoutes /\ ~Visited(key)
    BY <1>2, <1>3, <1>6, VisitedOnce DEF Visiting, LoopInv
  <2>2. InPlace(Route, pir[Key].rules)
    BY <1>2, <1>3, <2>1 DEF SplitPhase, Route
  <2>3. i \in Nat \ {0} /\ i <= Len(Sources) /\ i > Len(Route.rules)
    BY <1>3 DEF MissingRule, LoopInv
  <2>4. i \in DOMAIN pir[Key].rules
    <3> DEFINE rules == pir[Key].rules
    <3>1. DOMAIN rules = 1..Len(rules) /\ Len(rules) \in Nat
      BY <1>3, <2>1, SourcesSeen
    <3>2. DOMAIN Sources = DOMAIN rules /\ Sources = [n \in 1..Len(rules) |-> Sources[n]]
      BY <3>1 DEF Sources
    <3> HIDE DEF rules
    <3>3. Len(Sources) = Len(rules)
      BY <3>1, <3>2, FunctionIsSeq
    <3>4. i \in 1..Len(rules)
      BY <2>3, <3>1, <3>3
    <3> QED
      BY <3>1, <3>4 DEF rules
  <2>5. i \in DOMAIN Route.rules
    BY <2>2, <2>4 DEF InPlace
  <2>6. DOMAIN Route.rules = 1..Len(Route.rules) /\ Len(Route.rules) \in Nat
    BY <1>3, <2>1, IsSeqShape DEF ConversionInv, PartsInv, IsPartOf, Route
  <2> QED
    BY <2>3, <2>5, <2>6
<1> QED
  BY <1>5, <1>6

LEMMA LookPhases ==
  ASSUME ProtocolInv, NoHeaderCanaries, NEW key \in DOMAIN pir, OneGroup(key), LookForPassthrough
  PROVE  SecuredPhase(key)' /\ SplitPhase(key)'
<1>1. Within /\ AtSource({"sslPassthrough"})
  BY DEF Within, LookForPassthrough
<1>2. step = 15 /\ group # Nothing
  BY <1>1, StepNumbers DEF AtSource, AtRule, Running
<1>3. /\ SecuredPhase(key) /\ SplitPhase(key) /\ InputsInv /\ LoopInv
  BY <1>2, PhasesAt
<1>4. /\ (Visiting(key)' <=> Visiting(key)) /\ (Visited(key)' <=> Visited(key))
  BY <1>1, GroupStays DEF Within
<1>5. CASE ~Visiting(key)
  BY <1>1, <1>3, <1>4, <1>5, PhasesStay DEF SameRoute, Within
<1>6. CASE Visiting(key)
  <2>1. Key = key /\ ~Visited(key)
    BY <1>3, <1>6, VisitedOnce DEF Visiting
  <2>2. IF passthrough THEN Secure(key) ELSE ~SecureSeen(key)
    BY <1>2, <1>3, <1>6 DEF SecuredPhase
  <2>3. /\ \A m : All(key, m)' = All(key, m)
        /\ \A m, x : AnnotationsAt(key, m, x)' = AnnotationsAt(key, m, x)
        /\ pir' = pir
    BY <1>1, QuestionsStay DEF Within
  <2>4. IF passthrough' THEN Secure(key) ELSE ~SecureSeen(key)'
    <3>1. CASE Get(annotations[Source.ing], "ssl-passthrough") = True
      <4>1. passthrough'
        BY <3>1 DEF LookForPassthrough
      <4>2. i \in DOMAIN pir[Key].rules /\ j \in All(Key, i) /\ Source = SourceAt(Key, i, j)
        BY <1>1, <1>3, AtSourceFacts DEF All, SourceAt
      <4>3. Secure(key)
        BY <2>1, <3>1, <4>2 DEF Secure, AnnotationsAt, IsPassthrough
      <4> QED
        BY <4>1, <4>3
    <3>2. CASE Get(annotations[Source.ing], "ssl-passthrough") # True
      <4>1. passthrough' = passthrough /\ j' = j + 1 /\ i' = i
        BY <3>2 DEF LookForPassthrough
      <4>2. /\ Source = SourceAt(Key, i, j)
            /\ \A m \in DOMAIN pir[Key].rules : \A x \in All(Key, m) :
                 Seen(m, x)' <=> Seen(m, x) \/ (m = i /\ x = j)
        BY <1>1, <1>2, <1>3, <4>1, SourceSeen
      <4>3. ~IsPassthrough(AnnotationsAt(key, i, j))
        BY <2>1, <3>2, <4>2 DEF AnnotationsAt, IsPassthrough
      <4>4. SecureSeen(key)' => SecureSeen(key)
        BY <2>1, <2>3, <4>2, <4>3 DEF SecureSeen
      <4> QED
        BY <2>2, <4>1, <4>4
    <3> QED
      BY <3>1, <3>2
  <2>5. /\ step = 15 => IF passthrough' THEN Secure(key) ELSE ~SecureSeen(key)'
        /\ step = 16 => Collects(grpcRules, key, TRUE)' /\ Collects(httpRules, key, FALSE)'
    BY <1>2, <2>4
  <2>6. ~Visited(key) /\ ~Visited(key)' /\ step' = step /\ step \in {15, 16}
    BY <1>1, <1>2, <1>4, <2>1 DEF Within
  <2>7. UNCHANGED inputs /\ UNCHANGED <<httpRoutes, tlsRoutes, grpcRoutes>>
    BY <1>1 DEF Within
  <2>8. SecuredPhase(key) /\ SplitPhase(key)
    BY <1>3
  <2> QED
    BY <2>5, <2>6, <2>7, <2>8, PhasesVisiting
<1> QED
  BY <1>5, <1>6

LEMMA CollectPhases ==
  ASSUME ProtocolInv, NoHeaderCanaries, NEW key \in DOMAIN pir, OneGroup(key), CollectRule
  PROVE  SecuredPhase(key)' /\ SplitPhase(key)'
<1>1. Within /\ AtSource({"backendProtocol"}) /\ i' = i /\ j' = j + 1
  BY DEF Within, CollectRule, NextSource
<1>2. step = 16 /\ group # Nothing
  BY <1>1, StepNumbers DEF AtSource, AtRule, Running
<1>3. /\ SecuredPhase(key) /\ SplitPhase(key) /\ InputsInv /\ LoopInv /\ ConversionInv
  BY <1>2, PhasesAt
<1>4. /\ (Visiting(key)' <=> Visiting(key)) /\ (Visited(key)' <=> Visited(key))
  BY <1>1, GroupStays DEF Within
<1>5. CASE ~Visiting(key)
  BY <1>1, <1>3, <1>4, <1>5, PhasesStay DEF SameRoute, Within
<1>6. CASE Visiting(key)
  <2>1. Key = key /\ ~Visited(key)
    BY <1>3, <1>6, VisitedOnce DEF Visiting
  <2>2. Collects(grpcRules, key, TRUE) /\ Collects(httpRules, key, FALSE)
    BY <1>2, <1>3, <1>6 DEF SplitPhase
  <2>3. /\ \A m : All(key, m)' = All(key, m)
        /\ \A m, x : AnnotationsAt(key, m, x)' = AnnotationsAt(key, m, x)
        /\ pir' = pir
    BY <1>1, QuestionsStay DEF Within
  <2>4. /\ i \in DOMAIN pir[key].rules /\ j \in All(key, i) /\ Source = SourceAt(key, i, j)
        /\ \A m \in DOMAIN pir[key].rules : \A x \in All(key, m) :
             Seen(m, x)' <=> Seen(m, x) \/ (m = i /\ x = j)
    BY <1>1, <1>2, <1>3, <2>1, SourceSeen
  <2>5. \A grpc : \A m \in DOMAIN pir[key].rules :
          WantsSeen(key, m, grpc)' <=> WantsSeen(key, m, grpc)
                                       \/ (m = i /\ (IsGRPC(AnnotationsAt(key, i, j)) <=> grpc))
    BY <2>3, <2>4 DEF WantsSeen
  <2>6. IsCollected(grpcRules, Route) /\ IsCollected(httpRules, Route)
    BY <1>2, <1>3 DEF ConversionInv, CollectedInv
  <2>7. \A indices : IsSeq(indices) => ToSet(Append(indices, i)) = ToSet(indices) \union {i}
    <3> SUFFICES ASSUME NEW indices, IsSeq(indices)
                 PROVE  ToSet(Append(indices, i)) = ToSet(indices) \union {i}
      OBVIOUS
    <3> DEFINE new == Append(indices, i)  z == Len(indices) + 1
    <3>1. /\ DOMAIN new = 1..z /\ new[z] = i /\ \A n \in 1..Len(indices) : new[n] = indices[n]
      BY AppendSeq
    <3>2. Len(indices) \in Nat /\ DOMAIN indices = 1..Len(indices)
      BY IsSeqShape
    <3>3. /\ z \in DOMAIN new /\ DOMAIN indices \subseteq DOMAIN new
          /\ \A n \in DOMAIN new : n = z \/ n \in DOMAIN indices
      BY <3>1, <3>2
    <3> HIDE DEF new, z
    <3>4. ToSet(new) = ToSet(indices) \union {i}
      BY <3>1, <3>2, <3>3 DEF ToSet
    <3> QED
      BY <3>4 DEF new
  <2>8. IsGRPC(annotations[Source.ing]) <=> IsGRPC(AnnotationsAt(key, i, j))
    BY <2>4 DEF AnnotationsAt
  <2>9. Collects(grpcRules, key, TRUE)' /\ Collects(httpRules, key, FALSE)'
    <3>1. CASE IsGRPC(annotations[Source.ing])
      <4>1. grpcRules' = Append(grpcRules, i) /\ httpRules' = httpRules
        BY <3>1 DEF CollectRule
      <4>2. ToSet(grpcRules') = ToSet(grpcRules) \union {i}
        BY <2>6, <2>7, <4>1 DEF IsCollected
      <4> QED
        BY <2>2, <2>3, <2>4, <2>5, <2>8, <3>1, <4>1, <4>2 DEF Collects
    <3>2. CASE ~IsGRPC(annotations[Source.ing])
      <4>1. httpRules' = Append(httpRules, i) /\ grpcRules' = grpcRules
        BY <3>2 DEF CollectRule
      <4>2. ToSet(httpRules') = ToSet(httpRules) \union {i}
        BY <2>6, <2>7, <4>1 DEF IsCollected
      <4> QED
        BY <2>2, <2>3, <2>4, <2>5, <2>8, <3>2, <4>1, <4>2 DEF Collects
    <3> QED
      BY <3>1, <3>2
  <2>10. /\ step = 15 => IF passthrough' THEN Secure(key) ELSE ~SecureSeen(key)'
         /\ step = 16 => Collects(grpcRules, key, TRUE)' /\ Collects(httpRules, key, FALSE)'
    <3>1. step # 15
      BY <1>2
    <3> QED
      BY <2>9, <3>1
  <2>11. ~Visited(key) /\ ~Visited(key)' /\ step' = step /\ step \in {15, 16}
    BY <1>1, <1>2, <1>4, <2>1 DEF Within
  <2>12. UNCHANGED inputs /\ UNCHANGED <<httpRoutes, tlsRoutes, grpcRoutes>>
    BY <1>1 DEF Within
  <2>13. SecuredPhase(key) /\ SplitPhase(key)
    BY <1>3
  <2> QED
    BY <2>10, <2>11, <2>12, <2>13, PhasesVisiting
<1> QED
  BY <1>5, <1>6

LEMMA ParserPhases ==
  ASSUME ProtocolInv, NoHeaderCanaries, NEW key \in DOMAIN pir, OneGroup(key),
         NextParser(ConversionParsers), UNCHANGED conversionVars
  PROVE  SecuredPhase(key)' /\ SplitPhase(key)'
<1>1. /\ UNCHANGED inputs /\ UNCHANGED <<httpRoutes, tlsRoutes, grpcRoutes>> /\ step' = step + 1
  BY DEF NextParser, conversionVars
<1>2. step \in {15, 16}
  BY StepNumbers DEF NextParser
<1>3. /\ SecuredPhase(key) /\ SplitPhase(key) /\ InputsInv /\ LoopInv /\ WhereInv
      /\ step = 15 /\ key \in DOMAIN httpRoutes => InPlace(httpRoutes[key], pir[key].rules)
  BY <1>2, PhasesAt
<1>4. Visited(key) /\ ~Visiting(key) /\ ~Visited(key)' /\ ~Visiting(key)'
  BY <1>1, <1>3, GroupsOver
<1>5. /\ pir' = pir /\ (Secure(key)' <=> Secure(key))
      /\ \A m, grpc : Wants(key, m, grpc)' <=> Wants(key, m, grpc)
      /\ \A routes, n : Served(routes, key, n)' <=> Served(routes, key, n)
  BY <1>1, QuestionsStay
<1>6. SecuredPhase(key)'
  <2>1. (step = 15 /\ Visited(key)) \/ step > 15
    BY <1>2, <1>4
  <2>2. key \in DOMAIN tlsRoutes <=> Secure(key)
    BY <1>3, <2>1 DEF SecuredPhase
  <2>3. step' # 15
    BY <1>1, <1>2
  <2> QED
    BY <1>1, <1>5, <2>2, <2>3 DEF SecuredPhase
<1>7. CASE step = 15
  <2>1. step' = 16 /\ ~(step' > 16)
    BY <1>1, <1>7
  <2>2. key \notin DOMAIN grpcRoutes'
    BY <1>1, <1>3, <1>7 DEF WhereInv
  <2>3. key \in DOMAIN httpRoutes' => InPlace(httpRoutes'[key], pir'[key].rules)
    BY <1>1, <1>3, <1>5, <1>7
  <2>4. SplitPhase(key)'
    BY <1>4, <2>1, <2>2, <2>3 DEF SplitPhase
  <2> QED
    BY <1>6, <2>4
<1>8. CASE step = 16
  <2>1. step' = 17 /\ step' # 16
    BY <1>1, <1>8
  <2>2. key \notin DOMAIN tlsRoutes =>
          \A n \in DOMAIN pir[key].rules :
            /\ Served(grpcRoutes, key, n) <=> Wants(key, n, TRUE)
            /\ Served(httpRoutes, key, n) <=> Wants(key, n, FALSE)
    BY <1>3, <1>4, <1>8 DEF SplitPhase
  <2>3. \A n : /\ Served(grpcRoutes, key, n)' <=> Served(grpcRoutes, key, n)
               /\ Served(httpRoutes, key, n)' <=> Served(httpRoutes, key, n)
    BY <1>1, <1>5 DEF Served
  <2>4. SplitPhase(key)'
    BY <1>1, <1>5, <2>1, <2>2, <2>3 DEF SplitPhase
  <2> QED
    BY <1>6, <2>4
<1> QED
  BY <1>2, <1>7, <1>8

LEMMA SamePhases ==
  ASSUME NEW key, SecuredPhase(key), SplitPhase(key), UNCHANGED vars
  PROVE  SecuredPhase(key)' /\ SplitPhase(key)'
<1>1. /\ UNCHANGED inputs /\ UNCHANGED <<httpRoutes, tlsRoutes, grpcRoutes>>
      /\ UNCHANGED <<step, pending, group, i, j, passthrough, grpcRules, httpRules>>
  BY DEF vars, featureVars, conversionVars, loopVars
<1>2. /\ Secure(key)' <=> Secure(key)
      /\ \A m, grpc : Wants(key, m, grpc)' <=> Wants(key, m, grpc)
      /\ \A routes, n : Served(routes, key, n)' <=> Served(routes, key, n)
      /\ \A m : All(key, m)' = All(key, m)
      /\ \A m, x : AnnotationsAt(key, m, x)' = AnnotationsAt(key, m, x)
      /\ pir' = pir
  BY <1>1, QuestionsStay
<1>3. (Visiting(key)' <=> Visiting(key)) /\ (Visited(key)' <=> Visited(key))
  BY <1>1, GroupStays
<1>4. \A m, x : Seen(m, x)' <=> Seen(m, x)
  BY <1>1 DEF Seen
<1>5. (SecureSeen(key)' <=> SecureSeen(key)) /\ \A m, grpc : WantsSeen(key, m, grpc)' <=> WantsSeen(key, m, grpc)
  BY <1>2, <1>4 DEF SecureSeen, WantsSeen
<1>6. SecuredPhase(key)'
  BY <1>1, <1>2, <1>3, <1>5 DEF SecuredPhase
<1>7. Collects(grpcRules, key, TRUE) /\ Collects(httpRules, key, FALSE)
        => Collects(grpcRules, key, TRUE)' /\ Collects(httpRules, key, FALSE)'
  BY <1>1, <1>2, <1>5 DEF Collects
<1>8. \A n : /\ Served(grpcRoutes, key, n)' <=> Served(grpcRoutes, key, n)
             /\ Served(httpRoutes, key, n)' <=> Served(httpRoutes, key, n)
  BY <1>1, <1>2 DEF Served
<1>9. SplitPhase(key)'
  BY <1>1, <1>2, <1>3, <1>7, <1>8 DEF SplitPhase
<1> QED
  BY <1>6, <1>9

LEMMA LeadingPhases ==
  ASSUME ProtocolInv, Leading
  PROVE  PhasesInv'
<1> SUFFICES ASSUME NoHeaderCanaries', step' # Panicked, NEW key \in DOMAIN pir', OneGroup(key)'
             PROVE  SecuredPhase(key)' /\ SplitPhase(key)'
  BY DEF PhasesInv
<1>1. NoHeaderCanaries /\ key \in DOMAIN pir /\ OneGroup(key)
  BY LeadingEffect, QuestionsStay
<1>2. CASE UNCHANGED vars
  <2>1. step # Panicked
    BY <1>2 DEF vars, featureVars, loopVars
  <2>2. SecuredPhase(key) /\ SplitPhase(key)
    BY <1>1, <2>1 DEF ProtocolInv, PhasesInv
  <2> QED
    BY <1>2, <2>2, SamePhases
<1> QED
  BY <1>1, <1>2, VisitPhases, RulePhases, MissingPhases, LookPhases, CollectPhases, ParserPhases DEF Leading

(***************************************************************************)
(* The end of a visit                                                      *)
(***************************************************************************)
LEMMA PassthroughPhases ==
  ASSUME ProtocolInv, FinishPassthrough
  PROVE  PhasesInv'
<1> SUFFICES ASSUME NoHeaderCanaries', step' # Panicked, NEW key \in DOMAIN pir', OneGroup(key)'
             PROVE  SecuredPhase(key)' /\ SplitPhase(key)'
  BY DEF PhasesInv
<1>1. /\ UNCHANGED inputs /\ UNCHANGED grpcRoutes /\ group # Nothing /\ step = 15
      /\ \/ /\ ~passthrough /\ UNCHANGED <<httpRoutes, gateways, tlsRoutes, step, pending>>
            /\ group' = Nothing /\ i' = 1 /\ j' = 1
         \/ /\ UNCHANGED <<httpRoutes, gateways, tlsRoutes>>
            /\ step' = Panicked /\ UNCHANGED <<pending, group, i, j>>
         \/ PassesThrough
  BY PassthroughEffect
<1>2. NoHeaderCanaries /\ key \in DOMAIN pir /\ OneGroup(key) /\ (Secure(key)' <=> Secure(key))
  BY <1>1, QuestionsStay
<1>3. /\ SecuredPhase(key) /\ SplitPhase(key) /\ InputsInv /\ LoopInv /\ group \notin pending
      /\ Key \in DOMAIN httpRoutes
  BY <1>1, <1>2, PhasesAt DEF LoopInv
<1>4. step' = 15 /\ group' = Nothing /\ pending' = pending
  BY <1>1 DEF PassesThrough
<1>5. ~Visiting(key)' /\ (Visited(key)' <=> Visited(key) \/ Visiting(key))
  BY <1>1, <1>3, <1>4, GroupEnds
<1>6. CASE ~Visiting(key)
  <2>1. key # Key
    BY <1>1, <1>6 DEF Visiting
  <2>2. SameRoute(httpRoutes', httpRoutes, key) /\ SameRoute(tlsRoutes', tlsRoutes, key)
    <3>1. CASE UNCHANGED <<httpRoutes, tlsRoutes>>
      BY <3>1 DEF SameRoute
    <3>2. CASE PassesThrough
      <4>1. httpRoutes' = RemoveKey(httpRoutes, Key)
        BY <3>2 DEF PassesThrough
      <4>2. PICK rt : tlsRoutes' = Put(tlsRoutes, Key, rt)
        BY <3>2 DEF PassesThrough
      <4> QED
        BY <2>1, <4>1, <4>2 DEF SameRoute, Put, RemoveKey
    <3> QED
      BY <1>1, <3>1, <3>2
  <2>3. SameRoute(grpcRoutes', grpcRoutes, key)
    BY <1>1 DEF SameRoute
  <2> QED
    BY <1>1, <1>3, <1>4, <1>5, <1>6, <2>2, <2>3, PhasesStay
<1>7. CASE Visiting(key)
  <2>1. Key = key /\ Visited(key)'
    BY <1>5, <1>7 DEF Visiting
  <2>2. key \in DOMAIN tlsRoutes' <=> Secure(key)
    <3>1. CASE ~passthrough /\ UNCHANGED tlsRoutes
      <4>1. ~SecureSeen(key) /\ key \notin DOMAIN tlsRoutes
        BY <1>1, <1>3, <1>7, <3>1, <1>2, VisitedOnce DEF SecuredPhase
      <4>2. \A m \in DOMAIN pir[key].rules : \A x \in All(key, m) : Seen(m, x)
        BY <1>1, <1>3, <2>1, AllSeen DEF FinishPassthrough
      <4> QED
        BY <3>1, <4>1, <4>2 DEF Secure, SecureSeen
    <3>2. CASE PassesThrough
      <4>1. PICK rt : tlsRoutes' = Put(tlsRoutes, Key, rt)
        BY <3>2 DEF PassesThrough
      <4>2. Secure(key)
        BY <1>1, <1>3, <1>7, <3>2 DEF SecuredPhase, PassesThrough
      <4> QED
        BY <2>1, <4>1, <4>2 DEF Put
    <3> QED
      BY <1>1, <1>4, <3>1, <3>2 DEF Panicked
  <2>3. SecuredPhase(key)'
    BY <1>2, <1>5, <2>1, <2>2 DEF SecuredPhase
  <2>4. SplitPhase(key)'
    <3>1. step' # 16 /\ ~(step' > 16)
      BY <1>4
    <3> QED
      BY <3>1 DEF SplitPhase
  <2> QED
    BY <2>3, <2>4
<1> QED
  BY <1>6, <1>7

\* A TLSRoute has every rule of the provider IR with its backends.
LEMMA PassthroughSecured ==
  ASSUME ProtocolInv, FinishPassthrough
  PROVE  SecuredInv'
<1> SUFFICES ASSUME NoHeaderCanaries', NEW key \in DOMAIN tlsRoutes', NEW n \in DOMAIN pir'[key].rules
             PROVE  Secured(key, n)'
  BY DEF SecuredInv
<1>1. /\ UNCHANGED inputs /\ step = 15 /\ group # Nothing
      /\ UNCHANGED tlsRoutes \/ PassesThrough
  BY PassthroughEffect
<1>2. NoHeaderCanaries /\ pir' = pir
  BY <1>1, QuestionsStay
<1>3. CASE key \in DOMAIN tlsRoutes /\ tlsRoutes'[key] = tlsRoutes[key]
  BY <1>2, <1>3 DEF ProtocolInv, SecuredInv, Secured, RulesIn
<1>4. CASE PassesThrough /\ key = Key
  <2> DEFINE name == TLSListener(ParentGateway(Route), Route.host)
  <2>1. tlsRoutes' = Put(tlsRoutes, Key, TLSRoute(Route, name))
    BY <1>4 DEF PassesThrough
  <2> HIDE DEF name
  <2>2. tlsRoutes'[key] = TLSRoute(Route, name)
    BY <1>4, <2>1 DEF Put
  <2>3. Key \in DOMAIN httpRoutes /\ IsPartOf(Route, pir[Key].rules)
    BY <1>1 DEF ProtocolInv, ConversionInv, LoopInv, PartsInv, Route
  <2>4. n \in DOMAIN Route.rules /\ Route.rules[n].from = n /\ BackendSources(Route.rules[n]) = pir[key].rules[n].sources
    BY <1>1, <1>2, <1>4, <2>3 DEF ProtocolInv, NoShift, RulesInPlace, Route
  <2> DEFINE rules == TLSRoute(Route, name).rules
  <2>5. n \in DOMAIN rules /\ rules[n].from = n /\ rules[n].backends = pir[key].rules[n].sources
    BY <2>3, <2>4, TLSRouteShape
  <2>6. tlsRoutes'[key].rules = rules
    BY <2>2
  <2> HIDE DEF rules
  <2> QED
    BY <1>2, <2>5, <2>6 DEF Secured, RulesIn, ToSet
<1>5. CASE PassesThrough /\ key # Key
  <2>1. PICK rt : tlsRoutes' = Put(tlsRoutes, Key, rt)
    BY <1>5 DEF PassesThrough
  <2> QED
    BY <1>3, <1>5, <2>1 DEF Put
<1> QED
  BY <1>1, <1>3, <1>4, <1>5

\* Of the rules that are where they were, those at the indices are in the route
\* made of them, and no other.
LEMMA SplitServed ==
  ASSUME NEW rt, NEW provided, InPlace(rt, provided), NEW indices, ToSet(indices) \subseteq DOMAIN provided,
         NEW rules, DOMAIN rules = DOMAIN indices,
         \A q \in DOMAIN rules : /\ rules[q].from = rt.rules[indices[q]].from
                                 /\ rules[q].backends = rt.rules[indices[q]].backends,
         NEW n \in DOMAIN provided
  PROVE  (\E rule \in ToSet(rules) : rule.from = n /\ BackendSources(rule) = provided[n].sources)
           <=> n \in ToSet(indices)
<1>1. \A q \in DOMAIN rules : indices[q] \in DOMAIN provided
  BY DEF ToSet
<1>2. \A q \in DOMAIN rules :
        /\ rules[q].from = indices[q]
        /\ BackendSources(rules[q]) = provided[indices[q]].sources
  BY <1>1 DEF InPlace, BackendSources
<1>3. ASSUME NEW rule \in ToSet(rules), rule.from = n PROVE n \in ToSet(indices)
  <2>1. PICK q \in DOMAIN rules : rule = rules[q]
    BY <1>3 DEF ToSet
  <2> QED
    BY <1>2, <1>3, <2>1 DEF ToSet
<1>4. ASSUME n \in ToSet(indices)
      PROVE  \E rule \in ToSet(rules) : rule.from = n /\ BackendSources(rule) = provided[n].sources
  <2>1. PICK q \in DOMAIN rules : indices[q] = n
    BY <1>4 DEF ToSet
  <2>2. rules[q] \in ToSet(rules)
    BY <2>1 DEF ToSet
  <2> QED
    BY <1>2, <2>1, <2>2
<1> QED
  BY <1>3, <1>4

LEMMA SplitSides ==
  ASSUME ConversionInv, group # Nothing, step = 16, Splits, InPlace(Route, pir[Key].rules),
         ToSet(grpcRules) \subseteq DOMAIN pir[Key].rules, ToSet(httpRules) \subseteq DOMAIN pir[Key].rules,
         NEW n \in DOMAIN pir[Key].rules
  PROVE  /\ Served(grpcRoutes', Key, n) <=> n \in ToSet(grpcRules)
         /\ Served(httpRoutes', Key, n) <=> n \in ToSet(httpRules)
<1> DEFINE provided == pir[Key].rules
<1>1. /\ IsPartOf(Route, provided) /\ IsCollected(grpcRules, Route) /\ IsCollected(httpRules, Route)
      /\ \/ httpRules = <<>> /\ DOMAIN httpRoutes' = DOMAIN httpRoutes \ {Key}
         \/ /\ httpRules # <<>> /\ DOMAIN httpRoutes' = DOMAIN httpRoutes
            /\ \E order \in Orders(ToSet(httpRules)) :
                 httpRoutes'[Key] = HTTPRoute(Route, httpRules, order)
      /\ Key \in DOMAIN httpRoutes
  BY SplitEffect
<1>2. Served(grpcRoutes', Key, n) <=> n \in ToSet(grpcRules)
  <2>1. PICK order \in Orders(ToSet(grpcRules)) :
          /\ DOMAIN grpcRoutes' = DOMAIN grpcRoutes \union {Key}
          /\ grpcRoutes'[Key] = GRPCRoute(Route, grpcRules, order)
    BY SplitEffect
  <2> DEFINE rules == GRPCRoute(Route, grpcRules, order).rules
  <2>2. /\ DOMAIN rules = DOMAIN grpcRules
        /\ \A q \in DOMAIN rules : rules[q].from = Route.rules[grpcRules[q]].from
                                   /\ rules[q].backends = Route.rules[grpcRules[q]].backends
    BY <1>1, GRPCRouteShape
  <2>3. RulesIn(grpcRoutes', Key) = ToSet(rules)
    BY <2>1 DEF RulesIn
  <2> HIDE DEF rules
  <2>4. (\E rule \in ToSet(rules) : rule.from = n /\ BackendSources(rule) = provided[n].sources)
          <=> n \in ToSet(grpcRules)
    BY <2>2, SplitServed
  <2> QED
    BY <2>3, <2>4 DEF Served
<1>3. Served(httpRoutes', Key, n) <=> n \in ToSet(httpRules)
  <2>1. CASE httpRules = <<>> /\ DOMAIN httpRoutes' = DOMAIN httpRoutes \ {Key}
    <3>1. RulesIn(httpRoutes', Key) = {} /\ ToSet(httpRules) = {}
      BY <2>1 DEF RulesIn, ToSet
    <3> QED
      BY <3>1 DEF Served
  <2>2. ASSUME NEW order \in Orders(ToSet(httpRules)), DOMAIN httpRoutes' = DOMAIN httpRoutes,
               httpRoutes'[Key] = HTTPRoute(Route, httpRules, order)
        PROVE  Served(httpRoutes', Key, n) <=> n \in ToSet(httpRules)
    <3> DEFINE rules == RulesAt(Route, httpRules)
    <3>1. HTTPRoute(Route, httpRules, order).rules = rules
      BY <1>1, HTTPRouteShape
    <3>2. DOMAIN rules = DOMAIN httpRules /\ \A q \in DOMAIN httpRules : rules[q] = Route.rules[httpRules[q]]
      BY <1>1, RulesAtShape
    <3>3. RulesIn(httpRoutes', Key) = ToSet(rules)
      BY <1>1, <2>2, <3>1 DEF RulesIn
    <3> HIDE DEF rules
    <3>4. (\E rule \in ToSet(rules) : rule.from = n /\ BackendSources(rule) = provided[n].sources)
            <=> n \in ToSet(httpRules)
      BY <3>2, SplitServed
    <3> QED
      BY <3>3, <3>4 DEF Served
  <2> QED
    BY <1>1, <2>1, <2>2
<1> QED
  BY <1>2, <1>3

LEMMA ProtocolPhases ==
  ASSUME ProtocolInv, FinishProtocol
  PROVE  PhasesInv'
<1> SUFFICES ASSUME NoHeaderCanaries', step' # Panicked, NEW key \in DOMAIN pir', OneGroup(key)'
             PROVE  SecuredPhase(key)' /\ SplitPhase(key)'
  BY DEF PhasesInv
<1>1. /\ UNCHANGED inputs /\ UNCHANGED tlsRoutes /\ group # Nothing /\ step = 16 /\ step' = 16
      /\ group' = Nothing /\ pending' = pending
      /\ (grpcRules = <<>> /\ UNCHANGED <<httpRoutes, grpcRoutes>>) \/ Splits
  BY ProtocolEffect
<1>2. NoHeaderCanaries /\ key \in DOMAIN pir /\ OneGroup(key) /\ (Secure(key)' <=> Secure(key)) /\ pir' = pir
      /\ (\A m, grpc : Wants(key, m, grpc)' <=> Wants(key, m, grpc))
      /\ (\A routes, n : Served(routes, key, n)' <=> Served(routes, key, n))
  BY <1>1, QuestionsStay
<1>3. /\ SecuredPhase(key) /\ SplitPhase(key) /\ InputsInv /\ LoopInv /\ group \notin pending
      /\ Key \in DOMAIN httpRoutes /\ ConversionInv
  BY <1>1, <1>2, PhasesAt DEF LoopInv
<1>4. ~Visiting(key)' /\ (Visited(key)' <=> Visited(key) \/ Visiting(key))
  BY <1>1, <1>3, GroupEnds
<1>5. CASE ~Visiting(key)
  <2>1. key # Key
    BY <1>1, <1>5 DEF Visiting
  <2>2. SameRoute(httpRoutes', httpRoutes, key) /\ SameRoute(grpcRoutes', grpcRoutes, key)
    <3>1. CASE UNCHANGED <<httpRoutes, grpcRoutes>>
      BY <3>1 DEF SameRoute
    <3>2. CASE Splits
      <4>1. /\ DOMAIN grpcRoutes' = DOMAIN grpcRoutes \union {Key}
            /\ \A k \in DOMAIN grpcRoutes : k # Key => grpcRoutes'[k] = grpcRoutes[k]
            /\ \A k \in DOMAIN httpRoutes : k # Key => k \in DOMAIN httpRoutes' /\ httpRoutes'[k] = httpRoutes[k]
            /\ DOMAIN httpRoutes' \subseteq DOMAIN httpRoutes
        BY <1>1, <1>3, <3>2, SplitEffect
      <4> QED
        BY <2>1, <4>1 DEF SameRoute
    <3> QED
      BY <1>1, <3>1, <3>2
  <2>3. SameRoute(tlsRoutes', tlsRoutes, key) /\ step' = step
    BY <1>1 DEF SameRoute
  <2> QED
    BY <1>1, <1>3, <1>4, <1>5, <2>2, <2>3, PhasesStay
<1>6. CASE Visiting(key)
  <2>1. Key = key /\ ~Visited(key) /\ Visited(key)'
    BY <1>2, <1>3, <1>4, <1>6, VisitedOnce DEF Visiting
  <2>2. SecuredPhase(key)'
    <3>1. step > 15 /\ step' # 15
      BY <1>1
    <3> QED
      BY <1>1, <1>2, <1>3, <3>1 DEF SecuredPhase
  <2> DEFINE provided == pir[key].rules
  <2>3. InPlace(Route, provided) /\ key \notin DOMAIN grpcRoutes
    BY <1>1, <1>3, <2>1 DEF SplitPhase, Route
  <2>4. \A m \in DOMAIN provided : \A x \in All(key, m) : Seen(m, x)
    BY <1>1, <1>3, <2>1, AllSeen DEF FinishProtocol
  <2>5. \A m \in DOMAIN provided : \A grpc : WantsSeen(key, m, grpc) <=> Wants(key, m, grpc)
    BY <2>4 DEF WantsSeen, Wants
  <2>6. \A m : /\ m \in ToSet(grpcRules) <=> m \in DOMAIN provided /\ Wants(key, m, TRUE)
               /\ m \in ToSet(httpRules) <=> m \in DOMAIN provided /\ Wants(key, m, FALSE)
    BY <1>1, <1>3, <1>6, <2>5 DEF SplitPhase, Collects
  <2>7. \A n \in DOMAIN provided :
          /\ Served(grpcRoutes', key, n) <=> Wants(key, n, TRUE)
          /\ Served(httpRoutes', key, n) <=> Wants(key, n, FALSE)
    <3> SUFFICES ASSUME NEW n \in DOMAIN provided
                 PROVE  /\ Served(grpcRoutes', key, n) <=> Wants(key, n, TRUE)
                        /\ Served(httpRoutes', key, n) <=> Wants(key, n, FALSE)
      OBVIOUS
    <3>1. CASE grpcRules = <<>> /\ UNCHANGED <<httpRoutes, grpcRoutes>>
      <4>1. ~Served(grpcRoutes', key, n)
        BY <2>3, <3>1 DEF Served, RulesIn
      <4>2. ~Wants(key, n, TRUE)
        <5>1. ToSet(grpcRules) = {}
          BY <3>1 DEF ToSet
        <5> QED
          BY <2>6, <5>1
      <4>3. Wants(key, n, FALSE)
        <5>1. PICK x : x \in All(key, n)
          BY <1>2, <1>3, SourcesSeen
        <5> QED
          BY <4>2, <5>1 DEF Wants
      <4>4. n \in DOMAIN Route.rules /\ Route.rules[n].from = n /\ BackendSources(Route.rules[n]) = provided[n].sources
        BY <2>3 DEF InPlace
      <4>5. RulesIn(httpRoutes', key) = ToSet(Route.rules)
        BY <1>3, <2>1, <3>1 DEF RulesIn, Route
      <4>6. Served(httpRoutes', key, n)
        BY <4>4, <4>5 DEF Served, ToSet
      <4> QED
        BY <4>1, <4>2, <4>3, <4>6
    <3>2. CASE Splits
      BY <1>1, <1>3, <2>1, <2>3, <2>6, <3>2, SplitSides
    <3> QED
      BY <1>1, <3>1, <3>2
  <2>8. SplitPhase(key)'
    <3>1. \A n : /\ Served(grpcRoutes, key, n)' <=> Served(grpcRoutes', key, n)
                 /\ Served(httpRoutes, key, n)' <=> Served(httpRoutes', key, n)
      BY <1>2 DEF Served
    <3> QED
      BY <1>1, <1>2, <1>4, <2>1, <2>7, <3>1 DEF SplitPhase
  <2> QED
    BY <2>2, <2>8
<1> QED
  BY <1>5, <1>6

(***************************************************************************)
(* BackendsKeepProtocol                                                    *)
(***************************************************************************)
LEMMA FeaturesLead ==
  ASSUME LoopInv, FeatureStep
  PROVE  step' \in 0..14 \/ (step' = 15 /\ NextParser(FeatureParsers))
<1>1. step \in 1..14
  BY StepNumbers
<1>2. CASE VisitGroup(FeatureParsers) \/ NextRule(PerSource)
            \/ FinishGroup(FeatureParsers \ {"canary", "redirect"}) \/ FinishCanary \/ FinishRedirect
            \/ ParseHeaders
  <2>1. step' = step
    BY <1>2 DEF VisitGroup, NextRule, FinishGroup, FinishCanary, FinishRedirect, ParseHeaders, NextSource
  <2> QED
    BY <1>1, <2>1
<1>3. CASE NextParser(FeatureParsers)
  <2>1. step' = step + 1
    BY <1>3 DEF NextParser
  <2> QED
    BY <1>1, <1>3, <2>1
<1>4. CASE ParseCanaryRule
  <2>1. step' \in {step, 0}
    BY <1>4, CanaryStep DEF Panicked
  <2> QED
    BY <1>1, <2>1
<1>5. CASE ParseFeature \/ ParseAuth
  <2>1. CASE ParseFeature
    <3>1. step' \in {step, 0}
      BY <2>1 DEF ParseFeature, Panic, NextSource, Panicked
    <3> QED
      BY <1>1, <3>1
  <2>2. CASE ParseAuth
    <3>1. step' \in {step, 0}
      BY <2>2 DEF ParseAuth, Panic, NextSource, Panicked
    <3> QED
      BY <1>1, <3>1
  <2> QED
    BY <1>5, <2>1, <2>2
<1> QED
  BY <1>2, <1>3, <1>4, <1>5 DEF FeatureStep

\* Before the two parsers run no route is converted, and so when the first of
\* them starts.
LEMMA FeaturePhases ==
  ASSUME ProtocolInv, FeatureStep, UNCHANGED conversionVars
  PROVE  ProtocolInv'
<1>1. ConversionInv /\ ConversionInv' /\ step \in 1..14
  BY FeatureStepKeeps, StepNumbers DEF ProtocolInv
<1>2. KeptInv /\ NoShift /\ LoopInv /\ InputsInv
  BY <1>1 DEF ProtocolInv, ConversionInv, KeptInv
<1>3. NoShift' /\ UNCHANGED inputs
  BY <1>2, StepNoShift, StepKeepsInputs
<1>4. DOMAIN tlsRoutes' = {}
  BY <1>1 DEF ConversionInv, WhereInv, conversionVars
<1>5. step' \in 0..14 \/ (step' = 15 /\ NextParser(FeatureParsers))
  BY <1>2, FeaturesLead
<1>6. step' \in {15, 16} /\ group' # Nothing => group' \notin pending'
  <2>1. NextParser(FeatureParsers) => group' = Nothing
    BY DEF NextParser
  <2> QED
    BY <1>5, <2>1
<1>7. SecuredInv'
  BY <1>4 DEF SecuredInv
<1>8. PhasesInv'
  <2> SUFFICES ASSUME step' # Panicked, NEW key \in DOMAIN pir', OneGroup(key)'
               PROVE  SecuredPhase(key)' /\ SplitPhase(key)'
    BY DEF PhasesInv
  <2>1. CASE step' \in 0..14
    <3>1. step' # 15 /\ step' # 16 /\ ~(step' > 15) /\ ~(step' > 16)
      BY <2>1
    <3> QED
      BY <3>1 DEF SecuredPhase, SplitPhase
  <2>2. CASE step' = 15 /\ NextParser(FeatureParsers)
    <3>1. OneGroup(key)
      BY <1>3, QuestionsStay
    <3>2. ~Visited(key)' /\ ~Visiting(key)'
      BY <1>2, <1>3, <2>2, <3>1, GroupsOver
    <3>3. step' # 16 /\ ~(step' > 15) /\ ~(step' > 16)
      BY <2>2
    <3> QED
      BY <1>4, <3>2, <3>3 DEF SecuredPhase, SplitPhase
  <2> QED
    BY <1>5, <2>1, <2>2
<1> QED
  BY <1>1, <1>3, <1>6, <1>7, <1>8 DEF ProtocolInv

LEMMA LeadingProtocol ==
  ASSUME ProtocolInv, Leading
  PROVE  ProtocolInv'
<1>1. /\ UNCHANGED inputs /\ UNCHANGED <<httpRoutes, gateways, tlsRoutes, grpcRoutes>>
      /\ group # Nothing => UNCHANGED group /\ (UNCHANGED newRules)
      /\ group' # Nothing /\ group = Nothing => newRules' = <<>>
  BY LeadingEffect
<1>2. ConversionInv' /\ PhasesInv' /\ LoopInv
  BY LeadingKeeps, LeadingPhases DEF ProtocolInv, ConversionInv
<1>3. /\ \/ UNCHANGED step
         \/ step \in {15, 16} /\ step' = step + 1 /\ group' = Nothing
      /\ \/ VisitRoute
         \/ group' = Nothing
         \/ UNCHANGED <<step, group, pending>>
  BY ParsersShape, StepNumbers
     DEF Leading, VisitRoute, VisitGroup, NextRule, MissingRule, NextParser, LookForPassthrough, CollectRule,
         NextSource, vars, featureVars, loopVars
<1>4. step' < 16 => step < 16
  BY <1>2, <1>3, ParsersShape DEF LoopInv, Panicked
<1>5. step' < 16 => NoShift'
  <2> SUFFICES ASSUME step' < 16, NoHeaderCanaries'
               PROVE  (group' # Nothing => newRules' = <<>>) /\ RulesInPlace'
    BY DEF NoShift
  <2>1. NoHeaderCanaries /\ pir' = pir
    BY <1>1, QuestionsStay
  <2>2. (group # Nothing => newRules = <<>>) /\ RulesInPlace
    BY <1>4, <2>1 DEF ProtocolInv, NoShift
  <2>3. RulesInPlace'
    BY <1>1, <2>1, <2>2 DEF RulesInPlace
  <2> QED
    BY <1>1, <2>2, <2>3
<1>6. step' \in {15, 16} /\ group' # Nothing => group' \notin pending'
  <2> SUFFICES ASSUME step' \in {15, 16}, group' # Nothing PROVE group' \notin pending'
    OBVIOUS
  <2>1. CASE VisitRoute
    BY <2>1 DEF VisitRoute, VisitGroup
  <2>2. CASE UNCHANGED <<step, group, pending>>
    BY <2>2 DEF ProtocolInv
  <2> QED
    BY <1>3, <2>1, <2>2
<1>7. SecuredInv'
  <2>1. NoHeaderCanaries' <=> NoHeaderCanaries
    BY <1>1, QuestionsStay
  <2>2. \A key, n : Secured(key, n)' <=> Secured(key, n)
    BY <1>1 DEF Secured, RulesIn, inputs
  <2>3. pir' = pir
    BY <1>1 DEF inputs
  <2> QED
    BY <1>1, <2>1, <2>2, <2>3 DEF ProtocolInv, SecuredInv
<1> QED
  BY <1>2, <1>5, <1>6, <1>7 DEF ProtocolInv

LEMMA PassthroughProtocol ==
  ASSUME ProtocolInv, FinishPassthrough
  PROVE  ProtocolInv'
<1>1. /\ UNCHANGED inputs /\ UNCHANGED <<newRules, appRoot, errors, grpcRoutes, grpcRules, httpRules, passthrough>>
      /\ group # Nothing /\ step = 15
      /\ \/ /\ ~passthrough /\ UNCHANGED <<httpRoutes, gateways, tlsRoutes, step, pending>>
            /\ group' = Nothing /\ i' = 1 /\ j' = 1
         \/ /\ UNCHANGED <<httpRoutes, gateways, tlsRoutes>>
            /\ step' = Panicked /\ UNCHANGED <<pending, group, i, j>>
         \/ PassesThrough
  BY PassthroughEffect
<1>2. ConversionInv' /\ PhasesInv' /\ SecuredInv'
  BY PassthroughKeeps, PassthroughPhases, PassthroughSecured DEF ProtocolInv
<1>3. NoShift'
  <2> SUFFICES ASSUME NoHeaderCanaries'
               PROVE  (group' # Nothing => newRules' = <<>>) /\ RulesInPlace'
    BY DEF NoShift
  <2>1. NoHeaderCanaries /\ pir' = pir
    BY <1>1, QuestionsStay
  <2>2. (group # Nothing => newRules = <<>>) /\ RulesInPlace
    BY <1>1, <2>1 DEF ProtocolInv, NoShift
  <2>3. DOMAIN httpRoutes' \subseteq DOMAIN httpRoutes /\ \A key \in DOMAIN httpRoutes' : httpRoutes'[key] = httpRoutes[key]
    BY <1>1 DEF PassesThrough, RemoveKey
  <2>4. RulesInPlace'
    BY <2>1, <2>2, <2>3 DEF RulesInPlace
  <2> QED
    BY <1>1, <2>2, <2>4
<1>4. step' \in {15, 16} /\ group' # Nothing => group' \notin pending'
  BY <1>1 DEF ProtocolInv, PassesThrough, Panicked
<1> QED
  BY <1>2, <1>3, <1>4 DEF ProtocolInv

LEMMA SplitProtocol ==
  ASSUME ProtocolInv, FinishProtocol
  PROVE  ProtocolInv'
<1>1. UNCHANGED inputs /\ UNCHANGED tlsRoutes /\ step' = 16 /\ group' = Nothing
  BY ProtocolEffect
<1>2. ConversionInv' /\ PhasesInv'
  BY ProtocolKeeps, ProtocolPhases DEF ProtocolInv
<1>3. SecuredInv'
  <2>1. NoHeaderCanaries' <=> NoHeaderCanaries
    BY <1>1, QuestionsStay
  <2>2. \A key, n : Secured(key, n)' <=> Secured(key, n)
    BY <1>1 DEF Secured, RulesIn, inputs
  <2>3. pir' = pir
    BY <1>1 DEF inputs
  <2> QED
    BY <1>1, <2>1, <2>2, <2>3 DEF ProtocolInv, SecuredInv
<1> QED
  BY <1>1, <1>2, <1>3 DEF ProtocolInv

LEMMA InitProtocol == ConversionInit => ProtocolInv
<1> SUFFICES ASSUME ConversionInit PROVE ProtocolInv
  OBVIOUS
<1>1. Init /\ tlsRoutes = EmptyMap /\ step = 1
  BY DEF ConversionInit, Init
<1>2. ConversionInv /\ NoShift
  BY <1>1, InitConversion, InitNoShift
<1>3. SecuredInv
  BY <1>1 DEF SecuredInv, EmptyMap
<1>4. PhasesInv
  <2>1. step # 15 /\ step # 16 /\ ~(step > 15) /\ ~(step > 16)
    BY <1>1
  <2> QED
    BY <2>1 DEF PhasesInv, SecuredPhase, SplitPhase
<1> QED
  BY <1>1, <1>2, <1>3, <1>4 DEF ProtocolInv

LEMMA StepProtocol == ProtocolInv /\ [ConversionNext]_vars => ProtocolInv'
<1> SUFFICES ASSUME ProtocolInv, [ConversionNext]_vars PROVE ProtocolInv'
  OBVIOUS
<1>1. (FeatureStep /\ UNCHANGED conversionVars) \/ Leading \/ FinishPassthrough \/ FinishProtocol
  BY DEF ConversionNext, ConversionStep, ConversionEnded, Leading
<1> QED
  BY <1>1, FeaturePhases, LeadingProtocol, PassthroughProtocol, SplitProtocol

\* A route that the rules of one host were collected in ends as a TLSRoute with
\* every rule and all its backends exactly if some source asks to pass TLS
\* through; if none does, each rule is in the GRPCRoute exactly if one of its
\* sources asks for GRPC and in the HTTPRoute exactly if one does not, and has all
\* its backends wherever it is (ssl-passthrough.go, backend-protocol.go).  A canary
\* by header puts rules in front that the indices do not count with: without
\* one the indices are those of the provider IR (canary.go).
THEOREM ProtocolsAreKept == ConversionSpec => [](NoHeaderCanaries => BackendsKeepProtocol)
<1>1. ASSUME ProtocolInv, NoHeaderCanaries, Converted, NEW key \in DOMAIN pir, OneGroup(key),
             NEW n \in DOMAIN pir[key].rules
      PROVE  /\ Secured(key, n) <=> Secure(key)
             /\ Served(grpcRoutes, key, n) <=> ~Secure(key) /\ Wants(key, n, TRUE)
             /\ Served(httpRoutes, key, n) <=> ~Secure(key) /\ Wants(key, n, FALSE)
  <2>1. step = 17
    BY <1>1, ParsersShape DEF Converted
  <2>2. step # Panicked /\ step > 15 /\ step > 16
    BY <2>1 DEF Panicked
  <2>3. SecuredPhase(key) /\ SplitPhase(key) /\ SecuredInv /\ WhereInv
    BY <1>1, <2>2 DEF ProtocolInv, PhasesInv, ConversionInv
  <2>4. key \in DOMAIN tlsRoutes <=> Secure(key)
    BY <2>2, <2>3 DEF SecuredPhase
  <2>5. CASE Secure(key)
    <3>1. Secured(key, n)
      BY <1>1, <2>3, <2>4, <2>5 DEF SecuredInv
    <3>2. key \notin DOMAIN httpRoutes /\ key \notin DOMAIN grpcRoutes
      BY <2>3, <2>4, <2>5 DEF WhereInv
    <3> QED
      BY <2>5, <3>1, <3>2 DEF Served, RulesIn
  <2>6. CASE ~Secure(key)
    <3>1. ~Secured(key, n)
      BY <2>4, <2>6 DEF Secured, RulesIn
    <3> QED
      BY <2>2, <2>3, <2>4, <2>6, <3>1 DEF SplitPhase
  <2> QED
    BY <2>5, <2>6
<1>2. \A key, m : /\ Asks(key, m, IsPassthrough) <=> \E x \in All(key, m) : IsPassthrough(AnnotationsAt(key, m, x))
                  /\ Asks(key, m, IsGRPC) <=> Wants(key, m, TRUE)
                  /\ Asks(key, m, LAMBDA a : ~IsGRPC(a)) <=> Wants(key, m, FALSE)
  BY DEF Asks, Wants, ToSet, All, AnnotationsAt, SourceAt
<1>3. ProtocolInv => (NoHeaderCanaries => BackendsKeepProtocol)
  <2> SUFFICES ASSUME ProtocolInv, NoHeaderCanaries, Converted
               PROVE  BackendsKeepProtocol
    BY DEF BackendsKeepProtocol
  <2>1. ASSUME NEW key \in DOMAIN pir, OneGroup(key), NEW n \in DOMAIN pir[key].rules
        PROVE  LET secure  == \E m \in DOMAIN pir[key].rules : Asks(key, m, IsPassthrough)
                   sources == pir[key].rules[n].sources
                   served(routes) ==
                     \E rule \in RulesIn(routes, key) : rule.from = n /\ BackendSources(rule) = sources
                   secured == \E rule \in RulesIn(tlsRoutes, key) : rule.from = n /\ rule.backends = sources
               IN  /\ secured <=> secure
                   /\ served(grpcRoutes) <=> ~secure /\ Asks(key, n, IsGRPC)
                   /\ served(httpRoutes) <=> ~secure /\ Asks(key, n, LAMBDA a : ~IsGRPC(a))
    <3>1. /\ Secured(key, n) <=> Secure(key)
          /\ Served(grpcRoutes, key, n) <=> ~Secure(key) /\ Wants(key, n, TRUE)
          /\ Served(httpRoutes, key, n) <=> ~Secure(key) /\ Wants(key, n, FALSE)
      BY <1>1, <2>1
    <3>2. Secure(key) <=> \E m \in DOMAIN pir[key].rules : Asks(key, m, IsPassthrough)
      BY <1>2 DEF Secure
    <3> QED
      BY <1>2, <3>1, <3>2 DEF Secured, Served
  <2> QED
    BY <2>1 DEF BackendsKeepProtocol
<1> QED
  BY <1>3, InitProtocol, StepProtocol, PTL DEF ConversionSpec
===============================================================================
