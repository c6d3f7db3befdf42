----------------------------- MODULE FeatureProofs -----------------------------
(***************************************************************************)
(* Proofs about the feature parsers, for any Ingresses and annotations.    *)
(***************************************************************************)
EXTENDS Features, ProviderProofs

(***************************************************************************)
(* What is read stays, and the loops stay within it.                       *)
(***************************************************************************)
InputsInv ==
  /\ ingresses \in Inputs
  /\ pir = Routes(ingresses)
  /\ ruleGroups = GetRuleGroups(ingresses)
  /\ DOMAIN annotations = ingresses

LoopInv ==
  /\ step \in Panicked..Ended /\ i \in Nat \ {0} /\ j \in Nat \ {0}
  /\ pending \subseteq DOMAIN ruleGroups
  /\ group # Nothing => group \in DOMAIN ruleGroups /\ Key \in DOMAIN httpRoutes
  /\ DOMAIN httpRoutes \subseteq DOMAIN pir

Provided == \A key \in DOMAIN pir : IsProvided(pir[key].rules, ingresses)

LEMMA InputsAreProvided ==
  ASSUME InputsInv
  PROVE  Provided
  BY RoutesAreProvided DEF InputsInv, Provided

LEMMA InitInputs == Init => InputsInv
  BY DEF Init, InputsInv

LEMMA InputsKept ==
  ASSUME InputsInv, UNCHANGED inputs
  PROVE  InputsInv'
  BY DEF InputsInv, inputs

LEMMA StepKeepsInputs ==
  ASSUME FeatureStep \/ UNCHANGED featureVars
  PROVE  UNCHANGED inputs
  BY DEF FeatureStep, featureVars, VisitGroup, NextParser, NextRule, FinishGroup, ParseCanaryRule,
         FinishCanary, ParseFeature, FinishRedirect, ParseAuth, ParseHeaders

LEMMA ParsersShape == Len(Parsers) = 16 /\ DOMAIN Parsers = 1..16 /\ Ended = 17
  BY DEF Parsers, Ended

LEMMA AtRuleFacts ==
  ASSUME InputsInv, LoopInv, NEW parsers, AtRule(parsers)
  PROVE  /\ group \in DOMAIN ruleGroups /\ group # Nothing
         /\ Key \in DOMAIN httpRoutes /\ Key \in DOMAIN pir
         /\ i \in DOMAIN pir[Key].rules /\ i <= Len(Route.rules)
         /\ Sources[i] = pir[Key].rules[i].sources
         /\ IsSeq(Sources[i]) /\ \A x \in DOMAIN Sources[i] : Sources[i][x].ing \in ingresses
<1>1. /\ group \in DOMAIN ruleGroups /\ group # Nothing
      /\ Key \in DOMAIN httpRoutes /\ Key \in DOMAIN pir /\ i \in Nat \ {0}
  BY DEF LoopInv, AtRule, Running
<1> DEFINE rules == pir[Key].rules
<1>2. IsProvided(rules, ingresses)
  BY <1>1, InputsAreProvided DEF Provided
<1>3. IsSeq(rules) /\ Len(rules) \in Nat /\ DOMAIN rules = 1..Len(rules)
  BY <1>2, IsSeqShape DEF IsProvided
<1>4. Len(Sources) = Len(rules) /\ \A n \in DOMAIN rules : Sources[n] = rules[n].sources
  <2>1. DOMAIN Sources = 1..Len(rules) /\ Sources = [n \in 1..Len(rules) |-> Sources[n]]
    BY <1>3 DEF Sources
  <2>2. \A n \in DOMAIN rules : Sources[n] = rules[n].sources
    BY DEF Sources
  <2> QED
    BY <1>3, <2>1, <2>2, FunctionIsSeq
<1>5. i <= Len(Sources) /\ i <= Len(Route.rules)
  BY DEF AtRule
<1>6. i \in DOMAIN rules
  BY <1>1, <1>3, <1>4, <1>5
<1> QED
  BY <1>1, <1>2, <1>4, <1>5, <1>6 DEF IsProvided

LEMMA AtSourceFacts ==
  ASSUME InputsInv, LoopInv, NEW parsers, AtSource(parsers)
  PROVE  /\ group \in DOMAIN ruleGroups /\ group # Nothing
         /\ Key \in DOMAIN httpRoutes /\ Key \in DOMAIN pir
         /\ i \in DOMAIN pir[Key].rules /\ i <= Len(Route.rules)
         /\ Source = pir[Key].rules[i].sources[j]
         /\ j \in DOMAIN pir[Key].rules[i].sources
         /\ Source.ing \in ingresses
<1>1. AtRule(parsers) /\ j \in Nat \ {0} /\ j <= Len(Sources[i])
  BY DEF AtSource, LoopInv
<1>2. j \in DOMAIN Sources[i]
  BY <1>1, AtRuleFacts, IsSeqShape
<1> QED
  BY <1>1, <1>2, AtRuleFacts DEF Source

\* A step of a parser stays in the loops; it takes no HTTPRoute away.
LEMMA LoopStep ==
  ASSUME InputsInv, LoopInv, FeatureStep \/ UNCHANGED featureVars
  PROVE  LoopInv' /\ DOMAIN httpRoutes' = DOMAIN httpRoutes
<1> USE DEF LoopInv, Panicked, inputs
<1>1. UNCHANGED inputs
  BY StepKeepsInputs
<1>2. \A n \in Nat : n + 1 \in Nat \ {0}
  OBVIOUS
<1>3. CASE VisitGroup(FeatureParsers)
  <2>1. UNCHANGED httpRoutes
    BY <1>3 DEF VisitGroup
  <2>2. PICK g \in pending :
          /\ pending' = pending \ {g}
          /\ IF ruleGroups[g] \in DOMAIN httpRoutes
             THEN group' = g /\ i' = 1 /\ j' = 1
             ELSE UNCHANGED <<group, i, j>>
    BY <1>3 DEF VisitGroup
  <2>3. step' = step /\ pending' \subseteq DOMAIN ruleGroups'
    BY <1>1, <1>3, <2>2 DEF VisitGroup
  <2>4. CASE ruleGroups[g] \in DOMAIN httpRoutes
    BY <1>1, <2>1, <2>2, <2>3, <2>4 DEF Key
  <2>5. CASE ruleGroups[g] \notin DOMAIN httpRoutes
    <3>1. UNCHANGED <<group, i, j>>
      BY <2>2, <2>5
    <3> QED
      BY <1>1, <2>1, <2>3, <3>1 DEF Key
  <2> QED
    BY <2>4, <2>5
<1>4. CASE NextParser(FeatureParsers)
  <2>1. step \in 1..16 /\ step' = step + 1 /\ Ended = 17 /\ step' \in 0..17
    BY <1>4, ParsersShape DEF NextParser, At
  <2>2. UNCHANGED <<httpRoutes, group, i, j>> /\ pending' = DOMAIN ruleGroups
    BY <1>4 DEF NextParser
  <2> QED
    BY <1>1, <2>1, <2>2 DEF Key
<1>5. CASE NextRule(PerSource) \/ FinishGroup(FeatureParsers \ {"canary", "redirect"})
  <2>1. UNCHANGED <<httpRoutes, step, pending>> /\ (group' = group \/ group' = Nothing)
        /\ i' \in {i + 1, 1} /\ j' = 1
    BY <1>5 DEF NextRule, FinishGroup, LeaveGroup
  <2> QED
    BY <1>1, <1>2, <2>1 DEF Key
<1>6. CASE FinishCanary \/ FinishRedirect
  <2>1. /\ UNCHANGED <<step, pending>> /\ group' = Nothing /\ i' = 1 /\ j' = 1
        /\ DOMAIN httpRoutes' = DOMAIN httpRoutes
    BY <1>6 DEF FinishCanary, FinishRedirect, LeaveGroup
  <2> QED
    BY <1>1, <2>1
<1>7. CASE ParseCanaryRule
  <2>1. /\ UNCHANGED <<pending, group, j>> /\ step' \in {step, 0} /\ i' \in {i, i + 1}
        /\ DOMAIN httpRoutes' = DOMAIN httpRoutes
    BY <1>7 DEF ParseCanaryRule, Panic
  <2> QED
    BY <1>1, <1>2, <2>1, ParsersShape DEF Key
<1>8. CASE ParseFeature
  <2>1. /\ UNCHANGED <<pending, group, i>> /\ step' \in {step, 0} /\ j' \in {j, j + 1}
        /\ DOMAIN httpRoutes' = DOMAIN httpRoutes
    BY <1>8 DEF ParseFeature, Panic, NextSource
  <2> QED
    BY <1>1, <1>2, <2>1, ParsersShape DEF Key
<1>9. CASE ParseAuth
  <2>1. /\ UNCHANGED <<pending, group, i>> /\ step' \in {step, 0} /\ j' \in {j, j + 1}
        /\ DOMAIN httpRoutes' = DOMAIN httpRoutes
    BY <1>9 DEF ParseAuth, Panic, NextSource
  <2> QED
    BY <1>1, <1>2, <2>1, ParsersShape DEF Key
<1>10. CASE ParseHeaders
  <2>1. /\ UNCHANGED <<pending, group, i>> /\ step' = step /\ j' = j + 1
        /\ DOMAIN httpRoutes' = DOMAIN httpRoutes
    BY <1>10 DEF ParseHeaders, NextSource
  <2> QED
    BY <1>1, <1>2, <2>1 DEF Key
<1>11. CASE UNCHANGED featureVars
  BY <1>11 DEF featureVars, loopVars, Key
<1> QED
  BY <1>3, <1>4, <1>5, <1>6, <1>7, <1>8, <1>9, <1>10, <1>11 DEF FeatureStep

(***************************************************************************)
(* Routes keep the rules of the provider IR.                               *)
(***************************************************************************)
IsBackend(b) ==
  /\ b = [source |-> b.source, weight |-> b.weight]
  /\ b.weight \in Seq(Nat) /\ Len(b.weight) <= 1

IsRule(r, provided) ==
  /\ r = [from |-> r.from, path |-> r.path, headers |-> r.headers, filters |-> r.filters,
          backends |-> r.backends]
  /\ r.from \in {0} \union DOMAIN provided
  /\ IsSeq(r.headers)
  /\ IsSeq(r.backends) /\ \A x \in DOMAIN r.backends : IsBackend(r.backends[x])

IsRoute(rt, provided) ==
  /\ rt = [ns |-> rt.ns, host |-> rt.host, features |-> rt.features,
           parentRefs |-> rt.parentRefs, rules |-> rt.rules]
  /\ IsSeq(rt.rules)
  /\ \A n \in DOMAIN rt.rules : IsRule(rt.rules[n], provided)
  /\ \E first \in 0..Len(rt.rules) : BaseRulesBehind(rt.rules, first, provided)

LEMMA EmitterRuleShape ==
  ASSUME NEW provided, NEW n \in DOMAIN provided, n # 0, IsSeq(provided[n].sources)
  PROVE  /\ IsRule(EmitterRule(provided[n], n), provided)
         /\ IsBase(EmitterRule(provided[n], n))
         /\ EmitterRule(provided[n], n).from = n
         /\ BackendSources(EmitterRule(provided[n], n)) = provided[n].sources
<1> DEFINE src == provided[n].sources
           bs  == [x \in DOMAIN src |-> [source |-> src[x], weight |-> <<>>]]
           r   == EmitterRule(provided[n], n)
<1>1. r = [from |-> n, path |-> provided[n].match, headers |-> <<>>, filters |-> <<>>, backends |-> bs]
  BY DEF EmitterRule
<1>2. DOMAIN src = 1..Len(src) /\ Len(src) \in Nat
  BY IsSeqShape
<1>3. IsSeq(bs)
  <2>1. DOMAIN bs = 1..Len(src) /\ bs = [x \in 1..Len(src) |-> bs[x]]
    BY <1>2
  <2> HIDE DEF bs
  <2> QED
    BY <1>2, <2>1, FunctionIsSeq
<1>4. \A x \in DOMAIN bs : IsBackend(bs[x])
  BY EmptySeq DEF IsBackend
<1>5. [x \in DOMAIN bs |-> bs[x].source] = src
  <2>1. src = [x \in DOMAIN src |-> src[x]]
    <3>1. src \in [1..Len(src) -> {src[x] : x \in DOMAIN src}]
      BY LenProperties DEF IsSeq
    <3> QED
      BY <1>2, <3>1
  <2> QED
    BY <2>1
<1> HIDE DEF r, bs
<1> QED
  BY <1>1, <1>3, <1>4, <1>5, EmptyIsSeq DEF IsRule, IsBase, BackendSources, r

LEMMA EmitterRouteShape ==
  ASSUME NEW rt, NEW S, IsProvided(rt.rules, S)
  PROVE  IsRoute(EmitterRoute(rt), rt.rules)
<1> DEFINE p == rt.rules
           e == EmitterRoute(rt)
           rules == [n \in DOMAIN p |-> EmitterRule(p[n], n)]
<1>1. /\ e = [ns |-> e.ns, host |-> e.host, features |-> e.features,
              parentRefs |-> e.parentRefs, rules |-> e.rules]
      /\ e.rules = rules
  BY DEF EmitterRoute
<1>2. IsSeq(p) /\ DOMAIN p = 1..Len(p) /\ Len(p) \in Nat
  BY IsSeqShape DEF IsProvided
<1>3. IsSeq(rules) /\ Len(rules) = Len(p) /\ DOMAIN rules = DOMAIN p
  <2>1. DOMAIN rules = 1..Len(p) /\ rules = [n \in 1..Len(p) |-> rules[n]]
    BY <1>2
  <2> HIDE DEF rules
  <2> QED
    BY <1>2, <2>1, FunctionIsSeq
<1>4. \A n \in DOMAIN p : /\ IsRule(rules[n], p) /\ IsBase(rules[n])
                          /\ rules[n].from = n /\ BackendSources(rules[n]) = p[n].sources
  <2> TAKE n \in DOMAIN p
  <2>1. n # 0 /\ IsSeq(p[n].sources) /\ rules[n] = EmitterRule(p[n], n)
    BY <1>2 DEF IsProvided
  <2> HIDE DEF rules
  <2> QED
    BY <2>1, EmitterRuleShape
<1> HIDE DEF rules
<1>5. 0 \in 0..Len(rules) /\ BaseRulesBehind(rules, 0, p)
  <2>1. \A n \in DOMAIN rules : n - 0 = n /\ 0 + n = n
    BY <1>2, <1>3
  <2> QED
    BY <1>2, <1>3, <1>4, <2>1 DEF BaseRulesBehind
<1> HIDE DEF e, p
<1> QED
  BY <1>1, <1>3, <1>4, <1>5 DEF IsRoute, e, p

\* A rule is changed, but not what it stands for.
LEMMA RuleReplaced ==
  ASSUME NEW rt, NEW provided, IsRoute(rt, provided), NEW n \in DOMAIN rt.rules, NEW r,
         IsRule(r, provided), r.from = rt.rules[n].from, r.headers = rt.rules[n].headers,
         BackendSources(r) = BackendSources(rt.rules[n])
  PROVE  IsRoute([rt EXCEPT !.rules = [@ EXCEPT ![n] = r]], provided)
<1> DEFINE rules == [rt.rules EXCEPT ![n] = r]
           new   == [rt EXCEPT !.rules = rules]
<1>1. IsSeq(rt.rules) /\ Len(rt.rules) \in Nat /\ DOMAIN rt.rules = 1..Len(rt.rules)
  BY IsSeqShape DEF IsRoute
<1>2. DOMAIN rules = DOMAIN rt.rules /\ \A x \in DOMAIN rules : rules[x] = IF x = n THEN r ELSE rt.rules[x]
  OBVIOUS
<1>3. IsSeq(rules) /\ Len(rules) = Len(rt.rules)
  <2>1. rules = [x \in 1..Len(rt.rules) |-> rules[x]]
    BY <1>1
  <2> HIDE DEF rules
  <2> QED
    BY <1>1, <1>2, <2>1, FunctionIsSeq
<1> HIDE DEF rules
<1>4. \A x \in DOMAIN rules : IsRule(rules[x], provided)
  BY <1>2 DEF IsRoute
<1>5. PICK first \in 0..Len(rt.rules) : BaseRulesBehind(rt.rules, first, provided)
  BY DEF IsRoute
<1>6. BaseRulesBehind(rules, first, provided)
  <2>1. \A x \in DOMAIN rules : /\ IsBase(rules[x]) <=> IsBase(rt.rules[x])
                                /\ rules[x].from = rt.rules[x].from
                                /\ BackendSources(rules[x]) = BackendSources(rt.rules[x])
    BY <1>2 DEF IsBase
  <2> QED
    BY <1>2, <1>5, <2>1 DEF BaseRulesBehind
<1>7. new = [ns |-> new.ns, host |-> new.host, features |-> new.features,
             parentRefs |-> new.parentRefs, rules |-> new.rules] /\ new.rules = rules
  BY DEF IsRoute
<1> HIDE DEF new
<1>8. IsRoute(new, provided)
  BY <1>3, <1>4, <1>5, <1>6, <1>7 DEF IsRoute
<1> QED
  BY <1>8 DEF new, rules

LEMMA FeaturesReplaced ==
  ASSUME NEW rt, NEW provided, IsRoute(rt, provided), NEW features
  PROVE  IsRoute([rt EXCEPT !.features = features], provided)
<1> DEFINE new == [rt EXCEPT !.features = features]
<1>1. new = [ns |-> new.ns, host |-> new.host, features |-> new.features,
             parentRefs |-> new.parentRefs, rules |-> new.rules] /\ new.rules = rt.rules
  BY DEF IsRoute
<1> HIDE DEF new
<1>2. IsRoute(new, provided)
  BY <1>1 DEF IsRoute
<1> QED
  BY <1>2 DEF new

\* Rules that are no base rules are put in front of a route's, or behind them.
LEMMA RulesAdded ==
  ASSUME NEW rt, NEW provided, IsRoute(rt, provided), IsSeq(provided),
         NEW front, NEW back, IsSeq(front), IsSeq(back),
         \A n \in DOMAIN front : IsRule(front[n], provided) /\ ~IsBase(front[n]),
         \A n \in DOMAIN back : IsRule(back[n], provided) /\ ~IsBase(back[n])
  PROVE  IsRoute([rt EXCEPT !.rules = (front \o @) \o back], provided)
<1> DEFINE old   == rt.rules
           rules == (front \o old) \o back
           new   == [rt EXCEPT !.rules = rules]
           f     == Len(front)
           k     == Len(old)
           b     == Len(back)
<1>1. IsSeq(old)
  BY DEF IsRoute
<1>2. f \in Nat /\ DOMAIN front = 1..f /\ k \in Nat /\ DOMAIN old = 1..k /\ b \in Nat /\ DOMAIN back = 1..b
  BY <1>1, IsSeqShape
<1>3. /\ IsSeq(front \o old) /\ Len(front \o old) = f + k
      /\ \A n \in 1..f : (front \o old)[n] = front[n]
      /\ \A n \in 1..k : (front \o old)[f + n] = old[n]
  BY <1>1, ConcatSeq
<1>4. /\ IsSeq(rules) /\ Len(rules) = f + k + b /\ DOMAIN rules = 1..(f + k + b)
      /\ \A n \in 1..(f + k) : rules[n] = (front \o old)[n]
      /\ \A n \in 1..b : rules[f + k + n] = back[n]
  BY <1>3, ConcatSeq
<1> HIDE DEF rules, f, k, b
<1>5. /\ \A n \in 1..f : rules[n] = front[n]
      /\ \A n \in 1..k : rules[f + n] = old[n]
  <2>1. (\A n \in 1..f : n \in 1..(f + k)) /\ \A n \in 1..k : f + n \in 1..(f + k)
    BY <1>2
  <2> DEFINE both == front \o old
  <2>2. /\ \A n \in 1..f : both[n] = front[n]
        /\ \A n \in 1..k : both[f + n] = old[n]
        /\ \A n \in 1..(f + k) : rules[n] = both[n]
    BY <1>3, <1>4
  <2> HIDE DEF both
  <2> QED
    BY <2>1, <2>2
<1>6. PICK first \in 0..k : BaseRulesBehind(old, first, provided)
  BY DEF IsRoute, k
<1>7. Len(provided) \in Nat /\ DOMAIN provided = 1..Len(provided)
  BY IsSeqShape
<1>8. ASSUME NEW n \in DOMAIN rules
      PROVE  /\ IsRule(rules[n], provided)
             /\ IsBase(rules[n]) <=> n - (f + first) \in DOMAIN provided
  <2>0. \A m \in DOMAIN provided : first + m \in 1..k
    BY <1>2, <1>6 DEF BaseRulesBehind
  <2>1. CASE n \in 1..f
    <3>1. n - (f + first) \notin DOMAIN provided
      BY <1>2, <1>6, <1>7, <2>1
    <3>2. rules[n] = front[n] /\ n \in DOMAIN front
      BY <1>2, <1>5, <2>1
    <3> QED
      BY <3>1, <3>2
  <2>2. CASE n \in (f + 1)..(f + k)
    <3>1. n - f \in 1..k /\ n = f + (n - f) /\ (n - f) - first = n - (f + first)
      BY <1>2, <1>6, <2>2
    <3>2. rules[n] = old[n - f] /\ n - f \in DOMAIN old
      BY <1>2, <1>5, <3>1
    <3> QED
      BY <1>6, <3>1, <3>2 DEF BaseRulesBehind, IsRoute
  <2>3. CASE n \in (f + k + 1)..(f + k + b)
    <3>1. n - (f + k) \in 1..b /\ n = f + k + (n - (f + k))
      BY <1>2, <2>3
    <3>2. rules[n] = back[n - (f + k)] /\ n - (f + k) \in DOMAIN back
      BY <1>2, <1>4, <3>1
    <3>3. n - (f + first) \notin DOMAIN provided
      <4> SUFFICES ASSUME n - (f + first) \in DOMAIN provided PROVE FALSE
        OBVIOUS
      <4>1. first + (n - (f + first)) \in 1..k
        BY <2>0
      <4> QED
        BY <1>2, <1>6, <2>3, <4>1
    <3> QED
      BY <3>2, <3>3
  <2> QED
    BY <1>2, <1>4, <2>1, <2>2, <2>3
<1>9. ASSUME NEW n \in DOMAIN provided
      PROVE  /\ (f + first) + n \in DOMAIN rules
             /\ rules[(f + first) + n].from = n
             /\ BackendSources(rules[(f + first) + n]) = provided[n].sources
  <2>1. first + n \in 1..k /\ old[first + n].from = n /\ BackendSources(old[first + n]) = provided[n].sources
    BY <1>2, <1>6 DEF BaseRulesBehind
  <2>2. (f + first) + n = f + (first + n) /\ f + (first + n) \in 1..(f + k + b)
    BY <1>2, <1>6, <1>7, <2>1
  <2> QED
    BY <1>4, <1>5, <2>1, <2>2
<1>10. f + first \in 0..Len(rules) /\ BaseRulesBehind(rules, f + first, provided)
  <2>1. f + first \in 0..Len(rules)
    BY <1>2, <1>4, <1>6
  <2> QED
    BY <1>8, <1>9, <2>1 DEF BaseRulesBehind
<1>11. new = [ns |-> new.ns, host |-> new.host, features |-> new.features,
              parentRefs |-> new.parentRefs, rules |-> new.rules] /\ new.rules = rules
  BY DEF IsRoute
<1> HIDE DEF new
<1>12. IsRoute(new, provided)
  BY <1>4, <1>8, <1>10, <1>11 DEF IsRoute
<1> QED
  BY <1>12 DEF new, rules

(***************************************************************************)
(* Canaries                                                                *)
(***************************************************************************)
LEMMA NumbersAreIntegers ==
  ASSUME NEW val, IsNumber(val)
  PROVE  Number(val) \in Int
<1>1. val[Len(val)] \in DOMAIN Numerals /\ (Len(val) = 1 \/ IsNegative(val))
  BY DEF IsNumber
<1>2. CASE IsNegative(val)
  <2>1. Numerals[val[2]] \in Nat
    BY <1>1, <1>2, NumeralsAssumption DEF IsNegative
  <2> QED
    BY <1>2, <2>1 DEF Number
<1>3. CASE ~IsNegative(val)
  <2>1. Numerals[val[1]] \in Nat
    BY <1>1, <1>3, NumeralsAssumption
  <2> QED
    BY <1>3, <2>1 DEF Number
<1> QED
  BY <1>2, <1>3

LEMMA CanaryNumbers ==
  ASSUME NEW a, ValidCanary(a), CanaryConfig(a).weighted
  PROVE  /\ CanaryConfig(a).weight \in Nat /\ CanaryConfig(a).total \in Nat
         /\ CanaryConfig(a).total - CanaryConfig(a).weight \in Nat
<1> DEFINE weight == Get(a, "canary-weight")
           total  == Get(a, "canary-weight-total")
           config == CanaryConfig(a)
<1>1. /\ weight # <<>> /\ config.weight = IF IsNumber(weight) THEN Number(weight) ELSE 0
      /\ config.total = IF IsNumber(total) THEN Number(total) ELSE 100
  BY DEF CanaryConfig
<1>2. /\ IsNatural(weight)
      /\ total # <<>> => IsNatural(total)
      /\ config.weight <= config.total
  BY <1>1 DEF ValidCanary
<1>3. IsNumber(weight) /\ Number(weight) >= 0 /\ Number(weight) \in Int
  BY <1>2, NumbersAreIntegers DEF IsNatural
<1>4. IsNumber(total) => Number(total) >= 0 /\ Number(total) \in Int
  BY <1>2, NumbersAreIntegers DEF IsNatural, IsNumber
<1> HIDE DEF config
<1>5. config.weight \in Nat /\ config.total \in Nat /\ config.weight <= config.total
  BY <1>1, <1>2, <1>3, <1>4
<1>6. config.total - config.weight \in Nat
  BY <1>5
<1> QED
  BY <1>5, <1>6 DEF config

\* Setting a backend's weight changes nothing else.
LEMMA WeightSet ==
  ASSUME NEW r, NEW provided, IsRule(r, provided), NEW x \in DOMAIN r.backends, NEW w \in Nat
  PROVE  /\ IsRule([r EXCEPT !.backends[x].weight = <<w>>], provided)
         /\ [r EXCEPT !.backends[x].weight = <<w>>].from = r.from
         /\ [r EXCEPT !.backends[x].weight = <<w>>].headers = r.headers
         /\ [r EXCEPT !.backends[x].weight = <<w>>].filters = r.filters
         /\ [r EXCEPT !.backends[x].weight = <<w>>].path = r.path
         /\ BackendSources([r EXCEPT !.backends[x].weight = <<w>>]) = BackendSources(r)
         /\ DOMAIN [r EXCEPT !.backends[x].weight = <<w>>].backends = DOMAIN r.backends
<1> DEFINE b   == [r.backends[x] EXCEPT !.weight = <<w>>]
           bs  == [r.backends EXCEPT ![x] = b]
           new == [r EXCEPT !.backends = bs]
<1>1. IsBackend(r.backends[x]) /\ IsSeq(r.backends)
  BY DEF IsRule
<1>2. IsBackend(b) /\ b.source = r.backends[x].source
  <2>1. b = [source |-> r.backends[x].source, weight |-> <<w>>]
    BY <1>1 DEF IsBackend
  <2>2. <<w>> \in Seq(Nat) /\ Len(<<w>>) <= 1
    OBVIOUS
  <2> HIDE DEF b
  <2> QED
    BY <2>1, <2>2 DEF IsBackend
<1> HIDE DEF b
<1>3. DOMAIN bs = DOMAIN r.backends /\ \A y \in DOMAIN bs : bs[y] = IF y = x THEN b ELSE r.backends[y]
  OBVIOUS
<1>4. IsSeq(bs)
  <2>1. DOMAIN r.backends = 1..Len(r.backends) /\ Len(r.backends) \in Nat
    BY <1>1, IsSeqShape
  <2>2. bs = [y \in 1..Len(r.backends) |-> bs[y]]
    BY <2>1
  <2> HIDE DEF bs
  <2> QED
    BY <1>3, <2>1, <2>2, FunctionIsSeq
<1> HIDE DEF bs
<1>5. /\ new = [from |-> new.from, path |-> new.path, headers |-> new.headers, filters |-> new.filters,
                backends |-> new.backends]
      /\ new.backends = bs /\ new.from = r.from /\ new.headers = r.headers
      /\ new.filters = r.filters /\ new.path = r.path
  BY DEF IsRule
<1>6. BackendSources(new) = BackendSources(r)
  BY <1>2, <1>3, <1>5 DEF BackendSources
<1>7. IsRule(new, provided)
  <2> HIDE DEF new
  <2> QED
    BY <1>2, <1>3, <1>4, <1>5 DEF IsRule
<1>8. [r EXCEPT !.backends[x].weight = <<w>>] = new
  BY DEF new, bs, b
<1> HIDE DEF new
<1> QED
  BY <1>3, <1>5, <1>6, <1>7, <1>8

LEMMA WeightedShape ==
  ASSUME NEW r, NEW provided, IsRule(r, provided), NEW a, ValidCanary(a),
         NEW c \in DOMAIN r.backends, NEW p \in DOMAIN r.backends
  PROVE  LET new == Weighted(r, CanaryConfig(a), c, p)
         IN  /\ IsRule(new, provided) /\ new.from = r.from /\ new.headers = r.headers
             /\ new.filters = r.filters /\ new.path = r.path
             /\ BackendSources(new) = BackendSources(r)
<1> DEFINE config == CanaryConfig(a)
           w   == config.weight
           t   == config.total - config.weight
           one == [r EXCEPT !.backends[c].weight = <<w>>]
           two == [one EXCEPT !.backends[p].weight = <<t>>]
<1>1. CASE ~config.weighted
  BY <1>1 DEF Weighted
<1>2. CASE config.weighted
  <2>1. w \in Nat /\ t \in Nat
    BY <1>2, CanaryNumbers
  <2>2. Weighted(r, config, c, p) = two
    BY <1>2 DEF Weighted
  <2> HIDE DEF w, t
  <2>3. /\ IsRule(one, provided) /\ one.from = r.from /\ one.headers = r.headers
        /\ one.filters = r.filters /\ one.path = r.path
        /\ BackendSources(one) = BackendSources(r) /\ DOMAIN one.backends = DOMAIN r.backends
    BY <2>1, WeightSet
  <2> HIDE DEF one
  <2>4. /\ IsRule(two, provided) /\ two.from = one.from /\ two.headers = one.headers
        /\ two.filters = one.filters /\ two.path = one.path
        /\ BackendSources(two) = BackendSources(one)
    BY <2>1, <2>3, WeightSet
  <2> HIDE DEF two, config
  <2> QED
    BY <2>2, <2>3, <2>4 DEF config
<1> QED
  BY <1>1, <1>2

LEMMA HeaderRuleShape ==
  ASSUME NEW r, NEW provided, IsRule(r, provided), NEW config, NEW val, NEW x \in DOMAIN r.backends
  PROVE  /\ IsRule(HeaderRule(r, config, val, r.backends[x]), provided)
         /\ ~IsBase(HeaderRule(r, config, val, r.backends[x]))
         /\ HeaderRule(r, config, val, r.backends[x]).filters = r.filters
         /\ HeaderRule(r, config, val, r.backends[x]).from = r.from
<1> DEFINE hs  == Append(r.headers, [name |-> config.header, value |-> val])
           bs  == <<r.backends[x]>>
           new == [r EXCEPT !.headers = hs, !.backends = bs]
<1>1. IsSeq(hs) /\ hs # <<>>
  <2>1. IsSeq(r.headers) /\ Len(r.headers) \in Nat
    BY IsSeqShape DEF IsRule
  <2>2. IsSeq(hs) /\ Len(hs) = Len(r.headers) + 1
    BY <2>1, AppendSeq
  <2>3. Len(hs) # 0
    BY <2>1, <2>2
  <2> HIDE DEF hs
  <2> QED
    BY <2>2, <2>3, EmptySeq
<1>2. IsSeq(bs) /\ \A y \in DOMAIN bs : IsBackend(bs[y])
  <2>1. IsBackend(r.backends[x])
    BY DEF IsRule
  <2> QED
    BY <2>1, SingleIsSeq
<1> HIDE DEF hs, bs
<1>3. /\ new = [from |-> new.from, path |-> new.path, headers |-> new.headers, filters |-> new.filters,
                backends |-> new.backends]
      /\ new.backends = bs /\ new.from = r.from /\ new.headers = hs /\ new.filters = r.filters
  <2>1. r = [from |-> r.from, path |-> r.path, headers |-> r.headers, filters |-> r.filters,
             backends |-> r.backends]
    BY DEF IsRule
  <2> DEFINE one == [r EXCEPT !.headers = hs]
             two == [one EXCEPT !.backends = bs]
  <2>2. one = [from |-> r.from, path |-> r.path, headers |-> hs, filters |-> r.filters,
               backends |-> r.backends]
    BY <2>1
  <2>3. new = two
    OBVIOUS
  <2> HIDE DEF one
  <2>4. two = [from |-> r.from, path |-> r.path, headers |-> hs, filters |-> r.filters, backends |-> bs]
    BY <2>2
  <2>5. new = [from |-> r.from, path |-> r.path, headers |-> hs, filters |-> r.filters, backends |-> bs]
    BY <2>3, <2>4
  <2> HIDE DEF new
  <2> QED
    BY <2>5
<1>4. HeaderRule(r, config, val, r.backends[x]) = new
  BY DEF HeaderRule, hs, bs
<1> HIDE DEF new
<1>5. new.from \in {0} \union DOMAIN provided
  BY <1>3 DEF IsRule
<1> QED
  BY <1>1, <1>2, <1>3, <1>4, <1>5 DEF IsRule, IsBase

\* The rules for headers are not base rules, and there are none without a header.
LEMMA HeaderRulesShape ==
  ASSUME NEW r, NEW provided, IsRule(r, provided), NEW config,
         NEW c \in DOMAIN r.backends, NEW p \in DOMAIN r.backends
  PROVE  LET new == HeaderRules(r, config, c, p)
         IN  /\ IsSeq(new)
             /\ \A n \in DOMAIN new :
                  /\ IsRule(new[n], provided) /\ ~IsBase(new[n])
                  /\ new[n].filters = r.filters /\ new[n].from = r.from
             /\ config.header = <<>> => new = <<>>
<1> DEFINE h(val, x) == HeaderRule(r, config, val, r.backends[x])
<1>1. \A val : \A x \in DOMAIN r.backends :
        /\ IsRule(h(val, x), provided) /\ ~IsBase(h(val, x))
        /\ h(val, x).filters = r.filters /\ h(val, x).from = r.from
  BY HeaderRuleShape
<1>2. CASE config.header = <<>>
  BY <1>2, EmptyIsSeq DEF HeaderRules
<1>3. CASE config.header # <<>> /\ config.value # <<>>
  <2>1. HeaderRules(r, config, c, p) = <<h(config.value, c)>>
    BY <1>3 DEF HeaderRules
  <2> HIDE DEF h
  <2> QED
    BY <1>1, <1>3, <2>1, SingleIsSeq
<1>4. CASE config.header # <<>> /\ config.value = <<>>
  <2> DEFINE u == h(<<"always">>, c)  v == h(<<"never">>, p)
  <2>1. HeaderRules(r, config, c, p) = <<u, v>>
    BY <1>4 DEF HeaderRules
  <2>2. /\ IsRule(u, provided) /\ ~IsBase(u) /\ u.filters = r.filters /\ u.from = r.from
        /\ IsRule(v, provided) /\ ~IsBase(v) /\ v.filters = r.filters /\ v.from = r.from
    BY <1>1
  <2> HIDE DEF u, v
  <2>3. <<u, v>> \in Seq({u, v}) /\ DOMAIN <<u, v>> = {1, 2} /\ <<u, v>>[1] = u /\ <<u, v>>[2] = v
    OBVIOUS
  <2>4. IsSeq(<<u, v>>)
    BY <2>3, SeqOfAny
  <2> QED
    BY <1>4, <2>1, <2>2, <2>3, <2>4
<1> QED
  BY <1>2, <1>3, <1>4

(***************************************************************************)
(* RulesKept                                                               *)
(***************************************************************************)
RoutesInv == \A key \in DOMAIN httpRoutes : IsRoute(httpRoutes[key], pir[key].rules)

AreHeaderRules(rules, provided) ==
  IsSeq(rules) /\ \A n \in DOMAIN rules : IsRule(rules[n], provided) /\ ~IsBase(rules[n])

NewRulesInv == group # Nothing => AreHeaderRules(newRules, pir[Key].rules)

KeptInv == InputsInv /\ LoopInv /\ RoutesInv /\ NewRulesInv

LEMMA RouteReplaced ==
  ASSUME RoutesInv, UNCHANGED inputs, NEW key \in DOMAIN httpRoutes, NEW rt,
         httpRoutes' = [httpRoutes EXCEPT ![key] = rt], IsRoute(rt, pir[key].rules)
  PROVE  RoutesInv'
<1>1. pir' = pir /\ DOMAIN httpRoutes' = DOMAIN httpRoutes
  BY DEF inputs
<1>2. \A k \in DOMAIN httpRoutes : httpRoutes'[k] = IF k = key THEN rt ELSE httpRoutes[k]
  OBVIOUS
<1> QED
  BY <1>1, <1>2 DEF RoutesInv

LEMMA RoutesUnchanged ==
  ASSUME RoutesInv, UNCHANGED inputs, UNCHANGED httpRoutes
  PROVE  RoutesInv'
  BY DEF RoutesInv, inputs

\* The rule at an index that the sources and the route have.
LEMMA RuleAt ==
  ASSUME InputsInv, LoopInv, RoutesInv, NEW parsers, AtRule(parsers)
  PROVE  /\ Key \in DOMAIN httpRoutes /\ IsRoute(Route, pir[Key].rules)
         /\ i \in DOMAIN Route.rules /\ IsRule(Route.rules[i], pir[Key].rules)
<1>1. Key \in DOMAIN httpRoutes /\ i \in Nat \ {0} /\ i <= Len(Route.rules)
  BY AtRuleFacts DEF LoopInv
<1>2. IsRoute(Route, pir[Key].rules)
  BY <1>1 DEF RoutesInv, Route
<1>3. DOMAIN Route.rules = 1..Len(Route.rules) /\ Len(Route.rules) \in Nat
  BY <1>2, IsSeqShape DEF IsRoute
<1>4. i \in DOMAIN Route.rules
  BY <1>1, <1>3
<1> QED
  BY <1>1, <1>2, <1>4 DEF IsRoute

LEMMA HeadersKeepRoutes ==
  ASSUME InputsInv, LoopInv, RoutesInv, ParseHeaders
  PROVE  RoutesInv'
<1> DEFINE fs == Route.rules[i].filters \o HeaderFilters(annotations[Source.ing])
           r  == [Route.rules[i] EXCEPT !.filters = fs]
           rt == [Route EXCEPT !.rules = [@ EXCEPT ![i] = r]]
<1>1. /\ AtRule({"header"})
      /\ httpRoutes' = [httpRoutes EXCEPT
           ![Key].rules[i].filters = @ \o HeaderFilters(annotations[Source.ing])]
      /\ UNCHANGED inputs
  BY DEF ParseHeaders, AtSource
<1>2. /\ Key \in DOMAIN httpRoutes /\ IsRoute(Route, pir[Key].rules)
      /\ i \in DOMAIN Route.rules /\ IsRule(Route.rules[i], pir[Key].rules)
  BY <1>1, RuleAt
<1>3. httpRoutes' = [httpRoutes EXCEPT ![Key] = rt]
  BY <1>1 DEF Route
<1> HIDE DEF fs
<1>4. /\ IsRule(r, pir[Key].rules) /\ r.from = Route.rules[i].from /\ r.headers = Route.rules[i].headers
      /\ BackendSources(r) = BackendSources(Route.rules[i])
  <2> DEFINE old == Route.rules[i]  new == [old EXCEPT !.filters = fs]
  <2>1. IsRule(old, pir[Key].rules)
    BY <1>2
  <2> HIDE DEF old
  <2>2. new = [from |-> old.from, path |-> old.path, headers |-> old.headers, filters |-> fs,
               backends |-> old.backends]
    BY <2>1 DEF IsRule
  <2> HIDE DEF new
  <2>3. /\ IsRule(new, pir[Key].rules) /\ new.from = old.from /\ new.headers = old.headers
        /\ BackendSources(new) = BackendSources(old)
    BY <2>1, <2>2 DEF IsRule, BackendSources
  <2> QED
    BY <2>3 DEF new, old
<1> HIDE DEF r
<1>5. IsRoute(rt, pir[Key].rules)
  BY <1>2, <1>4, RuleReplaced
<1> HIDE DEF rt
<1> QED
  BY <1>1, <1>2, <1>3, <1>5, RouteReplaced

\* The canary and the production backend that ParseCanaryRule finds.
CanarySources == {n \in DOMAIN Sources[i] : IsCanary(annotations[Sources[i][n].ing])}
ValidSources  == {n \in CanarySources : ValidCanary(annotations[Sources[i][n].ing])}
OtherSources  == DOMAIN Sources[i] \ CanarySources
TheConfig     == CanaryConfig(annotations[Sources[i][Min(ValidSources)].ing])

LEMMA CanaryStep ==
  ASSUME ParseCanaryRule
  PROVE  /\ AtRule({"canary"}) /\ UNCHANGED <<inputs, gateways, appRoot>>
         /\ \/ step' = Panicked /\ UNCHANGED <<pending, group, i, j, httpRoutes, errors, newRules>>
            \/ /\ Len(Sources[i]) <= Len(Route.rules[i].backends)
               /\ errors' = errors \union CanaryErrors(CanarySources, ValidSources, OtherSources)
               /\ i' = i + 1 /\ UNCHANGED <<step, pending, group, j>>
               /\ \/ /\ ValidSources = {} \/ OtherSources = {}
                     /\ UNCHANGED <<httpRoutes, newRules>>
                  \/ /\ ValidSources # {} /\ OtherSources # {}
                     /\ newRules' = newRules \o HeaderRules(Route.rules[i], TheConfig,
                                                            Min(ValidSources), Min(OtherSources))
                     /\ httpRoutes' = [httpRoutes EXCEPT
                          ![Key].rules[i] = Weighted(@, TheConfig, Min(ValidSources), Min(OtherSources))]
  BY DEF ParseCanaryRule, Panic, CanarySources, ValidSources, OtherSources, TheConfig

LEMMA RulesConcatenated ==
  ASSUME NEW provided, NEW s, NEW t, AreHeaderRules(s, provided), AreHeaderRules(t, provided)
  PROVE  AreHeaderRules(s \o t, provided)
<1>1. IsSeq(s) /\ IsSeq(t)
  BY DEF AreHeaderRules
<1>2. /\ Len(s) \in Nat /\ DOMAIN s = 1..Len(s)
      /\ Len(t) \in Nat /\ DOMAIN t = 1..Len(t)
  BY <1>1, IsSeqShape
<1>3. /\ IsSeq(s \o t) /\ DOMAIN (s \o t) = 1..(Len(s) + Len(t))
      /\ \A n \in 1..Len(s) : (s \o t)[n] = s[n]
      /\ \A n \in 1..Len(t) : (s \o t)[Len(s) + n] = t[n]
  BY <1>1, ConcatSeq
<1>4. ASSUME NEW n \in DOMAIN (s \o t)
      PROVE  IsRule((s \o t)[n], provided) /\ ~IsBase((s \o t)[n])
  <2> DEFINE both == s \o t
  <2>1. CASE n \in 1..Len(s)
    <3>1. both[n] = s[n]
      BY <1>3, <2>1
    <3> HIDE DEF both
    <3> QED
      BY <1>2, <2>1, <3>1 DEF AreHeaderRules, both
  <2>2. CASE n - Len(s) \in 1..Len(t)
    <3>1. n = Len(s) + (n - Len(s))
      BY <1>2, <1>3
    <3>2. both[n] = t[n - Len(s)]
      BY <1>3, <2>2, <3>1
    <3> HIDE DEF both
    <3> QED
      BY <1>2, <2>2, <3>2 DEF AreHeaderRules, both
  <2>3. n \in 1..Len(s) \/ n - Len(s) \in 1..Len(t)
    BY <1>2, <1>3
  <2> QED
    BY <2>1, <2>2, <2>3
<1> QED
  BY <1>3, <1>4 DEF AreHeaderRules

\* The canary is the first valid one, and the production backend the first of
\* the others; the rule has a backend for each.
LEMMA CanaryIndices ==
  ASSUME InputsInv, LoopInv, RoutesInv, AtRule({"canary"}),
         Len(Sources[i]) <= Len(Route.rules[i].backends), ValidSources # {}, OtherSources # {}
  PROVE  /\ Min(ValidSources) \in ValidSources /\ Min(OtherSources) \in OtherSources
         /\ \A n \in ValidSources : Min(ValidSources) <= n
         /\ Min(ValidSources) \in DOMAIN Route.rules[i].backends
         /\ Min(OtherSources) \in DOMAIN Route.rules[i].backends
<1> DEFINE bs == Route.rules[i].backends
<1>1. DOMAIN Sources[i] = 1..Len(Sources[i]) /\ Len(Sources[i]) \in Nat
  BY AtRuleFacts, IsSeqShape
<1>2. DOMAIN bs = 1..Len(bs) /\ Len(bs) \in Nat
  BY RuleAt, IsSeqShape DEF IsRule
<1>3. ValidSources \subseteq 1..Len(Sources[i]) /\ OtherSources \subseteq 1..Len(Sources[i])
  BY <1>1 DEF ValidSources, CanarySources, OtherSources
<1>4. ValidSources \subseteq Nat /\ OtherSources \subseteq Nat
  BY <1>1, <1>3
<1>5. /\ Min(ValidSources) \in ValidSources /\ Min(OtherSources) \in OtherSources
      /\ \A n \in ValidSources : Min(ValidSources) <= n
  BY <1>4, MinIsLeast
<1>6. 1..Len(Sources[i]) \subseteq DOMAIN bs
  BY <1>1, <1>2
<1> QED
  BY <1>3, <1>5, <1>6

LEMMA CanaryKeepsRoutes ==
  ASSUME InputsInv, LoopInv, RoutesInv, NewRulesInv, ParseCanaryRule
  PROVE  RoutesInv' /\ NewRulesInv'
<1> DEFINE provided == pir[Key].rules
           rule == Route.rules[i]
<1>1. AtRule({"canary"}) /\ UNCHANGED inputs /\ UNCHANGED group
  BY CanaryStep
<1>2. /\ Key \in DOMAIN httpRoutes /\ IsRoute(Route, provided)
      /\ i \in DOMAIN Route.rules /\ IsRule(rule, provided)
  BY <1>1, RuleAt
<1>3. Key' = Key /\ pir' = pir
  BY <1>1 DEF Key, inputs
<1>4. CASE UNCHANGED <<httpRoutes, newRules>>
  BY <1>1, <1>3, <1>4, RoutesUnchanged DEF NewRulesInv
<1>5. CASE ~UNCHANGED <<httpRoutes, newRules>>
  <2> DEFINE c == Min(ValidSources)
             p == Min(OtherSources)
             a == annotations[Sources[i][c].ing]
             w == Weighted(rule, CanaryConfig(a), c, p)
             hs == HeaderRules(rule, CanaryConfig(a), c, p)
  <2>1. /\ Len(Sources[i]) <= Len(rule.backends) /\ ValidSources # {} /\ OtherSources # {}
        /\ newRules' = newRules \o hs
        /\ httpRoutes' = [httpRoutes EXCEPT ![Key].rules[i] = w]
    <3>1. /\ Len(Sources[i]) <= Len(rule.backends) /\ ValidSources # {} /\ OtherSources # {}
          /\ newRules' = newRules \o hs
          /\ httpRoutes' = [httpRoutes EXCEPT
               ![Key].rules[i] = Weighted(@, CanaryConfig(a), c, p)]
      BY <1>5, CanaryStep DEF TheConfig
    <3> QED
      BY <3>1 DEF Route
  <2>2. c \in ValidSources /\ c \in DOMAIN rule.backends /\ p \in DOMAIN rule.backends
    BY <1>1, <2>1, CanaryIndices
  <2>3. ValidCanary(a)
    BY <2>2 DEF ValidSources
  <2> DEFINE rt == [Route EXCEPT !.rules = [@ EXCEPT ![i] = w]]
  <2>4. httpRoutes' = [httpRoutes EXCEPT ![Key] = rt]
    BY <2>1 DEF Route
  <2> HIDE DEF rule, c, p, a
  <2>5. IsRule(w, provided) /\ w.from = rule.from /\ w.headers = rule.headers
        /\ BackendSources(w) = BackendSources(rule)
    BY <1>2, <2>2, <2>3, WeightedShape
  <2>6. AreHeaderRules(hs, provided)
    BY <1>2, <2>2, HeaderRulesShape DEF AreHeaderRules
  <2> HIDE DEF w, hs, rt
  <2>7. RoutesInv'
    <3>1. IsRoute(rt, provided)
      BY <1>2, <2>5, RuleReplaced DEF rule, rt
    <3> QED
      BY <1>1, <1>2, <2>4, <3>1, RouteReplaced
  <2>8. AreHeaderRules(newRules \o hs, provided)
    <3>1. AreHeaderRules(newRules, provided)
      BY <1>1, AtRuleFacts DEF NewRulesInv
    <3> HIDE DEF provided
    <3> QED
      BY <2>6, <3>1, RulesConcatenated
  <2> QED
    BY <1>3, <2>1, <2>7, <2>8 DEF NewRulesInv
<1> QED
  BY <1>4, <1>5

LEMMA FinishCanaryKeepsRoutes ==
  ASSUME InputsInv, LoopInv, RoutesInv, NewRulesInv, FinishCanary
  PROVE  RoutesInv'
<1> DEFINE rt == [Route EXCEPT !.rules = (newRules \o @) \o <<>>]
           provided == pir[Key].rules
<1>1. /\ group # Nothing /\ UNCHANGED inputs
      /\ httpRoutes' = [httpRoutes EXCEPT ![Key].rules = newRules \o @]
  BY DEF FinishCanary, RulesDone, Running, WithNewRules
<1>2. /\ Key \in DOMAIN httpRoutes /\ IsRoute(Route, provided) /\ AreHeaderRules(newRules, provided)
      /\ IsSeq(provided)
  BY <1>1, InputsAreProvided DEF LoopInv, RoutesInv, NewRulesInv, Route, Provided, IsProvided
<1>3. (newRules \o Route.rules) \o <<>> = newRules \o Route.rules
  <2> DEFINE both == newRules \o Route.rules
  <2>1. IsSeq(newRules) /\ IsSeq(Route.rules)
    BY <1>2 DEF IsRoute, AreHeaderRules
  <2>2. IsSeq(both)
    BY <2>1, ConcatSeq
  <2> HIDE DEF both
  <2>3. both \o <<>> = both
    BY <2>2, ConcatEmptySeq DEF IsSeq
  <2> QED
    BY <2>3 DEF both
<1>4. httpRoutes' = [httpRoutes EXCEPT ![Key] = [Route EXCEPT !.rules = newRules \o @]]
  BY <1>1 DEF Route
<1>5. rt = [Route EXCEPT !.rules = newRules \o @]
  BY <1>3
<1>6. IsRoute(rt, provided)
  <2> DEFINE none == <<>>
  <2>1. IsSeq(none) /\ \A n \in DOMAIN none : FALSE
    BY EmptyIsSeq
  <2>2. rt = [Route EXCEPT !.rules = (newRules \o @) \o none]
    OBVIOUS
  <2> HIDE DEF none, rt, provided
  <2>3. IsRoute([Route EXCEPT !.rules = (newRules \o @) \o none], provided)
    BY <1>2, <2>1, RulesAdded DEF AreHeaderRules
  <2> QED
    BY <2>2, <2>3
<1> HIDE DEF rt
<1> QED
  BY <1>1, <1>2, <1>4, <1>5, <1>6, RouteReplaced

\* The rule for app-root is behind the others, or there is none.
LEMMA AppRootKeepsRoutes ==
  ASSUME NEW rt, NEW provided, IsRoute(rt, provided), IsSeq(provided), NEW root
  PROVE  IsRoute(WithAppRoot(rt, root), provided)
<1> DEFINE exact  == {n \in DOMAIN rt.rules : rt.rules[n].path = RootMatch}
           rules  == IF exact = {} THEN Append(rt.rules, AppRootRule) ELSE rt.rules
           target == IF exact = {} THEN Len(rules) ELSE Min(exact)
           update == Update([url |-> RedirectURL(root.ing, rt.host, root.value), statusCode |-> 302],
                            {"app-root"})
           features == Written(rt.features, <<"redirect", target>>, update, root.ing)
           one    == [rt EXCEPT !.rules = rules]
           new    == [one EXCEPT !.features = features]
<1>1. WithAppRoot(rt, root) = new
  BY DEF WithAppRoot
<1> HIDE DEF features
<1>2. IsSeq(rt.rules)
  BY DEF IsRoute
<1>3. IsRoute(one, provided)
  <2>1. CASE exact # {}
    <3>1. one = rt
      BY <2>1 DEF IsRoute
    <3> HIDE DEF one
    <3> QED
      BY <3>1
  <2>2. CASE exact = {}
    <3> DEFINE none == <<>>  back == <<AppRootRule>>  all == (none \o rt.rules) \o back
    <3>1. IsSeq(none) /\ \A n \in DOMAIN none : FALSE
      BY EmptyIsSeq
    <3>2. IsRule(AppRootRule, provided) /\ ~IsBase(AppRootRule)
      BY EmptyIsSeq DEF AppRootRule, IsRule, IsBase
    <3>3. IsSeq(back) /\ \A n \in DOMAIN back : IsRule(back[n], provided) /\ ~IsBase(back[n])
      BY <3>2, SingleIsSeq
    <3>4. rules = all
      <4>1. none \o rt.rules = rt.rules
        BY <1>2, ConcatEmptySeq DEF IsSeq
      <4>2. rt.rules \in Seq({rt.rules[n] : n \in DOMAIN rt.rules} \union {AppRootRule})
        BY <1>2, SeqMonotonic DEF IsSeq
      <4>3. Append(rt.rules, AppRootRule) = rt.rules \o <<AppRootRule>>
        BY <4>2, AppendIsConcat
      <4> QED
        BY <2>2, <4>1, <4>3
    <3> HIDE DEF none, back, rules
    <3>5. IsRoute([rt EXCEPT !.rules = (none \o @) \o back], provided)
      BY <3>1, <3>3, RulesAdded
    <3> QED
      BY <3>4, <3>5
  <2> QED
    BY <2>1, <2>2
<1> HIDE DEF one
<1>4. IsRoute(new, provided)
  BY <1>3, FeaturesReplaced
<1> QED
  BY <1>1, <1>4

LEMMA OthersKeepRoutes ==
  ASSUME InputsInv, LoopInv, RoutesInv, FinishRedirect \/ ParseFeature \/ ParseAuth
  PROVE  RoutesInv'
<1> DEFINE provided == pir[Key].rules
<1>1. UNCHANGED inputs /\ Key \in DOMAIN httpRoutes /\ IsRoute(Route, provided) /\ IsSeq(provided)
  <2>1. UNCHANGED inputs /\ group # Nothing
    BY DEF FinishRedirect, ParseFeature, ParseAuth, RulesDone, AtSource, AtRule, Running
  <2>2. Key \in DOMAIN httpRoutes /\ Key \in DOMAIN pir
    BY <2>1 DEF LoopInv
  <2>3. IsProvided(provided, ingresses)
    BY <2>2, InputsAreProvided DEF Provided
  <2> QED
    BY <2>1, <2>2, <2>3 DEF RoutesInv, Route, IsProvided
<1>2. \/ UNCHANGED httpRoutes
      \/ \E root : httpRoutes' = [httpRoutes EXCEPT ![Key] = WithAppRoot(@, root)]
      \/ \E features : httpRoutes' = [httpRoutes EXCEPT ![Key].features = features]
  <2>1. CASE FinishRedirect
    BY <2>1 DEF FinishRedirect
  <2>2. CASE ParseFeature
    BY <2>2 DEF ParseFeature
  <2>3. CASE ParseAuth
    BY <2>3 DEF ParseAuth
  <2> QED
    BY <2>1, <2>2, <2>3
<1>3. ASSUME NEW root, httpRoutes' = [httpRoutes EXCEPT ![Key] = WithAppRoot(@, root)]
      PROVE  RoutesInv'
  <2> DEFINE rt == WithAppRoot(Route, root)
  <2>1. httpRoutes' = [httpRoutes EXCEPT ![Key] = rt]
    BY <1>3 DEF Route
  <2>2. IsRoute(rt, provided)
    BY <1>1, AppRootKeepsRoutes
  <2> HIDE DEF rt
  <2> QED
    BY <1>1, <2>1, <2>2, RouteReplaced
<1>4. ASSUME NEW features, httpRoutes' = [httpRoutes EXCEPT ![Key].features = features]
      PROVE  RoutesInv'
  <2> DEFINE rt == [Route EXCEPT !.features = features]
  <2>1. httpRoutes' = [httpRoutes EXCEPT ![Key] = rt]
    BY <1>4 DEF Route
  <2>2. IsRoute(rt, provided)
    BY <1>1, FeaturesReplaced
  <2> HIDE DEF rt
  <2> QED
    BY <1>1, <2>1, <2>2, RouteReplaced
<1> QED
  BY <1>1, <1>2, <1>3, <1>4, RoutesUnchanged

LEMMA InitKept == Init => KeptInv
<1> SUFFICES ASSUME Init PROVE KeptInv
  OBVIOUS
<1>1. InputsInv /\ Provided
  BY InitInputs, InputsAreProvided
<1>2. /\ step = 1 /\ pending = DOMAIN ruleGroups /\ group = Nothing /\ i = 1 /\ j = 1
      /\ httpRoutes = [key \in DOMAIN pir |-> EmitterRoute(pir[key])]
  BY DEF Init
<1>3. LoopInv
  BY <1>2, ParsersShape DEF LoopInv, Panicked
<1>4. \A key \in DOMAIN httpRoutes : IsRoute(httpRoutes[key], pir[key].rules)
  BY <1>1, <1>2, EmitterRouteShape DEF Provided
<1> QED
  BY <1>1, <1>2, <1>3, <1>4 DEF KeptInv, RoutesInv, NewRulesInv

LEMMA StepKept == KeptInv /\ [FeatureStep]_featureVars => KeptInv'
<1> SUFFICES ASSUME KeptInv, [FeatureStep]_featureVars PROVE KeptInv'
  OBVIOUS
<1>1. InputsInv /\ LoopInv /\ RoutesInv /\ NewRulesInv /\ (FeatureStep \/ UNCHANGED featureVars)
  BY DEF KeptInv
<1>2. UNCHANGED inputs /\ InputsInv' /\ LoopInv'
  BY <1>1, StepKeepsInputs, InputsKept, LoopStep
<1>3. ruleGroups' = ruleGroups /\ pir' = pir
  BY <1>2 DEF inputs
<1>4. CASE VisitGroup(FeatureParsers)
  <2>1. UNCHANGED httpRoutes /\ newRules' = <<>>
    BY <1>4 DEF VisitGroup
  <2>2. AreHeaderRules(<<>>, pir'[Key'].rules)
    BY EmptyIsSeq DEF AreHeaderRules
  <2>3. NewRulesInv'
    BY <2>1, <2>2 DEF NewRulesInv
  <2> QED
    BY <1>1, <1>2, <2>1, <2>3, RoutesUnchanged DEF KeptInv
<1>5. CASE /\ UNCHANGED httpRoutes
           /\ group' = Nothing \/ UNCHANGED <<group, newRules>>
  <2>1. NewRulesInv'
    BY <1>1, <1>3, <1>5 DEF NewRulesInv, Key
  <2> QED
    BY <1>1, <1>2, <1>5, <2>1, RoutesUnchanged DEF KeptInv
<1>6. CASE ParseHeaders \/ ParseFeature \/ ParseAuth
  <2>1. UNCHANGED <<group, newRules>>
    BY <1>6 DEF ParseHeaders, ParseFeature, ParseAuth, NextSource, Panic, localVars
  <2>2. NewRulesInv'
    BY <1>1, <1>3, <2>1 DEF NewRulesInv, Key
  <2> QED
    BY <1>1, <1>2, <1>6, <2>2, HeadersKeepRoutes, OthersKeepRoutes DEF KeptInv
<1>7. CASE FinishCanary \/ FinishRedirect
  <2>1. group' = Nothing
    BY <1>7 DEF FinishCanary, FinishRedirect, LeaveGroup
  <2>2. NewRulesInv'
    BY <2>1 DEF NewRulesInv
  <2> QED
    BY <1>1, <1>2, <1>7, <2>2, FinishCanaryKeepsRoutes, OthersKeepRoutes DEF KeptInv
<1>8. CASE ParseCanaryRule
  BY <1>1, <1>2, <1>8, CanaryKeepsRoutes DEF KeptInv
<1>9. CASE NextParser(FeatureParsers) \/ NextRule(PerSource)
           \/ FinishGroup(FeatureParsers \ {"canary", "redirect"}) \/ UNCHANGED featureVars
  <2>1. /\ UNCHANGED httpRoutes
        /\ group' = Nothing \/ UNCHANGED <<group, newRules>>
    BY <1>9 DEF NextParser, NextRule, FinishGroup, LeaveGroup, featureVars, localVars, loopVars
  <2> QED
    BY <1>5, <2>1
<1> QED
  BY <1>1, <1>4, <1>6, <1>7, <1>8, <1>9 DEF FeatureStep

LEMMA KeptEverSince == Spec => []KeptInv
<1>1. KeptInv /\ [Next]_featureVars => KeptInv'
  BY StepKept DEF Next, FeaturesEnded
<1> QED
  BY <1>1, InitKept, PTL DEF Spec

\* Whatever was read and however it is annotated, the parsers neither lose nor
\* repeat nor reorder a rule: the rules of a route of the emitter IR are some
\* rules for canary headers, the rules of the provider IR with their backends,
\* and perhaps a rule for app-root (canary.go:124-262, redirect.go:184-245).
THEOREM RulesAreKept == Spec => []RulesKept
<1>1. KeptInv => RulesKept
  BY DEF KeptInv, RoutesInv, IsRoute, RulesKept
<1> QED
  BY <1>1, KeptEverSince, PTL

(***************************************************************************)
(* TypeOK                                                                  *)
(***************************************************************************)
IsFeatures(features) ==
  \A at \in DOMAIN features :
    at[1] \in FeatureNames /\ at[2] \in Nat \ {0} /\ IsIR(features[at])

IsAppRoot(root) ==
  root # <<>> => root = <<root[1]>> /\ root[1] = [ing |-> root[1].ing, value |-> root[1].value]
                 /\ root[1].ing \in ingresses

FeaturesInv ==
  /\ \A key \in DOMAIN httpRoutes : IsFeatures(httpRoutes[key].features)
  /\ \A g \in DOMAIN gateways :
       /\ gateways[g] = [features |-> gateways[g].features, listeners |-> gateways[g].listeners]
       /\ \A n \in DOMAIN gateways[g].features : IsIR(gateways[g].features[n])
  /\ IsAppRoot(appRoot)

LEMMA WrittenIRShape ==
  ASSUME NEW old, IsIR(old), NEW update, NEW ing \in ingresses
  PROVE  IsIR(WrittenIR(old, update, ing))
<1> DEFINE one    == [ingress |-> NN(ing), keys |-> update.keys]
           source == IF update.keys = {} THEN old.source ELSE <<one>>
           fields == Over(update.fields, old.fields)
<1>1. WrittenIR(old, update, ing) = [fields |-> fields, source |-> source]
  BY DEF WrittenIR
<1>2. one.ingress \in {NN(x) : x \in ingresses}
  OBVIOUS
<1> HIDE DEF one, fields
<1>3. <<one>> # <<>> /\ Len(<<one>>) = 1 /\ <<one>>[1] = one
  OBVIOUS
<1>4. source = <<>> \/ (Len(source) = 1 /\ source[1].ingress \in {NN(x) : x \in ingresses})
  BY <1>2, <1>3 DEF IsIR
<1> HIDE DEF source
<1> QED
  BY <1>1, <1>4 DEF IsIR

LEMMA EmptyIRShape == IsIR(EmptyIR)
  BY DEF IsIR, EmptyIR

LEMMA WrittenShape ==
  ASSUME NEW features, IsFeatures(features), NEW at, at[1] \in FeatureNames, at[2] \in Nat \ {0},
         NEW update, NEW ing \in ingresses
  PROVE  IsFeatures(Written(features, at, update, ing))
<1> DEFINE ir  == WrittenIR(IF at \in DOMAIN features THEN features[at] ELSE EmptyIR, update, ing)
           new == Written(features, at, update, ing)
<1>1. CASE update = NoUpdate
  BY <1>1 DEF Written
<1>2. CASE update # NoUpdate
  <2>1. new = Put(features, at, ir)
    BY <1>2 DEF Written
  <2>2. IsIR(IF at \in DOMAIN features THEN features[at] ELSE EmptyIR)
    BY EmptyIRShape DEF IsFeatures
  <2>3. IsIR(ir)
    BY <2>2, WrittenIRShape
  <2> HIDE DEF ir
  <2> QED
    BY <2>1, <2>3 DEF Put, IsFeatures
<1> QED
  BY <1>1, <1>2

LEMMA OverShape ==
  ASSUME NEW f, NEW g, \A n \in DOMAIN f : IsIR(f[n]), \A n \in DOMAIN g : IsIR(g[n])
  PROVE  \A n \in DOMAIN Over(f, g) : IsIR(Over(f, g)[n])
  BY DEF Over

LEMMA FeatureNamed ==
  ASSUME NEW parser, parser \in OneFeature \union {"basicAuth", "externalAuth"}, NEW n, n \in Nat \ {0}
  PROVE  LET at == <<parser, n>> IN at[1] \in FeatureNames /\ at[2] \in Nat \ {0}
  BY DEF FeatureNames

LEMMA RedirectIsAFeature == "redirect" \in OneFeature
<1>1. 4 \in 2..14 /\ Parsers[4] = "redirect"
  BY DEF Parsers
<1> QED
  BY <1>1 DEF OneFeature, PerSource

\* The features of the route that is visited are replaced.
LEMMA FeaturesWritten ==
  ASSUME FeaturesInv, NEW key \in DOMAIN httpRoutes, NEW rt,
         httpRoutes' = [httpRoutes EXCEPT ![key] = rt], IsFeatures(rt.features)
  PROVE  \A k \in DOMAIN httpRoutes' : IsFeatures(httpRoutes'[k].features)
  BY DEF FeaturesInv

LEMMA MTLSShape ==
  ASSUME FeaturesInv, NEW gw \in DOMAIN gateways, NEW ns, NEW update, NEW ing \in ingresses
  PROVE  LET new == WithMTLS(gw, ns, update, ing)
         IN  \A g \in DOMAIN new :
               /\ new[g] = [features |-> new[g].features, listeners |-> new[g].listeners]
               /\ \A n \in DOMAIN new[g].features : IsIR(new[g].features[n])
<1> DEFINE old(n)   == IF n \in DOMAIN gateways[gw].features THEN gateways[gw].features[n] ELSE EmptyIR
           f        == [n \in ns |-> WrittenIR(old(n), update, ing)]
           features == Over(f, gateways[gw].features)
           new      == [gateways EXCEPT ![gw].features = features]
<1>1. WithMTLS(gw, ns, update, ing) = new
  BY DEF WithMTLS
<1>2. \A n \in DOMAIN f : IsIR(f[n])
  <2>1. \A n : IsIR(old(n))
    BY EmptyIRShape DEF FeaturesInv
  <2> HIDE DEF old
  <2> QED
    BY <2>1, WrittenIRShape
<1>3. \A n \in DOMAIN features : IsIR(features[n])
  <2>1. \A n \in DOMAIN gateways[gw].features : IsIR(gateways[gw].features[n])
    BY DEF FeaturesInv
  <2> HIDE DEF f
  <2> QED
    BY <1>2, <2>1, OverShape
<1> HIDE DEF features
<1>4. /\ new[gw] = [features |-> features, listeners |-> gateways[gw].listeners]
      /\ \A g \in DOMAIN gateways : g # gw => new[g] = gateways[g]
  BY DEF FeaturesInv
<1>5. DOMAIN new = DOMAIN gateways
  OBVIOUS
<1> HIDE DEF new
<1>6. \A g \in DOMAIN new :
        /\ new[g] = [features |-> new[g].features, listeners |-> new[g].listeners]
        /\ \A n \in DOMAIN new[g].features : IsIR(new[g].features[n])
  BY <1>3, <1>4, <1>5 DEF FeaturesInv
<1> QED
  BY <1>1, <1>6

LEMMA FeatureStepKeepsFeatures ==
  ASSUME InputsInv, LoopInv, FeaturesInv, ParseFeature
  PROVE  FeaturesInv'
<1> DEFINE parser == Parsers[step]
           a      == annotations[Source.ing]
           fs     == Written(Route.features, <<parser, i>>, FeatureUpdate(parser, a, Source), Source.ing)
<1>1. AtSource(OneFeature) /\ UNCHANGED inputs /\ UNCHANGED gateways
  BY DEF ParseFeature
<1>2. ingresses' = ingresses
  BY <1>1 DEF inputs
<1>3. /\ Key \in DOMAIN httpRoutes /\ i \in Nat \ {0} /\ Source.ing \in ingresses
      /\ parser \in OneFeature
  BY <1>1, AtSourceFacts DEF LoopInv, AtSource, AtRule, Running, At
<1>4. IsFeatures(fs)
  <2>1. IsFeatures(Route.features)
    BY <1>3 DEF FeaturesInv, Route
  <2> DEFINE at == <<parser, i>>
  <2>2. at[1] \in FeatureNames /\ at[2] \in Nat \ {0}
    BY <1>3, FeatureNamed
  <2> HIDE DEF at
  <2> QED
    BY <1>3, <2>1, <2>2, WrittenShape DEF at
<1> DEFINE rt == [Route EXCEPT !.features = fs]
<1>5. CASE UNCHANGED <<httpRoutes, appRoot>>
  BY <1>1, <1>2, <1>5 DEF FeaturesInv, IsFeatures, IsIR, IsAppRoot
<1>6. CASE ~UNCHANGED <<httpRoutes, appRoot>>
  <2>1. /\ httpRoutes' = [httpRoutes EXCEPT ![Key].features =
             Written(@, <<parser, RuleIndex>>, FeatureUpdate(parser, a, Source), Source.ing)]
        /\ appRoot' = IF parser = "redirect"
                      THEN AppRootAfter(appRoot, Source.ing, Get(a, "app-root"))
                      ELSE appRoot
    BY <1>6 DEF ParseFeature
  <2>2. httpRoutes' = [httpRoutes EXCEPT ![Key] = rt]
    BY <2>1 DEF Route, RuleIndex
  <2>3. rt.features = fs \/ rt = Route
    OBVIOUS
  <2>4. IsFeatures(rt.features)
    BY <1>3, <1>4, <2>3 DEF FeaturesInv, Route
  <2> HIDE DEF rt, fs
  <2>5. \A k \in DOMAIN httpRoutes' : IsFeatures(httpRoutes'[k].features)
    BY <1>3, <2>2, <2>4, FeaturesWritten
  <2>6. IsAppRoot(appRoot')
    BY <1>3, <2>1 DEF FeaturesInv, IsAppRoot, AppRootAfter
  <2> QED
    BY <1>1, <1>2, <2>5, <2>6 DEF FeaturesInv, IsFeatures, IsIR, IsAppRoot
<1> QED
  BY <1>5, <1>6

LEMMA AuthKeepsFeatures ==
  ASSUME InputsInv, LoopInv, FeaturesInv, ParseAuth
  PROVE  FeaturesInv'
<1> DEFINE ing == Source.ing
           a   == annotations[ing]
           gw  == ParentGateway(Route)
           matching == MatchingHTTPSListeners(gw, group.host)
           basic(features) == Written(features, <<"basicAuth", i>>, BasicAuthUpdate(a, ing), ing)
           external(features) == Written(features, <<"externalAuth", i>>, ExternalAuthUpdate(a), ing)
           b == basic(Route.features)
           e == external(b)
<1>1. AtSource({"auth"}) /\ UNCHANGED inputs /\ UNCHANGED appRoot
  BY DEF ParseAuth, localVars
<1>2. ingresses' = ingresses
  BY <1>1 DEF inputs
<1>3. Key \in DOMAIN httpRoutes /\ i \in Nat \ {0} /\ ing \in ingresses
  BY <1>1, AtSourceFacts DEF LoopInv
<1>4. IsFeatures(b) /\ IsFeatures(e)
  <2>1. IsFeatures(Route.features)
    BY <1>3 DEF FeaturesInv, Route
  <2> DEFINE at1 == <<"basicAuth", i>>  at2 == <<"externalAuth", i>>
  <2>2. at1[1] \in FeatureNames /\ at1[2] \in Nat \ {0} /\ at2[1] \in FeatureNames /\ at2[2] \in Nat \ {0}
    BY <1>3 DEF FeatureNames
  <2> HIDE DEF at1, at2
  <2>3. \A fs : IsFeatures(fs) => IsFeatures(Written(fs, at1, BasicAuthUpdate(a, ing), ing))
    BY <1>3, <2>2, WrittenShape
  <2>4. \A fs : IsFeatures(fs) => IsFeatures(Written(fs, at2, ExternalAuthUpdate(a), ing))
    BY <1>3, <2>2, WrittenShape
  <2>5. IsFeatures(b)
    BY <2>1, <2>3 DEF at1
  <2> HIDE DEF b
  <2> QED
    BY <2>4, <2>5 DEF at2
<1>5. /\ \/ UNCHANGED httpRoutes
         \/ httpRoutes' = [httpRoutes EXCEPT ![Key].features = basic(@)]
         \/ httpRoutes' = [httpRoutes EXCEPT ![Key].features = external(basic(@))]
      /\ \/ UNCHANGED gateways
         \/ matching # {} /\ gateways' = WithMTLS(gw, matching, MTLSUpdate(a), ing)
  BY DEF ParseAuth
<1>6. ASSUME NEW fs, IsFeatures(fs), httpRoutes' = [httpRoutes EXCEPT ![Key] = [Route EXCEPT !.features = fs]]
      PROVE  \A k \in DOMAIN httpRoutes' : IsFeatures(httpRoutes'[k].features)
  <2> DEFINE rt == [Route EXCEPT !.features = fs]
  <2>1. rt.features = fs \/ rt = Route
    OBVIOUS
  <2>2. IsFeatures(rt.features)
    BY <1>3, <1>6, <2>1 DEF FeaturesInv, Route
  <2>3. httpRoutes' = [httpRoutes EXCEPT ![Key] = rt]
    BY <1>6
  <2> HIDE DEF rt
  <2> QED
    BY <1>3, <2>2, <2>3, FeaturesWritten
<1>7. \A k \in DOMAIN httpRoutes' : IsFeatures(httpRoutes'[k].features)
  <2>1. CASE UNCHANGED httpRoutes
    BY <2>1 DEF FeaturesInv
  <2>2. CASE httpRoutes' = [httpRoutes EXCEPT ![Key].features = basic(@)]
    <3>1. httpRoutes' = [httpRoutes EXCEPT ![Key] = [Route EXCEPT !.features = b]]
      BY <2>2 DEF Route
    <3> HIDE DEF b
    <3> QED
      BY <1>4, <1>6, <3>1
  <2>3. CASE httpRoutes' = [httpRoutes EXCEPT ![Key].features = external(basic(@))]
    <3>1. httpRoutes' = [httpRoutes EXCEPT ![Key] = [Route EXCEPT !.features = e]]
      BY <2>3 DEF Route
    <3> HIDE DEF e
    <3> QED
      BY <1>4, <1>6, <3>1
  <2> QED
    BY <1>5, <2>1, <2>2, <2>3
<1>8. \A g \in DOMAIN gateways' :
        /\ gateways'[g] = [features |-> gateways'[g].features, listeners |-> gateways'[g].listeners]
        /\ \A n \in DOMAIN gateways'[g].features : IsIR(gateways'[g].features[n])
  <2>1. CASE UNCHANGED gateways
    BY <2>1 DEF FeaturesInv
  <2>2. CASE matching # {} /\ gateways' = WithMTLS(gw, matching, MTLSUpdate(a), ing)
    <3>1. gw \in DOMAIN gateways
      BY <2>2 DEF MatchingHTTPSListeners
    <3> HIDE DEF gw, matching
    <3> QED
      BY <1>3, <2>2, <3>1, MTLSShape
  <2> QED
    BY <1>5, <2>1, <2>2
<1> QED
  BY <1>1, <1>2, <1>7, <1>8 DEF FeaturesInv, IsFeatures, IsIR, IsAppRoot

\* The rule that app-root redirects: an old one for exactly "/", or a new last one.
AppRootTarget(rt) ==
  LET exact == {n \in DOMAIN rt.rules : rt.rules[n].path = RootMatch}
  IN  IF exact = {} THEN Len(Append(rt.rules, AppRootRule)) ELSE Min(exact)

AppRootUpdate(rt, root) ==
  Update([url |-> RedirectURL(root.ing, rt.host, root.value), statusCode |-> 302], {"app-root"})

LEMMA AppRootFeatures ==
  ASSUME NEW rt, NEW provided, IsRoute(rt, provided), NEW root
  PROVE  /\ AppRootTarget(rt) \in Nat \ {0}
         /\ WithAppRoot(rt, root).features
              = Written(rt.features, <<"redirect", AppRootTarget(rt)>>, AppRootUpdate(rt, root), root.ing)
<1> DEFINE exact  == {n \in DOMAIN rt.rules : rt.rules[n].path = RootMatch}
           rules  == IF exact = {} THEN Append(rt.rules, AppRootRule) ELSE rt.rules
           features == Written(rt.features, <<"redirect", AppRootTarget(rt)>>, AppRootUpdate(rt, root),
                               root.ing)
           one    == [rt EXCEPT !.rules = rules]
<1>1. IsSeq(rt.rules) /\ Len(rt.rules) \in Nat /\ DOMAIN rt.rules = 1..Len(rt.rules)
  BY IsSeqShape DEF IsRoute
<1>2. AppRootTarget(rt) \in Nat \ {0}
  <2>1. Len(Append(rt.rules, AppRootRule)) \in Nat \ {0}
    BY <1>1, AppendSeq
  <2>2. exact \subseteq Nat \ {0}
    BY <1>1
  <2>3. exact # {} => Min(exact) \in exact
    BY <2>2, MinIsLeast
  <2> QED
    BY <2>1, <2>2, <2>3 DEF AppRootTarget
<1>3. WithAppRoot(rt, root) = [one EXCEPT !.features = features]
  BY DEF WithAppRoot, AppRootTarget, AppRootUpdate
<1>4. one = [ns |-> rt.ns, host |-> rt.host, features |-> rt.features,
             parentRefs |-> rt.parentRefs, rules |-> rules]
  BY DEF IsRoute
<1> HIDE DEF one, features
<1>5. [one EXCEPT !.features = features].features = features
  BY <1>4
<1> QED
  BY <1>2, <1>3, <1>5 DEF features

LEMMA RedirectKeepsFeatures ==
  ASSUME InputsInv, LoopInv, RoutesInv, FeaturesInv, FinishRedirect
  PROVE  FeaturesInv'
<1> DEFINE rt == WithAppRoot(Route, appRoot[1])
<1>1. UNCHANGED inputs /\ UNCHANGED <<gateways, appRoot>> /\ ingresses' = ingresses
  BY DEF FinishRedirect, localVars, inputs
<1>2. Key \in DOMAIN httpRoutes
  BY DEF FinishRedirect, RulesDone, Running, LoopInv
<1>3. CASE UNCHANGED httpRoutes
  BY <1>1, <1>3 DEF FeaturesInv, IsFeatures, IsIR, IsAppRoot
<1>4. CASE appRoot # <<>> /\ httpRoutes' = [httpRoutes EXCEPT ![Key] = rt]
  <2>1. IsRoute(Route, pir[Key].rules) /\ IsFeatures(Route.features) /\ appRoot[1].ing \in ingresses
    BY <1>2, <1>4 DEF RoutesInv, Route, FeaturesInv, IsAppRoot
  <2> DEFINE at == <<"redirect", AppRootTarget(Route)>>
  <2>2. /\ rt.features = Written(Route.features, at, AppRootUpdate(Route, appRoot[1]), appRoot[1].ing)
        /\ AppRootTarget(Route) \in Nat \ {0}
    BY <2>1, AppRootFeatures
  <2>3. at[1] \in FeatureNames /\ at[2] \in Nat \ {0}
    BY <2>2, RedirectIsAFeature, FeatureNamed
  <2> HIDE DEF at, rt
  <2>4. IsFeatures(rt.features)
    BY <2>1, <2>2, <2>3, WrittenShape
  <2>5. \A k \in DOMAIN httpRoutes' : IsFeatures(httpRoutes'[k].features)
    BY <1>2, <1>4, <2>4, FeaturesWritten
  <2> QED
    BY <1>1, <2>5 DEF FeaturesInv, IsFeatures, IsIR, IsAppRoot
<1> QED
  BY <1>3, <1>4 DEF FinishRedirect, Route

\* The rules of a route change, and its features stay.
LEMMA RulesKeepFeatures ==
  ASSUME InputsInv, LoopInv, RoutesInv, FeaturesInv, FinishCanary \/ ParseCanaryRule \/ ParseHeaders
  PROVE  FeaturesInv'
<1>1. UNCHANGED inputs /\ UNCHANGED <<gateways, appRoot>> /\ ingresses' = ingresses
  BY CanaryStep DEF FinishCanary, ParseHeaders, localVars, inputs
<1>2. \/ UNCHANGED httpRoutes
      \/ /\ Key \in DOMAIN httpRoutes
         /\ \E rules : httpRoutes' = [httpRoutes EXCEPT ![Key].rules = rules]
  <2>1. Running({"canary"}) \/ Running({"header"})
    BY CanaryStep DEF FinishCanary, ParseHeaders, RulesDone, AtSource, AtRule
  <2>2. Key \in DOMAIN httpRoutes
    BY <2>1 DEF Running, LoopInv
  <2>3. CASE FinishCanary
    BY <2>2, <2>3 DEF FinishCanary
  <2>4. CASE ParseHeaders
    <3>1. httpRoutes' = [httpRoutes EXCEPT
            ![Key].rules[i].filters = @ \o HeaderFilters(annotations[Source.ing])]
      BY <2>4 DEF ParseHeaders
    <3> DEFINE rules == [httpRoutes[Key].rules EXCEPT ![i].filters = @ \o HeaderFilters(annotations[Source.ing])]
    <3>2. httpRoutes' = [httpRoutes EXCEPT ![Key].rules = rules]
      BY <3>1
    <3> HIDE DEF rules
    <3> QED
      BY <2>2, <3>2
  <2>5. CASE ParseCanaryRule
    <3>1. \/ UNCHANGED httpRoutes
          \/ httpRoutes' = [httpRoutes EXCEPT
               ![Key].rules[i] = Weighted(@, TheConfig, Min(ValidSources), Min(OtherSources))]
      BY <2>5, CanaryStep
    <3> DEFINE rules == [httpRoutes[Key].rules EXCEPT
                           ![i] = Weighted(@, TheConfig, Min(ValidSources), Min(OtherSources))]
    <3>2. UNCHANGED httpRoutes \/ httpRoutes' = [httpRoutes EXCEPT ![Key].rules = rules]
      BY <3>1
    <3> HIDE DEF rules
    <3> QED
      BY <2>2, <3>2
  <2> QED
    BY <2>3, <2>4, <2>5
<1>3. CASE UNCHANGED httpRoutes
  BY <1>1, <1>3 DEF FeaturesInv, IsFeatures, IsIR, IsAppRoot
<1>4. ASSUME Key \in DOMAIN httpRoutes, NEW rules, httpRoutes' = [httpRoutes EXCEPT ![Key].rules = rules]
      PROVE  FeaturesInv'
  <2> DEFINE rt == [Route EXCEPT !.rules = rules]
  <2>1. httpRoutes' = [httpRoutes EXCEPT ![Key] = rt]
    BY <1>4 DEF Route
  <2>2. IsRoute(Route, pir[Key].rules) /\ IsFeatures(Route.features)
    BY <1>4 DEF RoutesInv, Route, FeaturesInv
  <2>3. rt.features = Route.features
    BY <2>2 DEF IsRoute
  <2> HIDE DEF rt
  <2>4. \A k \in DOMAIN httpRoutes' : IsFeatures(httpRoutes'[k].features)
    BY <1>4, <2>1, <2>2, <2>3, FeaturesWritten
  <2> QED
    BY <1>1, <2>4 DEF FeaturesInv, IsFeatures, IsIR, IsAppRoot
<1> QED
  BY <1>2, <1>3, <1>4

LEMMA InitFeatures == Init => FeaturesInv
<1> SUFFICES ASSUME Init PROVE FeaturesInv
  OBVIOUS
<1>1. \A key \in DOMAIN httpRoutes : httpRoutes[key].features = EmptyMap
  BY DEF Init, EmitterRoute
<1>2. /\ DOMAIN gateways = DOMAIN Gateways(ingresses)
      /\ \A g \in DOMAIN gateways : gateways[g] = EmitterGateway(Gateways(ingresses)[g])
  BY DEF Init
<1>3. \A ls : /\ EmitterGateway(ls).features = EmptyMap
              /\ EmitterGateway(ls) = [features |-> EmitterGateway(ls).features,
                                       listeners |-> EmitterGateway(ls).listeners]
  BY DEF EmitterGateway
<1>4. \A g \in DOMAIN gateways :
        /\ gateways[g].features = EmptyMap
        /\ gateways[g] = [features |-> gateways[g].features, listeners |-> gateways[g].listeners]
  BY <1>2, <1>3
<1>5. appRoot = <<>>
  BY DEF Init
<1>6. DOMAIN EmptyMap = {}
  BY DEF EmptyMap
<1> QED
  BY <1>1, <1>4, <1>5, <1>6 DEF FeaturesInv, IsFeatures, IsAppRoot

LEMMA StepFeatures == KeptInv /\ FeaturesInv /\ [FeatureStep]_featureVars => FeaturesInv'
<1> SUFFICES ASSUME KeptInv, FeaturesInv, [FeatureStep]_featureVars PROVE FeaturesInv'
  OBVIOUS
<1>1. InputsInv /\ LoopInv /\ RoutesInv
  BY DEF KeptInv
<1>2. CASE /\ UNCHANGED inputs /\ UNCHANGED <<httpRoutes, gateways>>
           /\ appRoot' \in {appRoot, <<>>}
  BY <1>2 DEF FeaturesInv, IsFeatures, IsIR, IsAppRoot, inputs
<1>3. CASE VisitGroup(FeatureParsers) \/ NextParser(FeatureParsers) \/ NextRule(PerSource)
           \/ FinishGroup(FeatureParsers \ {"canary", "redirect"}) \/ UNCHANGED featureVars
  BY <1>2, <1>3 DEF VisitGroup, NextParser, NextRule, FinishGroup, featureVars, localVars
<1> QED
  BY <1>1, <1>3, FeatureStepKeepsFeatures, AuthKeepsFeatures, RedirectKeepsFeatures, RulesKeepFeatures
     DEF FeatureStep

FeatureInv == KeptInv /\ FeaturesInv

LEMMA FeatureInvInductive ==
  /\ Init => FeatureInv
  /\ FeatureInv /\ [FeatureStep]_featureVars => FeatureInv'
  BY InitKept, StepKept, InitFeatures, StepFeatures DEF FeatureInv

\* The emitter IR keeps its shape: every weight is a natural number, although a
\* weight is what is left of a total, and every feature has a name the parsers
\* use, an index from 1 and, if any, the Ingress it comes from (canary.go:62-105
\* and 244-248, and the parsers run by converter.go:73-81).
THEOREM FeatureTypes == Spec => []TypeOK
<1>1. FeatureInv => TypeOK
  <2> SUFFICES ASSUME FeatureInv PROVE TypeOK
    OBVIOUS
  <2>1. LoopInv /\ RoutesInv /\ FeaturesInv
    BY DEF FeatureInv, KeptInv
  <2>2. \A key \in DOMAIN httpRoutes : \A n \in DOMAIN httpRoutes[key].rules :
          LET r == httpRoutes[key].rules[n]
          IN  /\ r.from \in {0} \union DOMAIN pir[key].rules
              /\ \A x \in DOMAIN r.backends :
                   r.backends[x].weight \in Seq(Nat) /\ Len(r.backends[x].weight) <= 1
    BY <2>1 DEF RoutesInv, IsRoute, IsRule, IsBackend
  <2>3. group \in DOMAIN ruleGroups \union {Nothing}
    BY <2>1 DEF LoopInv
  <2> QED
    BY <2>1, <2>2, <2>3 DEF TypeOK, LoopInv, FeaturesInv, IsFeatures
<1>2. FeatureInv /\ [Next]_featureVars => FeatureInv'
  BY FeatureInvInductive DEF Next, FeaturesEnded
<1> QED
  BY <1>1, <1>2, FeatureInvInductive, PTL DEF Spec

(***************************************************************************)
(* What a step does to the routes                                          *)
(***************************************************************************)
OthersStay(key) == \A k \in DOMAIN httpRoutes : k # key => httpRoutes'[k] = httpRoutes[k]

LEMMA FeaturesAssigned ==
  ASSUME NEW key \in DOMAIN httpRoutes, NEW provided, IsRoute(httpRoutes[key], provided), NEW features,
         httpRoutes' = [httpRoutes EXCEPT ![key].features = features]
  PROVE  /\ httpRoutes'[key].features = features
         /\ httpRoutes'[key].rules = httpRoutes[key].rules
         /\ httpRoutes'[key].host = httpRoutes[key].host
         /\ OthersStay(key)
<1> DEFINE rt == [httpRoutes[key] EXCEPT !.features = features]
<1>1. httpRoutes' = [httpRoutes EXCEPT ![key] = rt]
  OBVIOUS
<1>2. rt.features = features /\ rt.rules = httpRoutes[key].rules /\ rt.host = httpRoutes[key].host
  BY DEF IsRoute
<1> HIDE DEF rt
<1> QED
  BY <1>1, <1>2 DEF OthersStay

LEMMA RulesAssigned ==
  ASSUME NEW key \in DOMAIN httpRoutes, NEW provided, IsRoute(httpRoutes[key], provided), NEW rules,
         httpRoutes' = [httpRoutes EXCEPT ![key].rules = rules]
  PROVE  /\ httpRoutes'[key].rules = rules
         /\ httpRoutes'[key].features = httpRoutes[key].features
         /\ httpRoutes'[key].host = httpRoutes[key].host
         /\ OthersStay(key)
<1> DEFINE rt == [httpRoutes[key] EXCEPT !.rules = rules]
<1>1. httpRoutes' = [httpRoutes EXCEPT ![key] = rt]
  OBVIOUS
<1>2. rt.rules = rules /\ rt.features = httpRoutes[key].features /\ rt.host = httpRoutes[key].host
  BY DEF IsRoute
<1> HIDE DEF rt
<1> QED
  BY <1>1, <1>2 DEF OthersStay

LEMMA FeatureEffect ==
  ASSUME InputsInv, LoopInv, RoutesInv, ParseFeature
  PROVE  /\ AtSource(OneFeature) /\ Key \in DOMAIN httpRoutes
         /\ \/ step' = Panicked /\ UNCHANGED httpRoutes
            \/ /\ httpRoutes'[Key].features
                    = Written(Route.features, <<Parsers[step], i>>,
                              FeatureUpdate(Parsers[step], annotations[Source.ing], Source), Source.ing)
               /\ httpRoutes'[Key].rules = Route.rules /\ httpRoutes'[Key].host = Route.host
               /\ OthersStay(Key)
               /\ UNCHANGED <<step, pending, group, i>> /\ j' = j + 1
<1>1. AtSource(OneFeature) /\ Key \in DOMAIN httpRoutes /\ IsRoute(Route, pir[Key].rules)
  BY RuleAt DEF ParseFeature, AtSource
<1> DEFINE features == Written(Route.features, <<Parsers[step], i>>,
                              FeatureUpdate(Parsers[step], annotations[Source.ing], Source), Source.ing)
<1>2. \/ step' = Panicked /\ UNCHANGED httpRoutes
      \/ /\ httpRoutes' = [httpRoutes EXCEPT ![Key].features = features]
         /\ UNCHANGED <<step, pending, group, i>> /\ j' = j + 1
  BY DEF ParseFeature, Panic, NextSource, Route, RuleIndex
<1> HIDE DEF features
<1>3. httpRoutes' = [httpRoutes EXCEPT ![Key].features = features] =>
        /\ httpRoutes'[Key].features = features
        /\ httpRoutes'[Key].rules = Route.rules /\ httpRoutes'[Key].host = Route.host
        /\ OthersStay(Key)
  BY <1>1, FeaturesAssigned DEF Route
<1> QED
  BY <1>1, <1>2, <1>3 DEF features

BasicOf(features) ==
  Written(features, <<"basicAuth", i>>, BasicAuthUpdate(annotations[Source.ing], Source.ing), Source.ing)
ExternalOf(features) ==
  Written(features, <<"externalAuth", i>>, ExternalAuthUpdate(annotations[Source.ing]), Source.ing)

LEMMA AuthEffect ==
  ASSUME InputsInv, LoopInv, RoutesInv, ParseAuth
  PROVE  /\ AtSource({"auth"}) /\ Key \in DOMAIN httpRoutes
         /\ \/ UNCHANGED httpRoutes
            \/ /\ httpRoutes'[Key].features \in {BasicOf(Route.features), ExternalOf(BasicOf(Route.features))}
               /\ httpRoutes'[Key].rules = Route.rules /\ httpRoutes'[Key].host = Route.host
               /\ OthersStay(Key)
<1>1. AtSource({"auth"}) /\ Key \in DOMAIN httpRoutes /\ IsRoute(Route, pir[Key].rules)
  BY RuleAt DEF ParseAuth, AtSource
<1>2. \/ UNCHANGED httpRoutes
      \/ \E features \in {BasicOf(Route.features), ExternalOf(BasicOf(Route.features))} :
           httpRoutes' = [httpRoutes EXCEPT ![Key].features = features]
  BY DEF ParseAuth, Route, BasicOf, ExternalOf
<1>3. \A features : httpRoutes' = [httpRoutes EXCEPT ![Key].features = features] =>
        /\ httpRoutes'[Key].features = features
        /\ httpRoutes'[Key].rules = Route.rules /\ httpRoutes'[Key].host = Route.host
        /\ OthersStay(Key)
  BY <1>1, FeaturesAssigned DEF Route
<1> QED
  BY <1>1, <1>2, <1>3

AppRootRules(rt) ==
  IF \A n \in DOMAIN rt.rules : rt.rules[n].path # RootMatch THEN Append(rt.rules, AppRootRule) ELSE rt.rules

LEMMA RedirectEffect ==
  ASSUME InputsInv, LoopInv, RoutesInv, FinishRedirect
  PROVE  /\ RulesDone({"redirect"}) /\ Key \in DOMAIN httpRoutes
         /\ \/ UNCHANGED httpRoutes /\ (appRoot = <<>> \/ Route.host = <<>>)
            \/ /\ appRoot # <<>> /\ Route.host # <<>>
               /\ httpRoutes'[Key].features
                    = Written(Route.features, <<"redirect", AppRootTarget(Route)>>,
                              AppRootUpdate(Route, appRoot[1]), appRoot[1].ing)
               /\ httpRoutes'[Key].rules = AppRootRules(Route) /\ httpRoutes'[Key].host = Route.host
               /\ OthersStay(Key)
<1>1. RulesDone({"redirect"}) /\ Key \in DOMAIN httpRoutes /\ IsRoute(Route, pir[Key].rules)
  BY DEF FinishRedirect, RulesDone, Running, LoopInv, RoutesInv, Route
<1>2. CASE appRoot = <<>> \/ Route.host = <<>>
  BY <1>1, <1>2 DEF FinishRedirect
<1>3. CASE ~(appRoot = <<>> \/ Route.host = <<>>)
  <2> DEFINE rt == WithAppRoot(Route, appRoot[1])
             exact == {n \in DOMAIN Route.rules : Route.rules[n].path = RootMatch}
             rules == IF exact = {} THEN Append(Route.rules, AppRootRule) ELSE Route.rules
             one == [Route EXCEPT !.rules = rules]
             features == Written(Route.features, <<"redirect", AppRootTarget(Route)>>,
                                 AppRootUpdate(Route, appRoot[1]), appRoot[1].ing)
  <2>1. httpRoutes' = [httpRoutes EXCEPT ![Key] = rt]
    BY <1>3 DEF FinishRedirect, Route
  <2>2. rt = [one EXCEPT !.features = features]
    BY DEF WithAppRoot, AppRootTarget, AppRootUpdate
  <2>3. one = [ns |-> Route.ns, host |-> Route.host, features |-> Route.features,
               parentRefs |-> Route.parentRefs, rules |-> rules]
    BY <1>1 DEF IsRoute
  <2> HIDE DEF one, features
  <2>4. rt.features = features /\ rt.rules = rules /\ rt.host = Route.host
    BY <2>2, <2>3
  <2>5. rules = AppRootRules(Route)
    BY DEF AppRootRules
  <2> HIDE DEF rt, rules
  <2> QED
    BY <1>1, <1>3, <2>1, <2>4, <2>5 DEF features, OthersStay
<1> QED
  BY <1>2, <1>3

LEMMA HeadersEffect ==
  ASSUME InputsInv, LoopInv, RoutesInv, ParseHeaders
  PROVE  /\ AtSource({"header"}) /\ Key \in DOMAIN httpRoutes /\ i \in DOMAIN Route.rules
         /\ LET r == [Route.rules[i] EXCEPT !.filters = @ \o HeaderFilters(annotations[Source.ing])]
            IN  httpRoutes'[Key].rules = [Route.rules EXCEPT ![i] = r]
         /\ httpRoutes'[Key].features = Route.features /\ httpRoutes'[Key].host = Route.host
         /\ OthersStay(Key)
<1>1. /\ AtSource({"header"}) /\ Key \in DOMAIN httpRoutes /\ IsRoute(Route, pir[Key].rules)
      /\ i \in DOMAIN Route.rules
  BY RuleAt DEF ParseHeaders, AtSource
<1> DEFINE r     == [Route.rules[i] EXCEPT !.filters = @ \o HeaderFilters(annotations[Source.ing])]
           rules == [Route.rules EXCEPT ![i] = r]
<1>2. httpRoutes' = [httpRoutes EXCEPT ![Key].rules = rules]
  BY DEF ParseHeaders, Route
<1> HIDE DEF rules
<1> QED
  BY <1>1, <1>2, RulesAssigned DEF Route, rules

LEMMA FinishCanaryEffect ==
  ASSUME InputsInv, LoopInv, RoutesInv, FinishCanary
  PROVE  /\ RulesDone({"canary"}) /\ Key \in DOMAIN httpRoutes
         /\ httpRoutes'[Key].rules = newRules \o Route.rules
         /\ httpRoutes'[Key].features = Route.features /\ httpRoutes'[Key].host = Route.host
         /\ OthersStay(Key)
<1>1. RulesDone({"canary"}) /\ Key \in DOMAIN httpRoutes /\ IsRoute(Route, pir[Key].rules)
  BY DEF FinishCanary, RulesDone, Running, LoopInv, RoutesInv, Route
<1> DEFINE rules == newRules \o Route.rules
<1>2. httpRoutes' = [httpRoutes EXCEPT ![Key].rules = rules]
  BY DEF FinishCanary, Route, WithNewRules
<1> HIDE DEF rules
<1> QED
  BY <1>1, <1>2, RulesAssigned DEF Route, rules

LEMMA CanaryEffect ==
  ASSUME InputsInv, LoopInv, RoutesInv, ParseCanaryRule
  PROVE  /\ AtRule({"canary"}) /\ Key \in DOMAIN httpRoutes /\ i \in DOMAIN Route.rules
         /\ \/ UNCHANGED httpRoutes
            \/ /\ Len(Sources[i]) <= Len(Route.rules[i].backends)
               /\ ValidSources # {} /\ OtherSources # {}
               /\ LET r == Weighted(Route.rules[i], TheConfig, Min(ValidSources), Min(OtherSources))
                  IN  httpRoutes'[Key].rules = [Route.rules EXCEPT ![i] = r]
               /\ httpRoutes'[Key].features = Route.features /\ httpRoutes'[Key].host = Route.host
               /\ OthersStay(Key)
<1>1. /\ AtRule({"canary"}) /\ Key \in DOMAIN httpRoutes /\ IsRoute(Route, pir[Key].rules)
      /\ i \in DOMAIN Route.rules
  BY RuleAt, CanaryStep
<1> DEFINE r     == Weighted(Route.rules[i], TheConfig, Min(ValidSources), Min(OtherSources))
           rules == [Route.rules EXCEPT ![i] = r]
<1>2. \/ UNCHANGED httpRoutes
      \/ /\ Len(Sources[i]) <= Len(Route.rules[i].backends)
         /\ ValidSources # {} /\ OtherSources # {}
         /\ httpRoutes' = [httpRoutes EXCEPT
              ![Key].rules[i] = Weighted(@, TheConfig, Min(ValidSources), Min(OtherSources))]
  BY CanaryStep
<1>3. httpRoutes' = [httpRoutes EXCEPT
              ![Key].rules[i] = Weighted(@, TheConfig, Min(ValidSources), Min(OtherSources))]
        => httpRoutes' = [httpRoutes EXCEPT ![Key].rules = rules]
  BY DEF Route
<1> HIDE DEF rules
<1>4. httpRoutes' = [httpRoutes EXCEPT ![Key].rules = rules] =>
        /\ httpRoutes'[Key].rules = rules
        /\ httpRoutes'[Key].features = Route.features /\ httpRoutes'[Key].host = Route.host
        /\ OthersStay(Key)
  BY <1>1, RulesAssigned DEF Route
<1> QED
  BY <1>1, <1>2, <1>3, <1>4 DEF rules

\* The other steps leave the routes alone.
LEMMA LoopEffect ==
  ASSUME \/ VisitGroup(FeatureParsers) \/ NextParser(FeatureParsers) \/ NextRule(PerSource)
         \/ FinishGroup(FeatureParsers \ {"canary", "redirect"}) \/ UNCHANGED featureVars
  PROVE  UNCHANGED <<httpRoutes, gateways, errors>>
  BY DEF VisitGroup, NextParser, NextRule, FinishGroup, featureVars

\* The weights a canary gives are those of the rule's own backends.
LEMMA WeightedRule ==
  ASSUME InputsInv, LoopInv, RoutesInv, AtRule({"canary"}),
         Len(Sources[i]) <= Len(Route.rules[i].backends), ValidSources # {}, OtherSources # {}
  PROVE  LET old == Route.rules[i]
             new == Weighted(old, TheConfig, Min(ValidSources), Min(OtherSources))
         IN  /\ IsRule(new, pir[Key].rules) /\ new.from = old.from /\ new.headers = old.headers
             /\ BackendSources(new) = BackendSources(old)
<1> DEFINE c == Min(ValidSources)
           p == Min(OtherSources)
           a == annotations[Sources[i][c].ing]
           rule == Route.rules[i]
<1>1. c \in ValidSources /\ c \in DOMAIN rule.backends /\ p \in DOMAIN rule.backends
  BY CanaryIndices
<1>2. IsRule(rule, pir[Key].rules)
  BY RuleAt
<1>3. ValidCanary(a) /\ TheConfig = CanaryConfig(a)
  BY <1>1 DEF ValidSources, TheConfig
<1> HIDE DEF c, p, a, rule
<1>4. LET new == Weighted(rule, CanaryConfig(a), c, p)
      IN  /\ IsRule(new, pir[Key].rules) /\ new.from = rule.from /\ new.headers = rule.headers
          /\ BackendSources(new) = BackendSources(rule)
  BY <1>1, <1>2, <1>3, WeightedShape
<1> QED
  BY <1>3, <1>4 DEF rule, c, p

(***************************************************************************)
(* FeaturesAtTheirRules                                                    *)
(***************************************************************************)
\* No Ingress asks for a canary by header.
NoHeaderCanaries ==
  \A ing \in ingresses :
    IsCanary(annotations[ing]) => Get(annotations[ing], "canary-by-header") = <<>>

\* Each rule of the provider IR is at the same index of the emitter IR, with its
\* backends.
RulesInPlace ==
  \A key \in DOMAIN httpRoutes : \A n \in DOMAIN pir[key].rules :
    /\ n \in DOMAIN httpRoutes[key].rules /\ httpRoutes[key].rules[n].from = n
    /\ BackendSources(httpRoutes[key].rules[n]) = pir[key].rules[n].sources

AtItsRule(key, n, ir) ==
  (ir.source # <<>> /\ ir.source[1].keys # {"app-root"}) =>
    n \in DOMAIN pir[key].rules /\ ir.source[1].ingress \in SourceIngresses(key, n)

AtTheirRules(key, features) == \A at \in DOMAIN features : AtItsRule(key, at[2], features[at])

NoShift ==
  NoHeaderCanaries =>
    /\ group # Nothing => newRules = <<>>
    /\ RulesInPlace

FeaturesPlaced == \A key \in DOMAIN httpRoutes : AtTheirRules(key, httpRoutes[key].features)

SameOrigin(new, old) == new.from = old.from /\ BackendSources(new) = BackendSources(old)

\* No rule of a route is lost, and none is put in front of another.
RulesStay(key) ==
  \A n \in DOMAIN httpRoutes[key].rules :
    n \in DOMAIN httpRoutes'[key].rules /\ SameOrigin(httpRoutes'[key].rules[n], httpRoutes[key].rules[n])

LEMMA AppRootRulesStay ==
  ASSUME NEW rt, IsSeq(rt.rules), NEW n \in DOMAIN rt.rules
  PROVE  n \in DOMAIN AppRootRules(rt) /\ AppRootRules(rt)[n] = rt.rules[n]
<1>1. Len(rt.rules) \in Nat /\ DOMAIN rt.rules = 1..Len(rt.rules)
  BY IsSeqShape
<1>2. /\ DOMAIN Append(rt.rules, AppRootRule) = 1..(Len(rt.rules) + 1)
      /\ \A m \in 1..Len(rt.rules) : Append(rt.rules, AppRootRule)[m] = rt.rules[m]
  BY AppendSeq
<1> DEFINE rules == rt.rules  all == Append(rules, AppRootRule)
<1>3. AppRootRules(rt) = all \/ AppRootRules(rt) = rules
  BY DEF AppRootRules
<1> HIDE DEF all
<1>4. n \in DOMAIN all /\ all[n] = rules[n]
  BY <1>1, <1>2 DEF all
<1> QED
  BY <1>3, <1>4

LEMMA WithoutHeaderRules ==
  ASSUME InputsInv, LoopInv, RoutesInv, NoHeaderCanaries, ParseCanaryRule, newRules = <<>>
  PROVE  newRules' = <<>>
<1>1. CASE UNCHANGED newRules
  BY <1>1
<1>2. CASE newRules' = newRules \o HeaderRules(Route.rules[i], TheConfig, Min(ValidSources), Min(OtherSources))
           /\ Len(Sources[i]) <= Len(Route.rules[i].backends) /\ ValidSources # {} /\ OtherSources # {}
  <2>1. AtRule({"canary"})
    BY CanaryStep
  <2>2. Min(ValidSources) \in ValidSources
    BY <1>2, <2>1, CanaryIndices
  <2>3. /\ Min(ValidSources) \in DOMAIN Sources[i]
        /\ IsCanary(annotations[Sources[i][Min(ValidSources)].ing])
    BY <2>2 DEF ValidSources, CanarySources
  <2>4. Sources[i][Min(ValidSources)].ing \in ingresses
    BY <2>1, <2>3, AtRuleFacts
  <2>5. TheConfig.header = <<>>
    BY <2>3, <2>4 DEF NoHeaderCanaries, TheConfig, CanaryConfig
  <2>6. HeaderRules(Route.rules[i], TheConfig, Min(ValidSources), Min(OtherSources)) = <<>>
    BY <2>5 DEF HeaderRules
  <2> QED
    BY <1>2, <2>6, EmptyIsSeq, ConcatEmptySeq DEF IsSeq
<1> QED
  BY <1>1, <1>2, CanaryStep

LEMMA StepRulesStay ==
  ASSUME KeptInv, NoHeaderCanaries, NoShift, [FeatureStep]_featureVars
  PROVE  \A key \in DOMAIN httpRoutes : RulesStay(key)
<1>1. InputsInv /\ LoopInv /\ RoutesInv /\ (FeatureStep \/ UNCHANGED featureVars)
  BY DEF KeptInv
<1>2. ASSUME NEW k \in DOMAIN httpRoutes, RulesStay(k), OthersStay(k)
      PROVE  \A key \in DOMAIN httpRoutes : RulesStay(key)
  BY <1>2 DEF RulesStay, OthersStay, SameOrigin
<1>3. CASE UNCHANGED httpRoutes
  BY <1>3 DEF RulesStay, SameOrigin
<1>4. CASE ParseFeature \/ ParseAuth
  BY <1>1, <1>2, <1>3, <1>4, FeatureEffect, AuthEffect DEF RulesStay, SameOrigin, Route
<1>5. CASE FinishRedirect
  <2>1. \/ UNCHANGED httpRoutes
        \/ httpRoutes'[Key].rules = AppRootRules(Route) /\ OthersStay(Key)
    BY <1>1, <1>5, RedirectEffect
  <2>2. Key \in DOMAIN httpRoutes /\ IsSeq(Route.rules)
    BY <1>1, <1>5, RedirectEffect DEF RoutesInv, Route, IsRoute
  <2>3. ASSUME httpRoutes'[Key].rules = AppRootRules(Route) PROVE RulesStay(Key)
    BY <2>2, <2>3, AppRootRulesStay DEF RulesStay, SameOrigin, Route
  <2> QED
    BY <1>2, <1>3, <2>1, <2>2, <2>3
<1>6. CASE ParseHeaders
  <2> DEFINE r == [Route.rules[i] EXCEPT !.filters = @ \o HeaderFilters(annotations[Source.ing])]
  <2>1. /\ Key \in DOMAIN httpRoutes /\ i \in DOMAIN Route.rules /\ OthersStay(Key)
        /\ httpRoutes'[Key].rules = [Route.rules EXCEPT ![i] = r]
    BY <1>1, <1>6, HeadersEffect
  <2>2. SameOrigin(r, Route.rules[i])
    BY <1>1, <2>1 DEF RoutesInv, Route, IsRoute, IsRule, SameOrigin, BackendSources
  <2> HIDE DEF r
  <2>3. RulesStay(Key)
    <3>1. \A n \in DOMAIN Route.rules : n # i => httpRoutes'[Key].rules[n] = Route.rules[n]
      BY <2>1
    <3>2. httpRoutes'[Key].rules[i] = r /\ DOMAIN httpRoutes'[Key].rules = DOMAIN Route.rules
      BY <2>1
    <3> QED
      BY <2>1, <2>2, <3>1, <3>2 DEF RulesStay, SameOrigin, Route
  <2> QED
    BY <1>2, <2>1, <2>3
<1>7. CASE FinishCanary
  <2>1. /\ Key \in DOMAIN httpRoutes /\ OthersStay(Key) /\ group # Nothing
        /\ httpRoutes'[Key].rules = newRules \o Route.rules
    BY <1>1, <1>7, FinishCanaryEffect DEF RulesDone, Running
  <2>2. newRules = <<>> /\ IsSeq(Route.rules)
    BY <1>1, <2>1 DEF NoShift, RoutesInv, Route, IsRoute
  <2>3. <<>> \o Route.rules = Route.rules
    BY <2>2, ConcatEmptySeq DEF IsSeq
  <2>4. RulesStay(Key)
    BY <2>1, <2>2, <2>3 DEF RulesStay, SameOrigin, Route
  <2> QED
    BY <1>2, <2>1, <2>4
<1>8. CASE ParseCanaryRule
  <2> DEFINE r == Weighted(Route.rules[i], TheConfig, Min(ValidSources), Min(OtherSources))
  <2>1. /\ Key \in DOMAIN httpRoutes /\ i \in DOMAIN Route.rules /\ AtRule({"canary"})
        /\ \/ UNCHANGED httpRoutes
           \/ /\ Len(Sources[i]) <= Len(Route.rules[i].backends)
              /\ ValidSources # {} /\ OtherSources # {}
              /\ httpRoutes'[Key].rules = [Route.rules EXCEPT ![i] = r]
              /\ OthersStay(Key)
    BY <1>1, <1>8, CanaryEffect
  <2>2. ASSUME Len(Sources[i]) <= Len(Route.rules[i].backends), ValidSources # {}, OtherSources # {}
        PROVE  SameOrigin(r, Route.rules[i])
    BY <1>1, <2>1, <2>2, WeightedRule DEF SameOrigin
  <2> HIDE DEF r
  <2>3. CASE ~UNCHANGED httpRoutes
    <3>1. /\ httpRoutes'[Key].rules = [Route.rules EXCEPT ![i] = r] /\ OthersStay(Key)
          /\ SameOrigin(r, Route.rules[i])
      BY <2>1, <2>2, <2>3
    <3>2. RulesStay(Key)
      <4>1. \A n \in DOMAIN Route.rules : n # i => httpRoutes'[Key].rules[n] = Route.rules[n]
        BY <3>1
      <4>2. httpRoutes'[Key].rules[i] = r /\ DOMAIN httpRoutes'[Key].rules = DOMAIN Route.rules
        BY <2>1, <3>1
      <4> QED
        BY <3>1, <4>1, <4>2 DEF RulesStay, SameOrigin, Route
    <3> QED
      BY <1>2, <2>1, <3>1, <3>2
  <2> QED
    BY <1>3, <2>3
<1> QED
  BY <1>1, <1>3, <1>4, <1>5, <1>6, <1>7, <1>8, LoopEffect DEF FeatureStep

LEMMA StepNoShift ==
  ASSUME KeptInv, NoShift, [FeatureStep]_featureVars
  PROVE  NoShift'
<1>1. InputsInv /\ LoopInv /\ RoutesInv /\ (FeatureStep \/ UNCHANGED featureVars)
  BY DEF KeptInv
<1>2. /\ UNCHANGED <<ingresses, annotations, pir>>
      /\ DOMAIN httpRoutes' = DOMAIN httpRoutes
  BY <1>1, StepKeepsInputs, LoopStep DEF inputs
<1> SUFFICES ASSUME NoHeaderCanaries'
             PROVE  /\ group' # Nothing => newRules' = <<>>
                    /\ RulesInPlace'
  BY DEF NoShift
<1>3. NoHeaderCanaries /\ RulesInPlace /\ (group # Nothing => newRules = <<>>)
  BY <1>2 DEF NoShift, NoHeaderCanaries
<1>4. RulesInPlace'
  <2>1. \A key \in DOMAIN httpRoutes : RulesStay(key)
    BY <1>3, StepRulesStay
  <2> QED
    BY <1>2, <1>3, <2>1 DEF RulesInPlace, RulesStay, SameOrigin
<1>5. group' # Nothing => newRules' = <<>>
  <2>1. CASE VisitGroup(FeatureParsers)
    BY <2>1 DEF VisitGroup
  <2>2. CASE ParseCanaryRule
    <3>1. group # Nothing
      BY <2>2, CanaryStep DEF AtRule, Running
    <3> QED
      BY <1>1, <1>3, <2>2, <3>1, WithoutHeaderRules
  <2>3. CASE ~VisitGroup(FeatureParsers) /\ ~ParseCanaryRule
    <3>1. group' = Nothing \/ UNCHANGED <<group, newRules>>
      BY <1>1, <2>3 DEF FeatureStep, NextParser, NextRule, FinishGroup, FinishCanary, FinishRedirect,
         ParseFeature, ParseAuth, ParseHeaders, LeaveGroup, NextSource, Panic, featureVars, loopVars, localVars
    <3> QED
      BY <1>3, <3>1
  <2> QED
    BY <2>1, <2>2, <2>3
<1> QED
  BY <1>4, <1>5

LEMMA InitNoShift == Init => NoShift
<1> SUFFICES ASSUME Init PROVE group = Nothing /\ RulesInPlace
  BY DEF NoShift
<1>1. group = Nothing /\ httpRoutes = [key \in DOMAIN pir |-> EmitterRoute(pir[key])]
  BY DEF Init
<1>2. ASSUME NEW key \in DOMAIN pir, NEW n \in DOMAIN pir[key].rules
      PROVE  /\ n \in DOMAIN EmitterRoute(pir[key]).rules
             /\ EmitterRoute(pir[key]).rules[n].from = n
             /\ BackendSources(EmitterRoute(pir[key]).rules[n]) = pir[key].rules[n].sources
  <2>1. EmitterRoute(pir[key]).rules = [m \in DOMAIN pir[key].rules |-> EmitterRule(pir[key].rules[m], m)]
    BY DEF EmitterRoute
  <2>2. IsProvided(pir[key].rules, ingresses)
    BY InitInputs, InputsAreProvided DEF Provided
  <2>3. n # 0 /\ IsSeq(pir[key].rules[n].sources)
    BY <2>2, IsSeqShape DEF IsProvided
  <2>4. /\ EmitterRule(pir[key].rules[n], n).from = n
        /\ BackendSources(EmitterRule(pir[key].rules[n], n)) = pir[key].rules[n].sources
    <3> DEFINE provided == pir[key].rules
    <3> HIDE DEF provided
    <3>1. n \in DOMAIN provided /\ n # 0 /\ IsSeq(provided[n].sources)
      BY <2>3 DEF provided
    <3> QED
      BY <3>1, EmitterRuleShape DEF provided
  <2> QED
    BY <2>1, <2>4
<1> QED
  BY <1>1, <1>2 DEF RulesInPlace

LEMMA WrittenAtItsRule ==
  ASSUME NEW key, NEW features, AtTheirRules(key, features), NEW at, NEW update, NEW ing,
         \/ update.keys = {"app-root"}
         \/ at[2] \in DOMAIN pir[key].rules /\ NN(ing) \in SourceIngresses(key, at[2])
  PROVE  AtTheirRules(key, Written(features, at, update, ing))
<1> DEFINE old == IF at \in DOMAIN features THEN features[at] ELSE EmptyIR
           ir  == WrittenIR(old, update, ing)
           new == Written(features, at, update, ing)
<1>1. CASE update = NoUpdate
  BY <1>1 DEF Written
<1>2. CASE update # NoUpdate
  <2>1. new = Put(features, at, ir)
    BY <1>2 DEF Written
  <2>2. AtItsRule(key, at[2], old)
    BY DEF AtTheirRules, AtItsRule, EmptyIR
  <2>3. AtItsRule(key, at[2], ir)
    <3> DEFINE one == [ingress |-> NN(ing), keys |-> update.keys]
    <3>1. ir.source = IF update.keys = {} THEN old.source ELSE <<one>>
      BY DEF WrittenIR
    <3>2. one.ingress = NN(ing) /\ one.keys = update.keys
      OBVIOUS
    <3> HIDE DEF one, ir, old
    <3>3. <<one>>[1] = one
      OBVIOUS
    <3> QED
      BY <2>2, <3>1, <3>2, <3>3 DEF AtItsRule
  <2> HIDE DEF ir
  <2> QED
    BY <2>1, <2>3 DEF Put, AtTheirRules
<1> QED
  BY <1>1, <1>2

LEMMA SourceAtItsRule ==
  ASSUME InputsInv, LoopInv, NEW parsers, AtSource(parsers)
  PROVE  i \in DOMAIN pir[Key].rules /\ NN(Source.ing) \in SourceIngresses(Key, i)
  BY AtSourceFacts DEF SourceIngresses, ToSet

LEMMA StepFeaturesPlaced ==
  ASSUME KeptInv, FeaturesPlaced, [FeatureStep]_featureVars
  PROVE  FeaturesPlaced'
<1>1. InputsInv /\ LoopInv /\ RoutesInv /\ (FeatureStep \/ UNCHANGED featureVars)
  BY DEF KeptInv
<1>2. pir' = pir /\ DOMAIN httpRoutes' = DOMAIN httpRoutes
  BY <1>1, StepKeepsInputs, LoopStep DEF inputs
<1>4. ASSUME NEW key \in DOMAIN httpRoutes, OthersStay(key), AtTheirRules(key, httpRoutes'[key].features)
      PROVE  FeaturesPlaced'
  <2>1. \A k \in DOMAIN httpRoutes : AtTheirRules(k, httpRoutes'[k].features)
    BY <1>4 DEF FeaturesPlaced, OthersStay
  <2> QED
    BY <1>2, <2>1 DEF FeaturesPlaced, AtTheirRules, AtItsRule, SourceIngresses
<1>5. CASE UNCHANGED httpRoutes
  BY <1>2, <1>5 DEF FeaturesPlaced, AtTheirRules, AtItsRule, SourceIngresses
<1>6. CASE ParseFeature
  <2> DEFINE at == <<Parsers[step], i>>
             update == FeatureUpdate(Parsers[step], annotations[Source.ing], Source)
             features == Written(Route.features, at, update, Source.ing)
  <2>1. /\ AtSource(OneFeature) /\ Key \in DOMAIN httpRoutes
        /\ \/ UNCHANGED httpRoutes
           \/ httpRoutes'[Key].features = features /\ OthersStay(Key)
    BY <1>1, <1>6, FeatureEffect
  <2>2. AtTheirRules(Key, Route.features)
    BY <2>1 DEF FeaturesPlaced, Route
  <2>3. at[2] \in DOMAIN pir[Key].rules /\ NN(Source.ing) \in SourceIngresses(Key, at[2])
    BY <1>1, <2>1, SourceAtItsRule
  <2> HIDE DEF at, update
  <2>4. AtTheirRules(Key, features)
    BY <2>2, <2>3, WrittenAtItsRule
  <2> HIDE DEF features
  <2> QED
    BY <1>4, <1>5, <2>1, <2>4
<1>7. CASE ParseAuth
  <2>1. /\ AtSource({"auth"}) /\ Key \in DOMAIN httpRoutes
        /\ \/ UNCHANGED httpRoutes
           \/ /\ httpRoutes'[Key].features \in {BasicOf(Route.features), ExternalOf(BasicOf(Route.features))}
              /\ OthersStay(Key)
    BY <1>1, <1>7, AuthEffect
  <2>2. AtTheirRules(Key, Route.features)
    BY <2>1 DEF FeaturesPlaced, Route
  <2>3. i \in DOMAIN pir[Key].rules /\ NN(Source.ing) \in SourceIngresses(Key, i)
    BY <1>1, <2>1, SourceAtItsRule
  <2>4. \A parser, features, update : AtTheirRules(Key, features) =>
          AtTheirRules(Key, Written(features, <<parser, i>>, update, Source.ing))
    <3> TAKE parser, features, update
    <3> DEFINE at == <<parser, i>>
    <3>1. at[2] = i
      OBVIOUS
    <3> HIDE DEF at
    <3>2. AtTheirRules(Key, features) => AtTheirRules(Key, Written(features, at, update, Source.ing))
      BY <2>3, <3>1, WrittenAtItsRule
    <3> QED
      BY <3>2 DEF at
  <2>5. AtTheirRules(Key, BasicOf(Route.features)) /\ AtTheirRules(Key, ExternalOf(BasicOf(Route.features)))
    BY <2>2, <2>4 DEF BasicOf, ExternalOf
  <2>6. CASE ~UNCHANGED httpRoutes
    <3>1. AtTheirRules(Key, httpRoutes'[Key].features)
      BY <2>1, <2>5, <2>6
    <3> QED
      BY <1>4, <2>1, <2>6, <3>1
  <2> QED
    BY <1>5, <2>6
<1>8. CASE FinishRedirect
  <2> DEFINE at == <<"redirect", AppRootTarget(Route)>>
             update == AppRootUpdate(Route, appRoot[1])
             features == Written(Route.features, at, update, appRoot[1].ing)
  <2>1. /\ Key \in DOMAIN httpRoutes
        /\ \/ UNCHANGED httpRoutes
           \/ httpRoutes'[Key].features = features /\ OthersStay(Key)
    BY <1>1, <1>8, RedirectEffect
  <2>2. AtTheirRules(Key, Route.features)
    BY <2>1 DEF FeaturesPlaced, Route
  <2>3. update.keys = {"app-root"}
    BY DEF AppRootUpdate, Update
  <2> HIDE DEF at, update
  <2>4. AtTheirRules(Key, features)
    BY <2>2, <2>3, WrittenAtItsRule
  <2> HIDE DEF features
  <2> QED
    BY <1>4, <1>5, <2>1, <2>4
<1>9. CASE ParseHeaders \/ FinishCanary \/ ParseCanaryRule
  <2>1. /\ Key \in DOMAIN httpRoutes
        /\ \/ UNCHANGED httpRoutes
           \/ httpRoutes'[Key].features = Route.features /\ OthersStay(Key)
    BY <1>1, <1>9, HeadersEffect, FinishCanaryEffect, CanaryEffect
  <2>2. AtTheirRules(Key, Route.features)
    BY <2>1 DEF FeaturesPlaced, Route
  <2>3. CASE ~UNCHANGED httpRoutes
    <3>1. AtTheirRules(Key, httpRoutes'[Key].features)
      BY <2>1, <2>2, <2>3
    <3> QED
      BY <1>4, <2>1, <2>3, <3>1
  <2> QED
    BY <1>5, <2>3
<1> QED
  BY <1>1, <1>5, <1>6, <1>7, <1>8, <1>9, LoopEffect DEF FeatureStep

LEMMA InitFeaturesPlaced == Init => FeaturesPlaced
<1> SUFFICES ASSUME Init PROVE FeaturesPlaced
  OBVIOUS
<1>1. \A key \in DOMAIN httpRoutes : httpRoutes[key].features = EmptyMap
  BY DEF Init, EmitterRoute
<1>2. DOMAIN EmptyMap = {}
  BY DEF EmptyMap
<1> QED
  BY <1>1, <1>2 DEF FeaturesPlaced, AtTheirRules

PlacedInv == KeptInv /\ NoShift /\ FeaturesPlaced

LEMMA PlacedInvInductive ==
  /\ Init => PlacedInv
  /\ PlacedInv /\ [FeatureStep]_featureVars => PlacedInv'
  BY InitKept, StepKept, InitNoShift, StepNoShift, InitFeaturesPlaced, StepFeaturesPlaced DEF PlacedInv

LEMMA PlacedFeatures ==
  ASSUME PlacedInv, NoHeaderCanaries
  PROVE  FeaturesAtTheirRules
<1>1. RulesInPlace /\ FeaturesPlaced /\ Provided
  BY InputsAreProvided DEF PlacedInv, NoShift, KeptInv
<1>2. ASSUME NEW key \in DOMAIN httpRoutes, NEW at \in DOMAIN httpRoutes[key].features,
             httpRoutes[key].features[at].source # <<>>,
             httpRoutes[key].features[at].source[1].keys # {"app-root"}
      PROVE  /\ at[2] \in DOMAIN httpRoutes[key].rules
             /\ httpRoutes[key].rules[at[2]].from # 0
             /\ httpRoutes[key].features[at].source[1].ingress
                  \in SourceIngresses(key, httpRoutes[key].rules[at[2]].from)
  <2>1. /\ at[2] \in DOMAIN pir[key].rules
        /\ httpRoutes[key].features[at].source[1].ingress \in SourceIngresses(key, at[2])
    BY <1>1, <1>2 DEF FeaturesPlaced, AtTheirRules, AtItsRule
  <2>2. key \in DOMAIN pir
    BY DEF PlacedInv, KeptInv, LoopInv
  <2>3. DOMAIN pir[key].rules = 1..Len(pir[key].rules) /\ Len(pir[key].rules) \in Nat
    BY <1>1, <2>2, IsSeqShape DEF Provided, IsProvided
  <2> QED
    BY <1>1, <2>1, <2>3 DEF RulesInPlace
<1> QED
  BY <1>2 DEF FeaturesAtTheirRules

\* As long as no Ingress asks for a canary by header, every feature is at the
\* index of a rule that a source of its Ingress belongs to, which is what the
\* emitters rely on when they look a rule's features up by its index.  Rules for
\* headers are put in front of the others and shift them (canary.go:259-262).
THEOREM FeaturesStayAtTheirRules == Spec => [](NoHeaderCanaries => FeaturesAtTheirRules)
<1>1. PlacedInv /\ [Next]_featureVars => PlacedInv'
  BY PlacedInvInductive DEF Next, FeaturesEnded
<1> QED
  BY <1>1, PlacedInvInductive, PlacedFeatures, PTL DEF Spec

(***************************************************************************)
(* The course of a parser that looks at every source of every rule         *)
(***************************************************************************)
\* A group that is done with the running parser, and a group of any kind, names
\* the route.
Visited(key) == \E g \in DOMAIN ruleGroups \ pending : g # group /\ ruleGroups[g] = key
Named(key)   == \E g \in DOMAIN ruleGroups : ruleGroups[g] = key

All(key, n)     == DOMAIN pir[key].rules[n].sources
Earlier(key, n) == IF Visited(key) THEN All(key, n) ELSE {}
Visiting(key)   == group # Nothing /\ Key = key

LEMMA ParsersDistinct ==
  ASSUME NEW m \in 1..16, NEW n \in 1..16, Parsers[m] = Parsers[n]
  PROVE  m = n
<1>1. \A x \in 1..16 : x \in {1, 2, 3, 4, 5, 6, 7, 8, 9, 10, 11, 12, 13, 14, 15, 16}
  OBVIOUS
<1> QED
  BY <1>1 DEF Parsers

LEMMA FeatureParserFacts ==
  /\ \A s \in 1..16 : Parsers[s] \in OneFeature => s \in 2..14
  /\ \A s \in 1..16 : Parsers[s] \in OneFeature =>
       Parsers[s] \notin {"canary", "auth", "header", "basicAuth", "externalAuth"}
  BY DEF Parsers, OneFeature, PerSource

\* Where a visit is.
VisitInv ==
  /\ group # Nothing => group \notin pending
  /\ group = Nothing \/ At({"canary"}) => j = 1
  /\ group # Nothing /\ i \in DOMAIN pir[Key].rules => j <= Len(pir[Key].rules[i].sources) + 1
  /\ group # Nothing /\ ~HasAppRoot(Key) => appRoot = <<>>

LEMMA StepVisit ==
  ASSUME KeptInv, VisitInv, [FeatureStep]_featureVars
  PROVE  VisitInv'
<1>1. InputsInv /\ LoopInv /\ RoutesInv /\ (FeatureStep \/ UNCHANGED featureVars)
  BY DEF KeptInv
<1>2. UNCHANGED <<ingresses, annotations, pir, ruleGroups>> /\ InputsInv'
  BY <1>1, StepKeepsInputs, InputsKept DEF inputs
<1>3. /\ \A key : HasAppRoot(key)' <=> HasAppRoot(key)
      /\ \A parsers : At(parsers)' <=> step' \in DOMAIN Parsers /\ Parsers[step'] \in parsers
  BY <1>2 DEF HasAppRoot, At
<1>4. LoopInv'
  BY <1>1, LoopStep
<1>5. \A key \in DOMAIN pir : \A n \in DOMAIN pir[key].rules : Len(pir[key].rules[n].sources) \in Nat
  BY <1>1, InputsAreProvided, IsSeqShape DEF Provided, IsProvided
<1>6. group # Nothing => Key \in DOMAIN pir
  BY <1>1 DEF LoopInv
<1>7. CASE VisitGroup(FeatureParsers)
  <2>1. newRules' = <<>> /\ appRoot' = <<>> /\ step' = step /\ group = Nothing
    BY <1>7 DEF VisitGroup
  <2>2. PICK g \in pending :
          /\ pending' = pending \ {g}
          /\ IF ruleGroups[g] \in DOMAIN httpRoutes
             THEN group' = g /\ i' = 1 /\ j' = 1
             ELSE UNCHANGED <<group, i, j>>
    BY <1>7 DEF VisitGroup
  <2>3. j' = 1 /\ (group' # Nothing => group' = g)
    BY <2>1, <2>2 DEF VisitInv
  <2>4. group' # Nothing => Key' \in DOMAIN pir
    BY <1>2, <1>4 DEF LoopInv
  <2>5. group' # Nothing /\ i' \in DOMAIN pir[Key'].rules => j' <= Len(pir[Key'].rules[i'].sources) + 1
    BY <1>5, <2>3, <2>4
  <2> QED
    BY <1>2, <1>3, <2>1, <2>2, <2>3, <2>5 DEF VisitInv
<1>8. CASE NextParser(FeatureParsers)
  BY <1>8 DEF NextParser, VisitInv
<1>9. CASE FinishGroup(FeatureParsers \ {"canary", "redirect"}) \/ FinishCanary \/ FinishRedirect
  BY <1>9 DEF FinishGroup, FinishCanary, FinishRedirect, LeaveGroup, VisitInv
<1>10. CASE NextRule(PerSource)
  <2>1. UNCHANGED <<step, pending, group, appRoot>> /\ j' = 1 /\ i' = i + 1 /\ Key' = Key
    BY <1>2, <1>10 DEF NextRule, localVars, Key
  <2>2. group # Nothing /\ i' \in DOMAIN pir[Key].rules => j' <= Len(pir[Key].rules[i'].sources) + 1
    BY <1>5, <1>6, <2>1
  <2> QED
    BY <1>2, <1>3, <2>1, <2>2 DEF VisitInv
<1>11. CASE ParseCanaryRule
  <2>1. /\ UNCHANGED <<pending, group, j, appRoot>> /\ group # Nothing /\ At({"canary"}) /\ Key' = Key
    BY <1>2, <1>11, CanaryStep DEF AtRule, Running, Key
  <2>2. j = 1
    BY <2>1 DEF VisitInv
  <2>3. i' \in DOMAIN pir[Key].rules => j' <= Len(pir[Key].rules[i'].sources) + 1
    BY <1>5, <1>6, <2>1, <2>2
  <2> QED
    BY <1>2, <1>3, <2>1, <2>2, <2>3 DEF VisitInv
<1>12. CASE ParseFeature \/ ParseAuth \/ ParseHeaders
  <2>1. /\ UNCHANGED <<pending, group, i>> /\ group # Nothing /\ Key' = Key
        /\ \/ step' = step /\ j' = j + 1
           \/ step' = Panicked /\ j' = j
    BY <1>2, <1>12 DEF ParseFeature, ParseAuth, ParseHeaders, NextSource, Panic, AtSource, AtRule, Running, Key
  <2>2. AtSource(OneFeature) \/ AtSource({"auth"}) \/ AtSource({"header"})
    BY <1>12 DEF ParseFeature, ParseAuth, ParseHeaders
  <2>3. ~At({"canary"})' /\ j' \in Nat
    <3>1. step \in 1..16 /\ Parsers[step] \in OneFeature \union {"auth", "header"}
      BY <2>2, ParsersShape DEF AtSource, AtRule, Running, At
    <3>2. Parsers[step] # "canary"
      BY <3>1, FeatureParserFacts
    <3>3. Panicked \notin DOMAIN Parsers
      BY ParsersShape DEF Panicked
    <3>4. j \in Nat
      BY <1>1 DEF LoopInv
    <3> QED
      BY <1>3, <2>1, <3>2, <3>3, <3>4
  <2>4. j \in DOMAIN pir[Key].rules[i].sources /\ i \in DOMAIN pir[Key].rules /\ Key \in DOMAIN pir
    BY <1>1, <2>2, AtSourceFacts
  <2>5. IsSeq(pir[Key].rules[i].sources)
    BY <1>1, <2>4, InputsAreProvided DEF Provided, IsProvided
  <2>6. j' <= Len(pir[Key].rules[i].sources) + 1
    BY <2>1, <2>4, <2>5, IsSeqShape
  <2>7. ~HasAppRoot(Key) => appRoot' = appRoot
    <3>1. CASE UNCHANGED appRoot
      BY <3>1
    <3>2. CASE ~UNCHANGED appRoot
      <4>1. /\ appRoot' = AppRootAfter(appRoot, Source.ing, Get(annotations[Source.ing], "app-root"))
            /\ AtSource(OneFeature)
        BY <1>12, <3>2 DEF ParseFeature, ParseAuth, ParseHeaders, localVars
      <4>2. Source = pir[Key].rules[i].sources[j]
        BY <1>1, <4>1, AtSourceFacts
      <4>3. Get(annotations[Source.ing], "app-root") # <<>> => HasAppRoot(Key)
        BY <2>4, <4>2 DEF HasAppRoot, ToSet
      <4> QED
        BY <4>1, <4>3 DEF AppRootAfter
    <3> QED
      BY <3>1, <3>2
  <2> QED
    BY <1>2, <1>3, <2>1, <2>3, <2>6, <2>7 DEF VisitInv
<1>13. CASE UNCHANGED featureVars
  <2>1. UNCHANGED <<step, pending, group, i, j, appRoot>> /\ Key' = Key
    BY <1>2, <1>13 DEF featureVars, loopVars, localVars, Key
  <2>2. \A parsers : At(parsers)' <=> At(parsers)
    BY <1>3, <2>1 DEF At
  <2> QED
    BY <1>2, <1>3, <2>1, <2>2 DEF VisitInv
<1> QED
  BY <1>1, <1>7, <1>8, <1>9, <1>10, <1>11, <1>12, <1>13 DEF FeatureStep

\* The sources are those of the rules of the provider IR.
LEMMA SourcesShape ==
  ASSUME InputsInv, LoopInv, group # Nothing, NEW n \in DOMAIN pir[Key].rules
  PROVE  Len(Sources) = Len(pir[Key].rules) /\ n <= Len(pir[Key].rules) /\ Len(pir[Key].rules) \in Nat
<1> DEFINE rules == pir[Key].rules
<1>1. IsProvided(rules, ingresses)
  BY InputsAreProvided DEF LoopInv, Provided
<1>2. Len(rules) \in Nat /\ DOMAIN rules = 1..Len(rules)
  BY <1>1, IsSeqShape DEF IsProvided
<1>3. DOMAIN Sources = 1..Len(rules) /\ Sources = [m \in 1..Len(rules) |-> Sources[m]]
  BY <1>2 DEF Sources
<1>4. Len(Sources) = Len(rules)
  BY <1>2, <1>3, FunctionIsSeq
<1> QED
  BY <1>2, <1>4

LEMMA NothingIsNoGroup ==
  ASSUME InputsInv
  PROVE  Nothing \notin DOMAIN ruleGroups
<1>1. \A ing, host : GroupKey(ing, host) # Nothing
  <2> TAKE ing, host
  <2>1. "ns" \in DOMAIN GroupKey(ing, host)
    BY DEF GroupKey
  <2>2. "ns" \notin DOMAIN Nothing
    BY DEF Nothing
  <2> QED
    BY <2>1, <2>2
<1>2. \A g \in DOMAIN ruleGroups : \E ing, host : g = GroupKey(ing, host)
  BY DEF InputsInv, GetRuleGroups, Groups
<1> QED
  BY <1>1, <1>2

Pairs == Nat \X SUBSET Nat

\* H is a set of pairs <<m, X>> and stands for what holds when the sources X of
\* the rule have been looked at, the first m of them last: before, while and
\* after parser s runs.
Course(H, key, s, n) ==
  /\ step < s => <<0, {}>> \in H
  /\ step > s => <<0, IF Named(key) THEN All(key, n) ELSE {}>> \in H
  /\ step = s =>
       /\ ~Visiting(key) \/ i < n => <<0, Earlier(key, n)>> \in H
       /\ Visiting(key) /\ i = n => <<j - 1, Earlier(key, n) \union (1..(j - 1))>> \in H
       /\ Visiting(key) /\ i > n => <<0, All(key, n)>> \in H

\* The parser is done with a source of the rule.
SourceDone(key, s, n) ==
  /\ step = s /\ Visiting(key) /\ i = n /\ AtSource(PerSource)
  /\ UNCHANGED <<step, pending, group, i>> /\ j' = j + 1

LEMMA CourseStep ==
  ASSUME KeptInv, VisitInv, [FeatureStep]_featureVars, step # Panicked, step' # Panicked,
         NEW key \in DOMAIN httpRoutes, NEW n \in DOMAIN pir[key].rules, NEW s \in 2..14,
         NEW H, NEW new, Course(H, key, s, n),
         ~SourceDone(key, s, n) => H \subseteq new,
         SourceDone(key, s, n) =>
           LET X == Earlier(key, n) \union (1..(j - 1))
           IN  <<j - 1, X>> \in H => <<j, X \union {j}>> \in new,
         LET k == Len(pir[key].rules[n].sources) IN <<k, 1..k>> \in new => <<0, 1..k>> \in new
  PROVE  Course(new, key, s, n)'
<1> DEFINE all == All(key, n)
           k   == Len(pir[key].rules[n].sources)
<1>1. InputsInv /\ LoopInv /\ RoutesInv /\ (FeatureStep \/ UNCHANGED featureVars)
  BY DEF KeptInv
<1>2. UNCHANGED <<ingresses, annotations, pir, ruleGroups>>
  BY <1>1, StepKeepsInputs DEF inputs
<1>3. all' = all /\ Named(key)' = Named(key)
  BY <1>2 DEF All, Named
<1>5. all = 1..k /\ k \in Nat
  <2>1. key \in DOMAIN pir
    BY <1>1 DEF LoopInv
  <2>2. IsSeq(pir[key].rules[n].sources)
    BY <1>1, <2>1, InputsAreProvided DEF Provided, IsProvided
  <2> QED
    BY <2>2, IsSeqShape DEF All
<1>6. n \in Nat /\ i \in Nat \ {0} /\ j \in Nat \ {0} /\ n >= 1
  <2>1. key \in DOMAIN pir
    BY <1>1 DEF LoopInv
  <2>2. IsSeq(pir[key].rules)
    BY <1>1, <2>1, InputsAreProvided DEF Provided, IsProvided
  <2> QED
    BY <1>1, <2>2, IsSeqShape DEF LoopInv
<1> HIDE DEF all, k
\* A step that changes nothing of what is done of the parser.
<1>8. ASSUME H \subseteq new, step' = step, step = s => UNCHANGED <<pending, group, i, j>>
      PROVE  Course(new, key, s, n)'
  <2>1. CASE step # s
    BY <1>3, <1>8, <2>1 DEF Course, all
  <2>2. CASE step = s
    <3>1. UNCHANGED <<pending, group, i, j>> /\ Visiting(key)' = Visiting(key) /\ Visited(key)' = Visited(key)
      BY <1>2, <1>8, <2>2 DEF Visiting, Visited, Key
    <3>2. Earlier(key, n)' = Earlier(key, n)
      BY <1>3, <3>1 DEF Earlier, all
    <3> QED
      BY <1>3, <1>8, <2>2, <3>1, <3>2 DEF Course, all
  <2> QED
    BY <2>1, <2>2
<1>9. CASE VisitGroup(FeatureParsers)
  <2>1. group = Nothing /\ step' = step /\ httpRoutes' = httpRoutes /\ H \subseteq new
    BY <1>9 DEF VisitGroup, SourceDone, Visiting
  <2>2. PICK g \in pending :
          /\ pending' = pending \ {g}
          /\ IF ruleGroups[g] \in DOMAIN httpRoutes
             THEN group' = g /\ i' = 1 /\ j' = 1
             ELSE UNCHANGED <<group, i, j>>
    BY <1>9 DEF VisitGroup
  <2>3. g \in DOMAIN ruleGroups
    BY <1>1, <2>2 DEF LoopInv
  <2>4. Visited(key)' <=> Visited(key)
    <3>1. \A h \in DOMAIN ruleGroups : h # group
      BY <1>1, <2>1, NothingIsNoGroup
    <3>2. CASE ruleGroups[g] \in DOMAIN httpRoutes
      <4>1. group' = g
        BY <2>2, <3>2
      <4> QED
        BY <1>2, <2>2, <2>3, <3>1, <4>1 DEF Visited
    <3>3. CASE ruleGroups[g] \notin DOMAIN httpRoutes
      <4>1. group' = group /\ ruleGroups[g] # key
        BY <2>2, <3>3
      <4> QED
        BY <1>2, <2>2, <2>3, <3>1, <4>1 DEF Visited
    <3> QED
      BY <3>2, <3>3
  <2>5. Earlier(key, n)' = Earlier(key, n)
    BY <1>3, <2>4 DEF Earlier, all
  <2>6. CASE step # s
    BY <1>8, <2>1, <2>6
  <2>7. CASE step = s
    <3>1. <<0, Earlier(key, n)>> \in new
      BY <2>1, <2>7 DEF Course, Visiting
    <3>2. Visiting(key)' => i' = 1 /\ j' = 1
      BY <1>2, <2>1, <2>2 DEF Visiting
    <3>3. Earlier(key, n) \union (1..(1 - 1)) = Earlier(key, n) /\ 1 - 1 = 0
      OBVIOUS
    <3>4. /\ <<0, Earlier(key, n)'>> \in new
          /\ Visiting(key)' /\ i' = n => <<j' - 1, Earlier(key, n)' \union (1..(j' - 1))>> \in new
      BY <2>1, <2>5, <3>1, <3>2, <3>3
    <3>5. ~(Visiting(key)' /\ i' > n)
      BY <1>6, <3>2
    <3> QED
      BY <1>3, <2>1, <2>7, <3>4, <3>5 DEF Course
  <2> QED
    BY <2>6, <2>7
<1>10. CASE NextParser(FeatureParsers)
  <2>1. /\ group = Nothing /\ pending = {} /\ step' = step + 1 /\ pending' = DOMAIN ruleGroups
        /\ group' = Nothing /\ H \subseteq new /\ step \in Nat
    BY <1>1, <1>10 DEF NextParser, SourceDone, Visiting, LoopInv, Panicked
  <2>2. (Visited(key) <=> Named(key)) /\ ~Visited(key)' /\ ~Visiting(key)'
    <3>1. \A h \in DOMAIN ruleGroups : h # group
      BY <1>1, <2>1, NothingIsNoGroup
    <3> QED
      BY <1>2, <2>1, <3>1 DEF Visited, Named, Visiting
  <2>3. CASE step = s
    <3>1. <<0, Earlier(key, n)>> \in new /\ step' > s /\ ~(step' < s) /\ step' # s
      BY <2>1, <2>3 DEF Course, Visiting
    <3>2. Earlier(key, n) = IF Named(key)' THEN All(key, n)' ELSE {}
      BY <1>3, <2>2 DEF Earlier, all
    <3>3. <<0, IF Named(key)' THEN All(key, n)' ELSE {}>> \in new
      BY <3>1, <3>2
    <3> QED
      BY <3>1, <3>3 DEF Course
  <2>4. CASE step < s
    <3>1. <<0, {}>> \in new /\ Earlier(key, n)' = {} /\ ~(step' > s)
      BY <2>1, <2>2, <2>4 DEF Course, Earlier
    <3> QED
      BY <1>3, <2>1, <2>2, <2>4, <3>1 DEF Course
  <2>5. CASE step > s
    <3>1. step' > s /\ step' # s /\ ~(step' < s)
      BY <2>1, <2>5
    <3> QED
      BY <1>3, <2>1, <2>5, <3>1 DEF Course, all
  <2> QED
    BY <2>1, <2>3, <2>4, <2>5
<1>11. CASE NextRule(PerSource)
  <2>1. /\ UNCHANGED <<step, pending, group>> /\ i' = i + 1 /\ j' = 1 /\ H \subseteq new
        /\ AtRule(PerSource) /\ j > Len(Sources[i])
    BY <1>6, <1>11 DEF NextRule, SourceDone
  <2>2. CASE step # s
    BY <1>8, <2>1, <2>2
  <2>3. CASE step = s
    <3>1. Visiting(key)' = Visiting(key) /\ Earlier(key, n)' = Earlier(key, n)
      BY <1>2, <1>3, <2>1 DEF Visiting, Visited, Earlier, Key, all
    <3>2. CASE ~Visiting(key) \/ i + 1 < n \/ i > n
      BY <1>3, <1>6, <2>1, <2>3, <3>1, <3>2 DEF Course, all
    <3>3. CASE Visiting(key) /\ i = n
      <4>1. j - 1 = k /\ i' > n /\ ~(i' < n) /\ i' # n
        <5>1. Sources[i] = pir[key].rules[n].sources
          BY <1>1, <2>1, <3>3, AtRuleFacts DEF Visiting
        <5>2. j <= k + 1
          BY <3>3 DEF VisitInv, Visiting, k
        <5>3. j > k
          BY <2>1, <5>1 DEF k
        <5> QED
          BY <1>5, <1>6, <2>1, <3>3, <5>2, <5>3
      <4>2. Earlier(key, n) \union (1..k) = 1..k
        BY <1>5 DEF Earlier, all
      <4>3. <<k, 1..k>> \in new
        BY <2>1, <2>3, <3>3, <4>1, <4>2 DEF Course
      <4>4. <<0, all>> \in new
        BY <1>5, <4>3 DEF k
      <4> QED
        BY <1>3, <2>1, <2>3, <3>1, <3>3, <4>1, <4>4 DEF Course, all
    <3>4. CASE Visiting(key) /\ i + 1 = n
      <4>1. <<0, Earlier(key, n)>> \in new
        BY <1>6, <2>1, <2>3, <3>4 DEF Course
      <4>2. Earlier(key, n) \union (1..(1 - 1)) = Earlier(key, n) /\ 1 - 1 = 0
        OBVIOUS
      <4>3. <<j' - 1, Earlier(key, n)' \union (1..(j' - 1))>> \in new /\ i' = n
        BY <2>1, <3>1, <3>4, <4>1, <4>2
      <4>4. ~(i' < n) /\ ~(i' > n)
        BY <1>6, <4>3
      <4> QED
        BY <1>3, <2>1, <2>3, <3>1, <3>4, <4>3, <4>4 DEF Course
    <3> QED
      BY <1>6, <3>2, <3>3, <3>4
  <2> QED
    BY <2>2, <2>3
<1>12. CASE FinishGroup(FeatureParsers \ {"canary", "redirect"}) \/ FinishRedirect
  <2>1. /\ UNCHANGED <<step, pending>> /\ group' = Nothing /\ group # Nothing
        /\ i > Len(Sources)
    BY <1>12 DEF FinishGroup, FinishRedirect, LeaveGroup, RulesDone, Running
  <2>2. H \subseteq new
    BY <2>1 DEF SourceDone
  <2>3. CASE step # s
    BY <1>8, <2>1, <2>2, <2>3
  <2>4. CASE step = s
    <3>1. ~Visiting(key)'
      BY <2>1 DEF Visiting
    <3>2. CASE Key = key
      <4>1. Visited(key)'
        BY <1>1, <1>2, <2>1, <3>2 DEF Visited, VisitInv, LoopInv, Key
      <4>2. Visiting(key) /\ i > n
        <5>1. Len(Sources) = Len(pir[key].rules) /\ n <= Len(pir[key].rules) /\ Len(pir[key].rules) \in Nat
          <6>1. n \in DOMAIN pir[Key].rules
            BY <3>2
          <6> QED
            BY <1>1, <2>1, <3>2, <6>1, SourcesShape
        <5> QED
          BY <1>6, <2>1, <3>2, <5>1 DEF Visiting
      <4>3. <<0, all>> \in new
        BY <2>2, <2>4, <4>2 DEF Course, all
      <4> QED
        BY <1>3, <2>1, <2>4, <3>1, <4>1, <4>3 DEF Course, Earlier, all
    <3>3. CASE Key # key
      <4>1. Visited(key)' <=> Visited(key)
        <5>1. \A h \in DOMAIN ruleGroups : h # Nothing
          BY <1>1, NothingIsNoGroup
        <5> QED
          BY <1>2, <2>1, <3>3, <5>1 DEF Visited, Key
      <4>2. <<0, Earlier(key, n)>> \in new /\ Earlier(key, n)' = Earlier(key, n)
        BY <1>3, <2>2, <2>4, <3>3, <4>1 DEF Course, Visiting, Earlier, all
      <4> QED
        BY <1>3, <2>1, <2>4, <3>1, <4>2 DEF Course
    <3> QED
      BY <3>2, <3>3
  <2> QED
    BY <2>3, <2>4
<1>13. CASE ParseFeature \/ ParseAuth \/ ParseHeaders
  <2>1. UNCHANGED <<step, pending, group, i>> /\ j' = j + 1 /\ AtSource(PerSource)
    <3>1. AtSource(OneFeature) \/ AtSource({"auth"}) \/ AtSource({"header"})
      BY <1>13 DEF ParseFeature, ParseAuth, ParseHeaders
    <3>2. AtSource(PerSource)
      <4>1. OneFeature \subseteq PerSource /\ "auth" \in PerSource /\ "header" \in PerSource
        BY DEF OneFeature, PerSource, Parsers
      <4> QED
        BY <3>1, <4>1 DEF AtSource, AtRule, Running, At
    <3> QED
      BY <1>13, <3>2 DEF ParseFeature, ParseAuth, ParseHeaders, NextSource, Panic
  <2>2. CASE step # s
    BY <1>8, <2>1, <2>2 DEF SourceDone
  <2>3. CASE step = s
    <3>1. Visiting(key)' = Visiting(key) /\ Earlier(key, n)' = Earlier(key, n)
      BY <1>2, <1>3, <2>1 DEF Visiting, Visited, Earlier, Key, all
    <3>2. CASE ~(Visiting(key) /\ i = n)
      <4>1. H \subseteq new
        BY <3>2 DEF SourceDone
      <4> QED
        BY <1>3, <2>1, <2>3, <3>1, <3>2, <4>1 DEF Course, all
    <3>3. CASE Visiting(key) /\ i = n
      <4> DEFINE X == Earlier(key, n) \union (1..(j - 1))
      <4>1. <<j, X \union {j}>> \in new
        <5>1. SourceDone(key, s, n)
          BY <2>1, <2>3, <3>3 DEF SourceDone
        <5>2. <<j - 1, X>> \in H
          BY <2>3, <3>3 DEF Course
        <5> QED
          BY <5>1, <5>2
      <4>2. j' - 1 = j /\ X \union {j} = Earlier(key, n) \union (1..(j' - 1))
        BY <1>6, <2>1
      <4>3. <<j' - 1, Earlier(key, n)' \union (1..(j' - 1))>> \in new
        BY <3>1, <4>1, <4>2
      <4>4. Visiting(key)' /\ i' = n /\ ~(i' < n) /\ ~(i' > n)
        BY <1>6, <2>1, <3>1, <3>3
      <4> QED
        BY <1>3, <2>1, <2>3, <4>3, <4>4 DEF Course
    <3> QED
      BY <3>2, <3>3
  <2> QED
    BY <2>2, <2>3
<1>14. CASE FinishCanary \/ ParseCanaryRule
  <2>1. step' = step /\ At({"canary"})
    BY <1>14, CanaryStep DEF FinishCanary, AtRule, RulesDone, Running, Panic
  <2>2. step # s
    <3>1. Parsers[s] # "canary"
      BY DEF Parsers
    <3> QED
      BY <2>1, <3>1 DEF At
  <2> QED
    BY <1>8, <2>1, <2>2 DEF SourceDone
<1>15. CASE UNCHANGED featureVars
  <2>1. UNCHANGED <<step, pending, group, i, j>>
    BY <1>15 DEF featureVars, loopVars
  <2>2. ~SourceDone(key, s, n)
    BY <1>6, <2>1 DEF SourceDone
  <2> QED
    BY <1>8, <2>1, <2>2
<1> QED
  BY <1>1, <1>9, <1>10, <1>11, <1>12, <1>13, <1>14, <1>15 DEF FeatureStep

(***************************************************************************)
(* The last of a set of sources                                            *)
(***************************************************************************)
LEMMA MaxIsLast ==
  ASSUME NEW k \in Nat, NEW T, T \subseteq 1..k, T # {}
  PROVE  Max(T) \in T /\ \A m \in T : m <= Max(T)
<1>1. \E n \in T : \A m \in T : m <= n
  <2> DEFINE U == {k - n : n \in T}
  <2>0. \A n \in T : n \in 1..k
    OBVIOUS
  <2>1. U \subseteq Nat /\ U # {}
    <3>1. \A n \in 1..k : k - n \in Nat
      OBVIOUS
    <3>2. \A n \in T : k - n \in Nat
      BY <2>0, <3>1
    <3> QED
      BY <3>2
  <2> HIDE DEF U
  <2>2. PICK u \in U : \A w \in U : u <= w
    BY <2>1, LeastNatural
  <2>3. PICK n \in T : u = k - n
    BY <2>2 DEF U
  <2>4. \A m \in T : k - n <= k - m
    BY <2>2, <2>3 DEF U
  <2>5. \A m \in T : m <= n
    BY <2>0, <2>3, <2>4
  <2> QED
    BY <2>5
<1> QED
  BY <1>1 DEF Max

\* The last source of S among the first m, or else the last of all of S.
LastOf(S, m) == IF S \cap (1..m) # {} THEN Max(S \cap (1..m)) ELSE Max(S)

LEMMA LastOfNext ==
  ASSUME NEW m \in Nat, NEW S
  PROVE  /\ LastOf(S \union {m + 1}, m + 1) = m + 1
         /\ m + 1 \notin S => LastOf(S, m + 1) = LastOf(S, m)
<1>1. LastOf(S \union {m + 1}, m + 1) = m + 1
  <2> DEFINE T == (S \union {m + 1}) \cap (1..(m + 1))
  <2>1. T \subseteq 1..(m + 1) /\ m + 1 \in T /\ m + 1 \in Nat
    OBVIOUS
  <2>2. LastOf(S \union {m + 1}, m + 1) = Max(T)
    BY <2>1 DEF LastOf
  <2> HIDE DEF T
  <2>3. Max(T) \in T /\ m + 1 <= Max(T)
    BY <2>1, MaxIsLast
  <2>4. Max(T) \in 1..(m + 1)
    BY <2>1, <2>3
  <2>5. Max(T) = m + 1
    BY <2>3, <2>4
  <2> QED
    BY <2>2, <2>5
<1>2. m + 1 \notin S => S \cap (1..(m + 1)) = S \cap (1..m)
  OBVIOUS
<1> QED
  BY <1>1, <1>2 DEF LastOf

LEMMA LastOfAll ==
  ASSUME NEW k \in Nat, NEW S, S \subseteq 1..k
  PROVE  LastOf(S, 0) = Max(S) /\ LastOf(S, k) = Max(S)
<1>1. 1..0 = {}
  OBVIOUS
<1>2. S \cap (1..0) = {}
  BY <1>1
<1>3. S \cap (1..k) = S
  OBVIOUS
<1> QED
  BY <1>2, <1>3 DEF LastOf

(***************************************************************************)
(* What a list of updates makes of a feature                               *)
(***************************************************************************)
Writers(u, X)    == {x \in X : u[x] # NoUpdate}
Setting(u, X, y) == {x \in Writers(u, X) : y \in DOMAIN u[x].fields}
Naming(u, X)     == {x \in Writers(u, X) : u[x].keys # {}}

\* The feature after the updates u of the sources X, of which the first m were
\* visited last; names are the Ingresses of the sources.
ValueIR(u, names, m, X) ==
  [fields |-> [y \in UNION {DOMAIN u[x].fields : x \in Writers(u, X)} |->
                 u[LastOf(Setting(u, X, y), m)].fields[y]],
   source |-> IF Naming(u, X) = {} THEN <<>>
              ELSE <<[ingress |-> names[LastOf(Naming(u, X), m)],
                      keys    |-> u[LastOf(Naming(u, X), m)].keys]>>]

Value(u, names, m, X) == IF Writers(u, X) = {} THEN {} ELSE {ValueIR(u, names, m, X)}

LEMMA ValueWithoutUpdate ==
  ASSUME NEW u, NEW names, NEW m \in Nat, NEW X, u[m + 1] = NoUpdate
  PROVE  Value(u, names, m + 1, X \union {m + 1}) = Value(u, names, m, X)
<1> DEFINE Y == X \union {m + 1}
<1>1. Writers(u, Y) = Writers(u, X) /\ m + 1 \notin Writers(u, X)
  BY DEF Writers
<1>2. \A y : Setting(u, Y, y) = Setting(u, X, y) /\ m + 1 \notin Setting(u, X, y)
  BY <1>1 DEF Setting
<1>3. Naming(u, Y) = Naming(u, X) /\ m + 1 \notin Naming(u, X)
  BY <1>1 DEF Naming
<1>4. \A y : LastOf(Setting(u, Y, y), m + 1) = LastOf(Setting(u, X, y), m)
  BY <1>2, LastOfNext
<1>5. LastOf(Naming(u, Y), m + 1) = LastOf(Naming(u, X), m)
  BY <1>3, LastOfNext
<1> HIDE DEF Y
<1>6. ValueIR(u, names, m + 1, Y) = ValueIR(u, names, m, X)
  BY <1>1, <1>3, <1>4, <1>5 DEF ValueIR
<1> QED
  BY <1>1, <1>6 DEF Value, Y

\* The feature of a cell, or a new one if the cell is empty.
Holding(cell, ir) == cell = {ir} \/ (cell = {} /\ ir = EmptyIR)

LEMMA ValueWithUpdate ==
  ASSUME NEW u, NEW names, NEW m \in Nat, NEW X, u[m + 1] # NoUpdate, NEW ing, names[m + 1] = NN(ing),
         NEW old, Holding(Value(u, names, m, X), old)
  PROVE  Value(u, names, m + 1, X \union {m + 1}) = {WrittenIR(old, u[m + 1], ing)}
<1> DEFINE Y  == X \union {m + 1}
           up == u[m + 1]
           new == ValueIR(u, names, m + 1, Y)
           fields == UNION {DOMAIN u[x].fields : x \in Writers(u, X)}
<1>1. Writers(u, Y) = Writers(u, X) \union {m + 1}
  BY DEF Writers
<1>2. \A y : /\ y \in DOMAIN up.fields => Setting(u, Y, y) = Setting(u, X, y) \union {m + 1}
             /\ y \notin DOMAIN up.fields => Setting(u, Y, y) = Setting(u, X, y) /\ m + 1 \notin Setting(u, X, y)
  BY <1>1 DEF Setting
<1>3. /\ up.keys # {} => Naming(u, Y) = Naming(u, X) \union {m + 1}
      /\ up.keys = {} => Naming(u, Y) = Naming(u, X) /\ m + 1 \notin Naming(u, X)
  BY <1>1 DEF Naming
<1>4. \A y : /\ y \in DOMAIN up.fields => LastOf(Setting(u, Y, y), m + 1) = m + 1
             /\ y \notin DOMAIN up.fields =>
                  LastOf(Setting(u, Y, y), m + 1) = LastOf(Setting(u, X, y), m)
  <2> TAKE y
  <2>1. LastOf(Setting(u, X, y) \union {m + 1}, m + 1) = m + 1
    BY LastOfNext
  <2>2. m + 1 \notin Setting(u, X, y) => LastOf(Setting(u, X, y), m + 1) = LastOf(Setting(u, X, y), m)
    BY LastOfNext
  <2> HIDE DEF Y, up
  <2> QED
    BY <1>2, <2>1, <2>2
<1>5. /\ up.keys # {} => LastOf(Naming(u, Y), m + 1) = m + 1 /\ Naming(u, Y) # {}
      /\ up.keys = {} => LastOf(Naming(u, Y), m + 1) = LastOf(Naming(u, X), m)
  BY <1>3, LastOfNext
<1>6. UNION {DOMAIN u[x].fields : x \in Writers(u, Y)} = DOMAIN up.fields \union fields
  BY <1>1
<1>7. /\ DOMAIN old.fields = fields
      /\ \A y \in fields : old.fields[y] = u[LastOf(Setting(u, X, y), m)].fields[y]
      /\ old.source = IF Naming(u, X) = {} THEN <<>>
                      ELSE <<[ingress |-> names[LastOf(Naming(u, X), m)],
                              keys    |-> u[LastOf(Naming(u, X), m)].keys]>>
  <2>1. CASE Writers(u, X) = {}
    <3>1. old = EmptyIR /\ fields = {} /\ Naming(u, X) = {}
      BY <2>1 DEF Value, Naming, Holding
    <3> QED
      BY <3>1 DEF EmptyIR, EmptyMap
  <2>2. CASE Writers(u, X) # {}
    <3>1. old = ValueIR(u, names, m, X)
      BY <2>2 DEF Value, Holding
    <3> QED
      BY <3>1 DEF ValueIR
  <2> QED
    BY <2>1, <2>2
<1> HIDE DEF fields, up, Y
<1>8. new.fields = Over(up.fields, old.fields)
  <2>1. new.fields = [y \in DOMAIN up.fields \union fields |->
                        u[LastOf(Setting(u, Y, y), m + 1)].fields[y]]
    BY <1>6 DEF ValueIR
  <2>2. \A y \in DOMAIN up.fields \union fields :
          u[LastOf(Setting(u, Y, y), m + 1)].fields[y]
            = IF y \in DOMAIN up.fields THEN up.fields[y] ELSE old.fields[y]
    BY <1>4, <1>7 DEF up
  <2> QED
    BY <1>7, <2>1, <2>2 DEF Over
<1>9. new.source = IF up.keys = {} THEN old.source ELSE <<[ingress |-> NN(ing), keys |-> up.keys]>>
  <2>1. CASE up.keys = {}
    BY <1>3, <1>5, <1>7, <2>1 DEF ValueIR
  <2>2. CASE up.keys # {}
    BY <1>5, <2>2 DEF ValueIR, up
  <2> QED
    BY <2>1, <2>2
<1>10. new = WrittenIR(old, up, ing)
  <2>1. new = [fields |-> new.fields, source |-> new.source]
    BY DEF ValueIR
  <2> HIDE DEF new
  <2> QED
    BY <1>8, <1>9, <2>1 DEF WrittenIR
<1>11. Writers(u, Y) # {}
  BY <1>1
<1> HIDE DEF new
<1>12. Value(u, names, m + 1, Y) = {new}
  BY <1>11 DEF Value, new
<1> QED
  BY <1>10, <1>12 DEF Y, up

(***************************************************************************)
(* FeaturesAreLastWritten                                                  *)
(***************************************************************************)
Updates(key, f, n) ==
  [x \in All(key, n) |-> FeatureUpdate(f, annotations[pir[key].rules[n].sources[x].ing],
                                       pir[key].rules[n].sources[x])]
NamesOf(key, n) == [x \in All(key, n) |-> NN(pir[key].rules[n].sources[x].ing)]

Cell(features, f, n) == {features[at] : at \in {<<f, n>>} \cap DOMAIN features}

Holds(key, f, n, m, X) ==
  Cell(httpRoutes[key].features, f, n) = Value(Updates(key, f, n), NamesOf(key, n), m, X)

\* What feature s of rule n is: before, after and while its parser runs.
Cells(key, f, n) == {p \in Pairs : Holds(key, f, n, p[1], p[2])}
CellInv(key, s, n) == Course(Cells(key, Parsers[s], n), key, s, n)

\* The redirect of a route with an app-root is written by more than its sources.
Plain(key, s) ==
  s \in 2..14 /\ Parsers[s] \in OneFeature /\ (Parsers[s] = "redirect" => ~HasAppRoot(key))

LastInv ==
  step # Panicked =>
    \A key \in DOMAIN httpRoutes : \A n \in DOMAIN pir[key].rules : \A s \in 2..14 :
      Plain(key, s) => CellInv(key, s, n)

LEMMA OtherCell ==
  ASSUME NEW features, NEW parser, NEW x, NEW update, NEW ing, NEW f, NEW n, parser # f \/ x # n
  PROVE  Cell(Written(features, <<parser, x>>, update, ing), f, n) = Cell(features, f, n)
<1>1. <<parser, x>> # <<f, n>>
  OBVIOUS
<1> DEFINE at == <<parser, x>>  cell == <<f, n>>
<1>2. at # cell
  BY <1>1
<1> HIDE DEF at, cell
<1>3. /\ cell \in DOMAIN Written(features, at, update, ing) <=> cell \in DOMAIN features
      /\ cell \in DOMAIN features => Written(features, at, update, ing)[cell] = features[cell]
  BY <1>2 DEF Written, Put
<1>4. {Written(features, at, update, ing)[a] : a \in {cell} \cap DOMAIN Written(features, at, update, ing)}
        = {features[a] : a \in {cell} \cap DOMAIN features}
  BY <1>3
<1> QED
  BY <1>4 DEF Cell, at, cell

LEMMA WrittenCell ==
  ASSUME NEW features, NEW update, NEW ing, NEW f, NEW n, update # NoUpdate
  PROVE  \E old : /\ Holding(Cell(features, f, n), old)
                  /\ Cell(Written(features, <<f, n>>, update, ing), f, n) = {WrittenIR(old, update, ing)}
<1> DEFINE cell == <<f, n>>
           old  == IF cell \in DOMAIN features THEN features[cell] ELSE EmptyIR
           new  == WrittenIR(old, update, ing)
<1>1. Written(features, cell, update, ing) = Put(features, cell, new)
  BY DEF Written
<1>2. Holding({features[a] : a \in {cell} \cap DOMAIN features}, old)
  <2> HIDE DEF cell
  <2> QED
    BY DEF Holding
<1> HIDE DEF cell, old, new
<1>3. {Put(features, cell, new)[a] : a \in {cell} \cap DOMAIN Put(features, cell, new)} = {new}
  BY DEF Put
<1> QED
  BY <1>1, <1>2, <1>3 DEF Cell, cell, new

LEMMA NextValue ==
  ASSUME NEW key, NEW f, NEW n, NEW m \in Nat, NEW X, m + 1 \in All(key, n), NEW features,
         Cell(features, f, n) = Value(Updates(key, f, n), NamesOf(key, n), m, X)
  PROVE  LET source == pir[key].rules[n].sources[m + 1]
         IN  Cell(Written(features, <<f, n>>, FeatureUpdate(f, annotations[source.ing], source), source.ing), f, n)
               = Value(Updates(key, f, n), NamesOf(key, n), m + 1, X \union {m + 1})
<1> DEFINE source == pir[key].rules[n].sources[m + 1]
           update == FeatureUpdate(f, annotations[source.ing], source)
           u      == Updates(key, f, n)
           names  == NamesOf(key, n)
           new    == Written(features, <<f, n>>, update, source.ing)
<1>1. u[m + 1] = update /\ names[m + 1] = NN(source.ing)
  BY DEF Updates, NamesOf
<1> HIDE DEF update, u, names
<1>2. CASE update = NoUpdate
  <2>1. Value(u, names, m + 1, X \union {m + 1}) = Value(u, names, m, X)
    BY <1>1, <1>2, ValueWithoutUpdate
  <2>2. new = features
    BY <1>2 DEF Written
  <2> QED
    BY <2>1, <2>2 DEF u, names, update
<1>3. CASE update # NoUpdate
  <2>1. PICK old : /\ Holding(Cell(features, f, n), old)
                   /\ Cell(new, f, n) = {WrittenIR(old, update, source.ing)}
    BY <1>3, WrittenCell
  <2>2. Value(u, names, m, X) = Cell(features, f, n)
    BY DEF u, names
  <2> DEFINE ing == source.ing
  <2>3. /\ u[m + 1] # NoUpdate /\ names[m + 1] = NN(ing)
        /\ Holding(Value(u, names, m, X), old)
    BY <1>1, <1>3, <2>1, <2>2
  <2> HIDE DEF new, source, ing
  <2>4. Value(u, names, m + 1, X \union {m + 1}) = {WrittenIR(old, u[m + 1], ing)}
    BY <2>3, ValueWithUpdate
  <2>5. Value(u, names, m + 1, X \union {m + 1}) = {WrittenIR(old, update, source.ing)}
    BY <1>1, <2>4 DEF ing
  <2> QED
    BY <2>1, <2>5 DEF u, names, update, new, source
<1> QED
  BY <1>2, <1>3

\* After all sources it does not matter where the last visit is.
LEMMA WholeValue ==
  ASSUME NEW u, NEW names, NEW k \in Nat
  PROVE  Value(u, names, k, 1..k) = Value(u, names, 0, 1..k)
<1>1. \A y : LastOf(Setting(u, 1..k, y), k) = LastOf(Setting(u, 1..k, y), 0)
  <2> TAKE y
  <2>1. Setting(u, 1..k, y) \subseteq 1..k
    BY DEF Setting, Writers
  <2> QED
    BY <2>1, LastOfAll
<1>2. LastOf(Naming(u, 1..k), k) = LastOf(Naming(u, 1..k), 0)
  <2>1. Naming(u, 1..k) \subseteq 1..k
    BY DEF Naming, Writers
  <2> QED
    BY <2>1, LastOfAll
<1>3. ValueIR(u, names, k, 1..k) = ValueIR(u, names, 0, 1..k)
  BY <1>1, <1>2 DEF ValueIR
<1> QED
  BY <1>3 DEF Value

LEMMA CellUnchanged ==
  ASSUME KeptInv, VisitInv, [FeatureStep]_featureVars, NEW key \in DOMAIN httpRoutes, NEW n, NEW s,
         Plain(key, s), ~(ParseFeature /\ step = s /\ Key = key /\ i = n)
  PROVE  Cell(httpRoutes'[key].features, Parsers[s], n) = Cell(httpRoutes[key].features, Parsers[s], n)
<1> DEFINE Same == Cell(httpRoutes'[key].features, Parsers[s], n) = Cell(httpRoutes[key].features, Parsers[s], n)
<1>1. InputsInv /\ LoopInv /\ RoutesInv /\ (FeatureStep \/ UNCHANGED featureVars)
  BY DEF KeptInv
<1>2. httpRoutes'[key].features = httpRoutes[key].features => Same
  OBVIOUS
<1>3. CASE ~UNCHANGED httpRoutes /\ key # Key /\ OthersStay(Key)
  BY <1>2, <1>3 DEF OthersStay
<1>4. CASE UNCHANGED httpRoutes
  BY <1>2, <1>4
<1>5. s \in 2..14 /\ Parsers[s] \in OneFeature /\ Parsers[s] \notin {"basicAuth", "externalAuth"}
  BY FeatureParserFacts DEF Plain
<1>6. CASE ParseFeature
  <2> DEFINE update == FeatureUpdate(Parsers[step], annotations[Source.ing], Source)
  <2>1. /\ AtSource(OneFeature)
        /\ \/ UNCHANGED httpRoutes
           \/ /\ httpRoutes'[Key].features = Written(Route.features, <<Parsers[step], i>>, update, Source.ing)
              /\ OthersStay(Key)
    BY <1>1, <1>6, FeatureEffect
  <2> HIDE DEF update
  <2>2. step \in 1..16
    BY <2>1, ParsersShape DEF AtSource, AtRule, Running, At
  <2>3. CASE key = Key /\ ~UNCHANGED httpRoutes
    <3>1. Parsers[step] # Parsers[s] \/ i # n
      BY <1>5, <1>6, <2>2, <2>3, ParsersDistinct
    <3>2. httpRoutes'[key].features
            = Written(httpRoutes[key].features, <<Parsers[step], i>>, update, Source.ing)
      BY <2>1, <2>3 DEF Route
    <3> QED
      BY <3>1, <3>2, OtherCell
  <2> QED
    BY <1>3, <1>4, <2>1, <2>3
<1>7. CASE ParseAuth
  <2>1. \/ UNCHANGED httpRoutes
        \/ /\ httpRoutes'[Key].features \in {BasicOf(Route.features), ExternalOf(BasicOf(Route.features))}
           /\ OthersStay(Key)
    BY <1>1, <1>7, AuthEffect
  <2>2. CASE key = Key /\ ~UNCHANGED httpRoutes
    <3>1. \A features : /\ Cell(BasicOf(features), Parsers[s], n) = Cell(features, Parsers[s], n)
                        /\ Cell(ExternalOf(features), Parsers[s], n) = Cell(features, Parsers[s], n)
      BY <1>5, OtherCell DEF BasicOf, ExternalOf
    <3> QED
      BY <2>1, <2>2, <3>1 DEF Route
  <2> QED
    BY <1>3, <1>4, <2>1, <2>2
<1>8. CASE FinishRedirect
  <2>1. /\ RulesDone({"redirect"})
        /\ \/ UNCHANGED httpRoutes
           \/ /\ appRoot # <<>>
              /\ httpRoutes'[Key].features
                   = Written(Route.features, <<"redirect", AppRootTarget(Route)>>,
                             AppRootUpdate(Route, appRoot[1]), appRoot[1].ing)
              /\ OthersStay(Key)
    BY <1>1, <1>8, RedirectEffect
  <2>2. CASE key = Key /\ ~UNCHANGED httpRoutes
    <3>1. Parsers[s] # "redirect"
      BY <2>1, <2>2 DEF VisitInv, Plain, RulesDone, Running
    <3>2. httpRoutes'[key].features
            = Written(httpRoutes[key].features, <<"redirect", AppRootTarget(Route)>>,
                      AppRootUpdate(Route, appRoot[1]), appRoot[1].ing)
      BY <2>1, <2>2 DEF Route
    <3> QED
      BY <3>1, <3>2, OtherCell
  <2> QED
    BY <1>3, <1>4, <2>1, <2>2
<1>9. CASE ParseHeaders \/ FinishCanary \/ ParseCanaryRule
  <2>1. \/ UNCHANGED httpRoutes
        \/ httpRoutes'[Key].features = Route.features /\ OthersStay(Key)
    BY <1>1, <1>9, HeadersEffect, FinishCanaryEffect, CanaryEffect
  <2> QED
    BY <1>2, <1>3, <1>4, <2>1 DEF Route
<1> QED
  BY <1>1, <1>4, <1>6, <1>7, <1>8, <1>9, LoopEffect DEF FeatureStep

LEMMA StepCell ==
  ASSUME KeptInv, VisitInv, [FeatureStep]_featureVars, step # Panicked, step' # Panicked,
         NEW key \in DOMAIN httpRoutes, NEW n \in DOMAIN pir[key].rules, NEW s \in 2..14,
         Plain(key, s), CellInv(key, s, n)
  PROVE  CellInv(key, s, n)'
<1> DEFINE f   == Parsers[s]
           u   == Updates(key, f, n)
           nm  == NamesOf(key, n)
           c   == Cell(httpRoutes[key].features, f, n)
           k   == Len(pir[key].rules[n].sources)
<1>1. InputsInv /\ LoopInv /\ RoutesInv /\ (FeatureStep \/ UNCHANGED featureVars)
  BY DEF KeptInv
<1>2. UNCHANGED <<ingresses, annotations, pir, ruleGroups>>
  BY <1>1, StepKeepsInputs DEF inputs
<1>3. PICK cell : cell = Cell(httpRoutes'[key].features, f, n)
  OBVIOUS
<1>4. PICK H : H = Cells(key, f, n)
  OBVIOUS
<1>5. PICK new : new = {p \in Pairs : cell = Value(u, nm, p[1], p[2])}
  OBVIOUS
<1>6. new = Cells(key, f, n)'
  BY <1>2, <1>3, <1>5 DEF Cells, Holds, Updates, NamesOf, All
<1>7. \A m \in Nat, X \in SUBSET Nat : /\ <<m, X>> \in H <=> c = Value(u, nm, m, X)
                                       /\ <<m, X>> \in new <=> cell = Value(u, nm, m, X)
  BY <1>4, <1>5 DEF Cells, Holds, Pairs
<1>8. All(key, n) = 1..k /\ k \in Nat
  <2>1. key \in DOMAIN pir
    BY <1>1 DEF LoopInv
  <2>2. IsSeq(pir[key].rules[n].sources)
    BY <1>1, <2>1, InputsAreProvided DEF Provided, IsProvided
  <2> QED
    BY <2>2, IsSeqShape DEF All
<1>9. j \in Nat \ {0} /\ Earlier(key, n) \subseteq Nat
  BY <1>1, <1>8 DEF LoopInv, Earlier
<1>10. Course(H, key, s, n)
  BY <1>4 DEF CellInv
<1>11. ~(ParseFeature /\ step = s /\ Key = key /\ i = n) => cell = c
  BY <1>3, CellUnchanged
<1> HIDE DEF u, nm, c
<1>12. ~SourceDone(key, s, n) => H \subseteq new
  <2>1. ASSUME ParseFeature, step = s, Key = key, i = n PROVE SourceDone(key, s, n)
    <3>1. AtSource(OneFeature) /\ UNCHANGED <<step, pending, group, i>> /\ j' = j + 1
      BY <1>1, <2>1, FeatureEffect, ParsersShape
    <3>2. AtSource(PerSource) /\ Visiting(key)
      <4>1. OneFeature \subseteq PerSource
        BY DEF OneFeature
      <4> QED
        BY <2>1, <3>1, <4>1 DEF AtSource, AtRule, Running, At, Visiting
    <3> QED
      BY <2>1, <3>1, <3>2 DEF SourceDone
  <2>2. ASSUME cell = c PROVE H \subseteq new
    BY <1>4, <1>5, <2>2 DEF Cells, Holds, c, u, nm
  <2> QED
    BY <1>11, <2>1, <2>2
<1> DEFINE m == j - 1
           X == Earlier(key, n) \union (1..m)
<1>13. SourceDone(key, s, n) => (<<m, X>> \in H => <<j, X \union {j}>> \in new)
  <2> SUFFICES ASSUME SourceDone(key, s, n), <<m, X>> \in H PROVE <<j, X \union {j}>> \in new
    OBVIOUS
  <2>1. ParseFeature
    <3>1. step = s /\ AtSource(PerSource) /\ j' = j + 1 /\ step \in 1..16 /\ group # Nothing /\ group' = group
      BY DEF SourceDone, Visiting
    <3>2. Parsers[step] \notin {"auth", "header", "canary"}
      BY <3>1, FeatureParserFacts DEF Plain
    <3>3. /\ ~VisitGroup(FeatureParsers) /\ ~NextParser(FeatureParsers)
          /\ ~FinishGroup(FeatureParsers \ {"canary", "redirect"}) /\ ~FinishRedirect /\ ~FinishCanary
          /\ ~ParseCanaryRule /\ ~ParseAuth /\ ~ParseHeaders
      BY <3>1, <3>2, CanaryStep DEF VisitGroup, NextParser, FinishGroup, FinishRedirect, FinishCanary, LeaveGroup,
         ParseAuth, ParseHeaders, AtSource, AtRule, RulesDone, Running, At
    <3>4. ~NextRule(PerSource) /\ ~UNCHANGED featureVars
      BY <1>9, <3>1 DEF NextRule, featureVars, loopVars, SourceDone, LoopInv
    <3> QED
      BY <1>1, <3>3, <3>4 DEF FeatureStep
  <2>2. step = s /\ Key = key /\ i = n
    BY DEF SourceDone, Visiting
  <2>3. /\ AtSource(OneFeature)
        /\ httpRoutes'[Key].features
             = Written(Route.features, <<Parsers[step], i>>,
                       FeatureUpdate(Parsers[step], annotations[Source.ing], Source), Source.ing)
    BY <1>1, <2>1, FeatureEffect
  <2>4. Source = pir[key].rules[n].sources[j] /\ j \in All(key, n)
    BY <1>1, <2>2, <2>3, AtSourceFacts DEF All
  <2> DEFINE features == httpRoutes[key].features
  <2>5. m \in Nat /\ j = m + 1 /\ X \subseteq Nat
    BY <1>9
  <2>6. Cell(features, f, n) = Value(u, nm, m, X)
    BY <1>7, <2>5 DEF c
  <2>7. httpRoutes'[key].features
          = Written(features, <<f, n>>, FeatureUpdate(f, annotations[Source.ing], Source), Source.ing)
    BY <2>2, <2>3 DEF Route
  <2> HIDE DEF m, X, features, f
  <2>8. cell = Value(u, nm, m + 1, X \union {m + 1})
    <3> DEFINE source == pir[key].rules[n].sources[m + 1]
    <3>1. source = Source /\ m + 1 \in All(key, n)
      BY <2>4, <2>5
    <3>2. Cell(features, f, n) = Value(Updates(key, f, n), NamesOf(key, n), m, X)
      BY <2>6 DEF u, nm
    <3>3. Cell(Written(features, <<f, n>>, FeatureUpdate(f, annotations[source.ing], source), source.ing), f, n)
            = Value(Updates(key, f, n), NamesOf(key, n), m + 1, X \union {m + 1})
      BY <2>5, <3>1, <3>2, NextValue
    <3> QED
      BY <1>3, <2>7, <3>1, <3>3 DEF u, nm
  <2> QED
    BY <1>7, <1>9, <2>5, <2>8
<1>14. <<k, 1..k>> \in new => <<0, 1..k>> \in new
  BY <1>7, <1>8, WholeValue
<1>15. Course(new, key, s, n)'
  BY <1>10, <1>12, <1>13, <1>14, CourseStep
<1> QED
  <2>1. Cells(key, Parsers[s], n)' = new
    BY <1>6
  <2> QED
    BY <1>15, <2>1 DEF CellInv, Course

\* No parser runs after a panic.
LEMMA PanicIsLast ==
  ASSUME FeatureStep \/ UNCHANGED featureVars, step' # Panicked
  PROVE  step # Panicked
<1>1. CASE FeatureStep
  <2>1. ParseCanaryRule => At({"canary"})
    BY CanaryStep DEF AtRule, Running
  <2>2. /\ VisitGroup(FeatureParsers) \/ NextParser(FeatureParsers) => At(FeatureParsers)
        /\ NextRule(PerSource) => At(PerSource)
        /\ FinishGroup(FeatureParsers \ {"canary", "redirect"}) => At(FeatureParsers \ {"canary", "redirect"})
    BY DEF VisitGroup, NextParser, NextRule, FinishGroup, RulesDone, AtRule, Running
  <2>3. /\ FinishCanary => At({"canary"})
        /\ FinishRedirect => At({"redirect"})
        /\ ParseFeature => At(OneFeature)
        /\ ParseAuth => At({"auth"})
        /\ ParseHeaders => At({"header"})
    BY DEF FinishCanary, FinishRedirect, ParseFeature, ParseAuth, ParseHeaders, RulesDone, AtSource, AtRule, Running
  <2>4. \A parsers : At(parsers) => step # Panicked
    BY ParsersShape DEF Panicked, At
  <2> QED
    BY <1>1, <2>1, <2>2, <2>3, <2>4 DEF FeatureStep
<1>2. CASE UNCHANGED featureVars
  BY <1>2 DEF featureVars, loopVars
<1> QED
  BY <1>1, <1>2

LEMMA StepLast ==
  ASSUME KeptInv, VisitInv, LastInv, [FeatureStep]_featureVars
  PROVE  LastInv'
<1> SUFFICES ASSUME step' # Panicked,
                    NEW key \in DOMAIN httpRoutes', NEW n \in DOMAIN pir'[key].rules, NEW s \in 2..14,
                    Plain(key, s)'
             PROVE  CellInv(key, s, n)'
  BY DEF LastInv
<1>1. InputsInv /\ LoopInv /\ (FeatureStep \/ UNCHANGED featureVars)
  BY DEF KeptInv
<1>2. UNCHANGED <<annotations, pir>> /\ DOMAIN httpRoutes' = DOMAIN httpRoutes
  BY <1>1, StepKeepsInputs, LoopStep DEF inputs
<1>3. step # Panicked
  BY <1>1, PanicIsLast
<1>4. Plain(key, s)
  BY <1>2 DEF Plain, HasAppRoot
<1>5. key \in DOMAIN httpRoutes /\ n \in DOMAIN pir[key].rules /\ CellInv(key, s, n)
  BY <1>2, <1>3, <1>4 DEF LastInv
<1> QED
  BY <1>3, <1>4, <1>5, StepCell

LEMMA InitLast == Init => VisitInv /\ LastInv
<1> SUFFICES ASSUME Init PROVE VisitInv /\ LastInv
  OBVIOUS
<1>1. step = 1 /\ group = Nothing /\ j = 1
  BY DEF Init
<1>2. \A key \in DOMAIN httpRoutes : httpRoutes[key].features = EmptyMap
  BY DEF Init, EmitterRoute
<1>3. DOMAIN EmptyMap = {}
  BY DEF EmptyMap
<1>4. ASSUME NEW key \in DOMAIN httpRoutes, NEW n \in DOMAIN pir[key].rules, NEW s \in 2..14
      PROVE  CellInv(key, s, n)
  <2>1. Cell(httpRoutes[key].features, Parsers[s], n) = {}
    BY <1>2, <1>3 DEF Cell
  <2>2. \A u, names : Value(u, names, 0, {}) = {}
    BY DEF Value, Writers
  <2>3. step < s /\ ~(step > s) /\ step # s
    BY <1>1
  <2>4. <<0, {}>> \in Cells(key, Parsers[s], n)
    BY <2>1, <2>2 DEF Cells, Holds, Pairs
  <2> QED
    BY <2>3, <2>4 DEF CellInv, Course
<1> QED
  BY <1>1, <1>4 DEF VisitInv, LastInv

\* What all sources of a rule leave is what the last of them wrote.
LEMMA LastOfAllSources ==
  ASSUME NEW key, NEW f, NEW n, IsSeq(pir[key].rules[n].sources)
  PROVE  Value(Updates(key, f, n), NamesOf(key, n), 0, All(key, n)) = LastWritten(key, f, n)
<1> DEFINE srcs    == pir[key].rules[n].sources
           update(x) == FeatureUpdate(f, annotations[srcs[x].ing], srcs[x])
           u       == Updates(key, f, n)
           names   == NamesOf(key, n)
           all     == All(key, n)
           writers == {x \in DOMAIN srcs : update(x) # NoUpdate}
           fields  == UNION {DOMAIN update(x).fields : x \in writers}
           setting(y) == {x \in writers : y \in DOMAIN update(x).fields}
           named   == {x \in writers : update(x).keys # {}}
           last    == [fields |-> [y \in fields |-> update(Max(setting(y))).fields[y]],
                       source |-> IF named = {} THEN <<>>
                                  ELSE <<[ingress |-> NN(srcs[Max(named)].ing),
                                          keys |-> update(Max(named)).keys]>>]
<1>1. LastWritten(key, f, n) = IF writers = {} THEN {} ELSE {last}
  BY DEF LastWritten
<1>2. PICK k \in Nat : all = 1..k /\ DOMAIN srcs = 1..k
  BY IsSeqShape DEF All
<1>3. \A x \in all : u[x] = update(x) /\ names[x] = NN(srcs[x].ing)
  BY DEF Updates, NamesOf, All
<1> HIDE DEF u, names, all, update
<1>4. Writers(u, all) = writers /\ writers \subseteq 1..k
  BY <1>2, <1>3 DEF Writers
<1>5. \A y : Setting(u, all, y) = setting(y) /\ setting(y) \subseteq 1..k
  BY <1>2, <1>3, <1>4 DEF Setting
<1>6. Naming(u, all) = named /\ named \subseteq 1..k
  BY <1>2, <1>3, <1>4 DEF Naming
<1>7. UNION {DOMAIN u[x].fields : x \in Writers(u, all)} = fields
  BY <1>2, <1>3, <1>4
<1>8. \A y \in fields : /\ LastOf(Setting(u, all, y), 0) = Max(setting(y))
                        /\ u[Max(setting(y))] = update(Max(setting(y)))
  <2> TAKE y \in fields
  <2>1. setting(y) # {} /\ setting(y) \subseteq 1..k
    BY <1>5
  <2>2. LastOf(setting(y), 0) = Max(setting(y)) /\ Max(setting(y)) \in setting(y)
    <3> DEFINE T == setting(y)
    <3> HIDE DEF T
    <3>1. T # {} /\ T \subseteq 1..k => LastOf(T, 0) = Max(T) /\ Max(T) \in T
      BY LastOfAll, MaxIsLast
    <3> QED
      BY <2>1, <3>1 DEF T
  <2>3. Max(setting(y)) \in all
    BY <1>2, <2>1, <2>2
  <2> QED
    BY <1>3, <1>5, <2>2, <2>3
<1>9. named # {} => /\ LastOf(Naming(u, all), 0) = Max(named)
                    /\ u[Max(named)] = update(Max(named))
                    /\ names[Max(named)] = NN(srcs[Max(named)].ing)
  <2> SUFFICES ASSUME named # {} PROVE /\ LastOf(Naming(u, all), 0) = Max(named)
                                       /\ u[Max(named)] = update(Max(named))
                                       /\ names[Max(named)] = NN(srcs[Max(named)].ing)
    OBVIOUS
  <2>1. named # {} /\ named \subseteq 1..k
    BY <1>6
  <2> HIDE DEF named
  <2>2. LastOf(named, 0) = Max(named) /\ Max(named) \in named
    BY <2>1, LastOfAll, MaxIsLast
  <2>3. Max(named) \in all
    BY <1>2, <2>1, <2>2
  <2> QED
    BY <1>3, <1>6, <2>2, <2>3
<1> HIDE DEF writers, fields, setting, named
<1>10. ValueIR(u, names, 0, all) = last
  <2>1. [y \in fields |-> u[LastOf(Setting(u, all, y), 0)].fields[y]]
          = [y \in fields |-> update(Max(setting(y))).fields[y]]
    BY <1>8
  <2>2. ValueIR(u, names, 0, all).fields = last.fields
    BY <1>7, <2>1 DEF ValueIR
  <2>3. ValueIR(u, names, 0, all).source = last.source
    BY <1>6, <1>9 DEF ValueIR
  <2> QED
    BY <2>2, <2>3 DEF ValueIR
<1> QED
  BY <1>1, <1>4, <1>10 DEF Value, u, names, all

WrittenInv == KeptInv /\ VisitInv /\ LastInv

LEMMA WrittenInvInductive ==
  /\ Init => WrittenInv
  /\ WrittenInv /\ [FeatureStep]_featureVars => WrittenInv'
  BY InitKept, StepKept, StepVisit, InitLast, StepLast DEF WrittenInv

\* The features are a function of the provider IR and the annotations: although
\* the rule groups are visited in any order and several of them may name one
\* route, which is then written more than once, every field of a feature is the
\* one assigned by the last source of its rule that assigns it
\* (the loops of the parsers of providers/ingressnginx, as timeout.go).
THEOREM LastSourceWins == Spec => []FeaturesAreLastWritten
<1>1. WrittenInv => FeaturesAreLastWritten
  <2> SUFFICES ASSUME WrittenInv, FeaturesParsed,
                      NEW key \in DOMAIN httpRoutes, NEW f \in {x \in OneFeature : x # "redirect" \/ ~HasAppRoot(key)},
                      NEW n \in DOMAIN pir[key].rules
               PROVE  {httpRoutes[key].features[at] : at \in {<<f, n>>} \cap DOMAIN httpRoutes[key].features}
                        = IF key \in {ruleGroups[g] : g \in DOMAIN ruleGroups}
                          THEN LastWritten(key, f, n) ELSE {}
    BY DEF FeaturesAreLastWritten
  <2>1. PICK s \in 2..14 : f = Parsers[s]
    BY DEF OneFeature, PerSource
  <2>2. Plain(key, s)
    BY <2>1 DEF Plain
  <2>3. step = 15 /\ step # Panicked /\ step > s
    BY <2>1 DEF FeaturesParsed, Conversion, Panicked
  <2>4. CellInv(key, s, n)
    BY <2>2, <2>3 DEF WrittenInv, LastInv
  <2>5. Cell(httpRoutes[key].features, f, n)
          = Value(Updates(key, f, n), NamesOf(key, n), 0, IF Named(key) THEN All(key, n) ELSE {})
    <3>1. <<0, IF Named(key) THEN All(key, n) ELSE {}>> \in Cells(key, f, n)
      BY <2>1, <2>3, <2>4 DEF CellInv, Course
    <3> QED
      BY <3>1 DEF Cells, Holds
  <2>6. IsSeq(pir[key].rules[n].sources)
    BY InputsAreProvided DEF WrittenInv, KeptInv, LoopInv, Provided, IsProvided
  <2>7. Value(Updates(key, f, n), NamesOf(key, n), 0, {}) = {}
    BY DEF Value, Writers
  <2>8. Named(key) <=> key \in {ruleGroups[g] : g \in DOMAIN ruleGroups}
    BY DEF Named
  <2> QED
    BY <2>5, <2>6, <2>7, <2>8, LastOfAllSources DEF Cell
<1>2. WrittenInv /\ [Next]_featureVars => WrittenInv'
  BY WrittenInvInductive DEF Next, FeaturesEnded
<1> QED
  BY <1>1, <1>2, WrittenInvInductive, PTL DEF Spec

(***************************************************************************)
(* ListenerFeaturesAtHTTPS                                                 *)
(***************************************************************************)
SameFrame(rt, old) == rt.ns = old.ns /\ rt.host = old.host /\ rt.parentRefs = old.parentRefs

\* A route stays where it was made: its namespace, host and parent are those of
\* the provider IR.
FramesInv == \A key \in DOMAIN httpRoutes : SameFrame(httpRoutes[key], EmitterRoute(pir[key]))

AtListener(ls, gw, n, nn) ==
  /\ n \in DOMAIN ls
  /\ ls[n].protocol = "HTTPS"
  /\ \E g \in DOMAIN ruleGroups :
       LET rt == pir[ruleGroups[g]]
       IN  /\ g.host = ls[n].host /\ gw = GatewayOf(rt)
           /\ \E m \in DOMAIN rt.rules : nn \in SourceIngresses(ruleGroups[g], m)

ListenersInv ==
  \A gw \in DOMAIN gateways : \A n \in DOMAIN gateways[gw].features :
    AtListener(gateways[gw].listeners, gw, n, gateways[gw].features[n].source[1].ingress)

LEMMA FrameKept ==
  ASSUME NEW key \in DOMAIN httpRoutes, NEW provided, IsRoute(httpRoutes[key], provided),
         NEW features, NEW rules,
         \/ httpRoutes' = [httpRoutes EXCEPT ![key].features = features]
         \/ httpRoutes' = [httpRoutes EXCEPT ![key].rules = rules]
         \/ httpRoutes' = [httpRoutes EXCEPT ![key] = [@ EXCEPT !.rules = rules, !.features = features]]
  PROVE  \A k \in DOMAIN httpRoutes : SameFrame(httpRoutes'[k], httpRoutes[k])
<1> DEFINE rt == httpRoutes[key]
           one == [rt EXCEPT !.features = features]
           two == [rt EXCEPT !.rules = rules]
           both == [rt EXCEPT !.rules = rules, !.features = features]
<1>1. rt = [ns |-> rt.ns, host |-> rt.host, features |-> rt.features,
            parentRefs |-> rt.parentRefs, rules |-> rt.rules]
  BY DEF IsRoute
<1>2. SameFrame(one, rt) /\ SameFrame(two, rt)
  BY <1>1 DEF SameFrame
<1>3. SameFrame(both, rt)
  <2>1. both = [two EXCEPT !.features = features]
    OBVIOUS
  <2>2. two = [ns |-> rt.ns, host |-> rt.host, features |-> rt.features,
               parentRefs |-> rt.parentRefs, rules |-> rules]
    BY <1>1
  <2> HIDE DEF two
  <2> QED
    BY <2>1, <2>2 DEF SameFrame
<1>4. httpRoutes' = [httpRoutes EXCEPT ![key] = one] \/ httpRoutes' = [httpRoutes EXCEPT ![key] = two]
        \/ httpRoutes' = [httpRoutes EXCEPT ![key] = both]
  OBVIOUS
<1> HIDE DEF one, two, both
<1> QED
  BY <1>2, <1>3, <1>4 DEF SameFrame

LEMMA StepKeepsFrames ==
  ASSUME InputsInv, LoopInv, RoutesInv, FeatureStep \/ UNCHANGED featureVars
  PROVE  \A k \in DOMAIN httpRoutes : SameFrame(httpRoutes'[k], httpRoutes[k])
<1>1. ASSUME Key \in DOMAIN httpRoutes,
             \/ \E features : httpRoutes' = [httpRoutes EXCEPT ![Key].features = features]
             \/ \E rules : httpRoutes' = [httpRoutes EXCEPT ![Key].rules = rules]
             \/ \E features, rules :
                  httpRoutes' = [httpRoutes EXCEPT ![Key] = [@ EXCEPT !.rules = rules, !.features = features]]
      PROVE  \A k \in DOMAIN httpRoutes : SameFrame(httpRoutes'[k], httpRoutes[k])
  <2>1. IsRoute(httpRoutes[Key], pir[Key].rules)
    BY <1>1 DEF RoutesInv
  <2> QED
    BY <1>1, <2>1, FrameKept
<1>2. CASE UNCHANGED httpRoutes
  BY <1>2 DEF SameFrame
<1>3. CASE ParseFeature
  <2>1. Key \in DOMAIN httpRoutes
    BY <1>3, FeatureEffect
  <2>2. \/ UNCHANGED httpRoutes
        \/ \E features : httpRoutes' = [httpRoutes EXCEPT ![Key].features = features]
    BY <1>3 DEF ParseFeature
  <2> QED
    BY <1>1, <1>2, <2>1, <2>2
<1>4. CASE ParseAuth
  <2>1. Key \in DOMAIN httpRoutes
    BY <1>4, AuthEffect
  <2>2. \/ UNCHANGED httpRoutes
        \/ \E features : httpRoutes' = [httpRoutes EXCEPT ![Key].features = features]
    BY <1>4 DEF ParseAuth
  <2> QED
    BY <1>1, <1>2, <2>1, <2>2
<1>5. CASE ParseHeaders
  <2>1. Key \in DOMAIN httpRoutes
    BY <1>5, HeadersEffect
  <2>2. \E rules : httpRoutes' = [httpRoutes EXCEPT ![Key].rules = rules]
    BY <1>5 DEF ParseHeaders
  <2> QED
    BY <1>1, <2>1, <2>2
<1>6. CASE ParseCanaryRule
  <2>1. Key \in DOMAIN httpRoutes
    BY <1>6, CanaryEffect
  <2>2. \/ UNCHANGED httpRoutes
        \/ \E rules : httpRoutes' = [httpRoutes EXCEPT ![Key].rules = rules]
    BY <1>6 DEF ParseCanaryRule
  <2> QED
    BY <1>1, <1>2, <2>1, <2>2
<1>7. CASE FinishCanary
  <2>1. Key \in DOMAIN httpRoutes
    BY <1>7, FinishCanaryEffect
  <2>2. \E rules : httpRoutes' = [httpRoutes EXCEPT ![Key].rules = rules]
    BY <1>7 DEF FinishCanary
  <2> QED
    BY <1>1, <2>1, <2>2
<1>8. CASE FinishRedirect
  <2>1. Key \in DOMAIN httpRoutes
    BY <1>8, RedirectEffect
  <2>2. \/ UNCHANGED httpRoutes
        \/ httpRoutes' = [httpRoutes EXCEPT ![Key] = WithAppRoot(httpRoutes[Key], appRoot[1])]
    BY <1>8 DEF FinishRedirect
  <2>3. PICK features, rules :
          WithAppRoot(httpRoutes[Key], appRoot[1])
            = [httpRoutes[Key] EXCEPT !.rules = rules, !.features = features]
    BY DEF WithAppRoot
  <2> DEFINE rt == WithAppRoot(httpRoutes[Key], appRoot[1])
             both == [httpRoutes[Key] EXCEPT !.rules = rules, !.features = features]
  <2>4. CASE httpRoutes' = [httpRoutes EXCEPT ![Key] = rt]
    <3>1. rt = both
      BY <2>3
    <3> HIDE DEF rt, both
    <3>2. httpRoutes' = [httpRoutes EXCEPT ![Key] = both]
      BY <2>4, <3>1
    <3>3. httpRoutes' = [httpRoutes EXCEPT ![Key] = [@ EXCEPT !.rules = rules, !.features = features]]
      BY <3>2 DEF both
    <3> QED
      BY <1>1, <2>1, <3>3
  <2> QED
    BY <1>2, <2>2, <2>4
<1> QED
  BY <1>2, <1>3, <1>4, <1>5, <1>6, <1>7, <1>8, LoopEffect DEF FeatureStep

LEMMA StepFrames ==
  ASSUME KeptInv, FramesInv, [FeatureStep]_featureVars
  PROVE  FramesInv'
<1>1. InputsInv /\ LoopInv /\ RoutesInv /\ (FeatureStep \/ UNCHANGED featureVars)
  BY DEF KeptInv
<1>2. pir' = pir /\ DOMAIN httpRoutes' = DOMAIN httpRoutes
  BY <1>1, StepKeepsInputs, LoopStep DEF inputs
<1> QED
  BY <1>1, <1>2, StepKeepsFrames DEF FramesInv, SameFrame

\* A client certificate is written to listeners of the group's host, on the
\* Gateway of its route.
LEMMA CertificateAtListener ==
  ASSUME FeatureInv, FramesInv, ParseAuth
  PROVE  \/ UNCHANGED gateways
         \/ LET matching == MatchingHTTPSListeners(GatewayOf(pir[Key]), group.host)
            IN  /\ GatewayOf(pir[Key]) \in DOMAIN gateways /\ AtSource({"auth"})
                /\ gateways' = WithMTLS(GatewayOf(pir[Key]), matching,
                                        MTLSUpdate(annotations[Source.ing]), Source.ing)
<1>1. InputsInv /\ LoopInv /\ RoutesInv /\ AtSource({"auth"})
  BY DEF FeatureInv, KeptInv, ParseAuth
<1>2. Key \in DOMAIN httpRoutes
  BY <1>1, AtSourceFacts
<1>3. \/ UNCHANGED gateways
      \/ /\ Route.parentRefs # <<>>
         /\ MatchingHTTPSListeners(ParentGateway(Route), group.host) # {}
         /\ gateways' = WithMTLS(ParentGateway(Route), MatchingHTTPSListeners(ParentGateway(Route), group.host),
                                 MTLSUpdate(annotations[Source.ing]), Source.ing)
  BY DEF ParseAuth
<1>4. ASSUME Route.parentRefs # <<>> PROVE ParentGateway(Route) = GatewayOf(pir[Key])
  <2>1. SameFrame(Route, EmitterRoute(pir[Key]))
    BY <1>2 DEF FramesInv, Route
  <2>2. EmitterRoute(pir[Key]).ns = pir[Key].ns
    BY DEF EmitterRoute
  <2>3. EmitterRoute(pir[Key]).parentRefs \in {<<>>, <<[name |-> pir[Key].class, sectionName |-> <<>>]>>}
    BY DEF EmitterRoute
  <2>4. Route.ns = pir[Key].ns /\ Route.parentRefs[1].name = pir[Key].class
    BY <1>4, <2>1, <2>2, <2>3 DEF SameFrame
  <2> QED
    BY <2>4 DEF ParentGateway, GatewayOf
<1> QED
  BY <1>1, <1>3, <1>4 DEF MatchingHTTPSListeners

\* A step changes the features of a Gateway at most, never its listeners.
LEMMA StepKeepsListeners ==
  ASSUME FeatureInv, FramesInv, FeatureStep \/ UNCHANGED featureVars
  PROVE  /\ DOMAIN gateways' = DOMAIN gateways
         /\ \A gw \in DOMAIN gateways : gateways'[gw].listeners = gateways[gw].listeners
<1>1. CASE UNCHANGED gateways
  BY <1>1
<1>2. CASE ParseAuth /\ ~UNCHANGED gateways
  <2> DEFINE gw == GatewayOf(pir[Key])
  <2>1. PICK features : gw \in DOMAIN gateways /\ gateways' = [gateways EXCEPT ![gw].features = features]
    BY <1>2, CertificateAtListener DEF WithMTLS
  <2>2. gateways[gw] = [features |-> gateways[gw].features, listeners |-> gateways[gw].listeners]
    BY <2>1 DEF FeatureInv, FeaturesInv
  <2> HIDE DEF gw
  <2> QED
    BY <2>1, <2>2
<1>3. CASE ~ParseAuth
  <2>1. UNCHANGED gateways
    BY <1>3, LoopEffect DEF FeatureStep, ParseCanaryRule, FinishCanary, ParseFeature, FinishRedirect, ParseHeaders
  <2> QED
    BY <2>1
<1> QED
  BY <1>1, <1>2, <1>3

LEMMA StepListeners ==
  ASSUME FeatureInv, FramesInv, ListenersInv, [FeatureStep]_featureVars
  PROVE  ListenersInv'
<1>1. InputsInv /\ LoopInv /\ RoutesInv /\ FeaturesInv /\ (FeatureStep \/ UNCHANGED featureVars)
  BY DEF FeatureInv, KeptInv
<1>2. UNCHANGED <<pir, ruleGroups>>
  BY <1>1, StepKeepsInputs DEF inputs
<1>3. CASE UNCHANGED gateways
  BY <1>2, <1>3 DEF ListenersInv, AtListener, SourceIngresses
<1>4. CASE ParseAuth /\ ~UNCHANGED gateways
  <2> DEFINE gw == GatewayOf(pir[Key])
             ing == Source.ing
             matching == MatchingHTTPSListeners(gw, group.host)
             update == MTLSUpdate(annotations[ing])
             f == [n \in matching |->
                     WrittenIR(IF n \in DOMAIN gateways[gw].features THEN gateways[gw].features[n] ELSE EmptyIR,
                               update, ing)]
             features == Over(f, gateways[gw].features)
  <2>1. /\ gw \in DOMAIN gateways /\ AtSource({"auth"})
        /\ gateways' = WithMTLS(gw, matching, update, ing)
    BY <1>4, CertificateAtListener
  <2>2. gateways' = [gateways EXCEPT ![gw].features = features]
    BY <2>1 DEF WithMTLS
  <2>3. update.keys # {}
    BY DEF MTLSUpdate, Update
  <2>4. \A n \in matching : f[n].source[1].ingress = NN(ing)
    BY <2>3 DEF WrittenIR
  <2>5. \A n \in matching : AtListener(gateways[gw].listeners, gw, n, NN(ing))
    <3>1. group \in DOMAIN ruleGroups
      BY <1>1, <2>1, AtSourceFacts
    <3>2. i \in DOMAIN pir[Key].rules /\ NN(ing) \in SourceIngresses(Key, i)
      BY <1>1, <2>1, SourceAtItsRule
    <3>3. \A n \in matching : /\ n \in DOMAIN gateways[gw].listeners
                              /\ gateways[gw].listeners[n].protocol = "HTTPS"
                              /\ gateways[gw].listeners[n].host = group.host
      BY DEF MatchingHTTPSListeners
    <3> HIDE DEF matching, ing
    <3> QED
      BY <3>1, <3>2, <3>3 DEF AtListener, Key
  <2>6. DOMAIN f = matching
    OBVIOUS
  <2> HIDE DEF f, matching
  <2>7. \A n \in DOMAIN features :
          AtListener(gateways[gw].listeners, gw, n, features[n].source[1].ingress)
    BY <2>1, <2>4, <2>5, <2>6 DEF Over, ListenersInv
  <2>8. /\ gateways[gw] = [features |-> gateways[gw].features, listeners |-> gateways[gw].listeners]
    BY <1>1, <2>1 DEF FeaturesInv
  <2> HIDE DEF features
  <2>9. /\ gateways'[gw].features = features /\ gateways'[gw].listeners = gateways[gw].listeners
        /\ DOMAIN gateways' = DOMAIN gateways
        /\ \A g \in DOMAIN gateways : g # gw => gateways'[g] = gateways[g]
    BY <2>1, <2>2, <2>8
  <2>10. \A g \in DOMAIN gateways' : \A n \in DOMAIN gateways'[g].features :
           AtListener(gateways'[g].listeners, g, n, gateways'[g].features[n].source[1].ingress)
    BY <2>7, <2>9 DEF ListenersInv
  <2> QED
    BY <1>2, <2>10 DEF ListenersInv, AtListener, SourceIngresses
<1>5. CASE ~ParseAuth
  <2>1. UNCHANGED gateways
    BY <1>1, <1>5, LoopEffect DEF FeatureStep, ParseCanaryRule, FinishCanary, ParseFeature, FinishRedirect, ParseHeaders
  <2> QED
    BY <1>3, <2>1
<1> QED
  BY <1>3, <1>4, <1>5

ListenerInv == FeatureInv /\ FramesInv /\ ListenersInv

LEMMA InitListeners == Init => FramesInv /\ ListenersInv
<1> SUFFICES ASSUME Init PROVE FramesInv /\ ListenersInv
  OBVIOUS
<1>1. FramesInv
  BY DEF Init, FramesInv, SameFrame
<1>2. \A gw \in DOMAIN gateways : gateways[gw].features = EmptyMap
  BY DEF Init, EmitterGateway
<1>3. DOMAIN EmptyMap = {}
  BY DEF EmptyMap
<1> QED
  BY <1>1, <1>2, <1>3 DEF ListenersInv

LEMMA ListenerInvInductive ==
  /\ Init => ListenerInv
  /\ ListenerInv /\ [FeatureStep]_featureVars => ListenerInv'
<1>1. Init => ListenerInv
  BY FeatureInvInductive, InitListeners DEF ListenerInv
<1>2. ASSUME ListenerInv, [FeatureStep]_featureVars PROVE ListenerInv'
  <2>1. KeptInv /\ FeatureInv /\ FramesInv /\ ListenersInv
    BY <1>2 DEF ListenerInv, FeatureInv
  <2> QED
    BY <1>2, <2>1, FeatureInvInductive, StepFrames, StepListeners DEF ListenerInv
<1> QED
  BY <1>1, <1>2

\* A client certificate is only ever asked for by listeners that end TLS, on the
\* Gateway of the route that was visited and for the host of its group, although
\* the listeners are looked up again, by host, for every source of every rule
\* (auth.go:95-134).
THEOREM CertificatesAtTheirListeners == Spec => []ListenerFeaturesAtHTTPS
<1>1. ListenerInv => ListenerFeaturesAtHTTPS
  BY DEF ListenerInv, ListenersInv, AtListener, ListenerFeaturesAtHTTPS
<1>2. ListenerInv /\ [Next]_featureVars => ListenerInv'
  BY ListenerInvInductive DEF Next, FeaturesEnded
<1> QED
  BY <1>1, <1>2, ListenerInvInductive, PTL DEF Spec

(***************************************************************************)
(* FiltersOnce                                                             *)
(***************************************************************************)
Typed(filters, type) == {x \in DOMAIN filters : filters[x].type = type}

Asking(key, n, type, X) ==
  {x \in X \cap All(key, n) : Get(annotations[pir[key].rules[n].sources[x].ing], type) # <<>>}

Counted(filters, key, n, X) ==
  /\ IsSeq(filters)
  /\ \A type \in HeaderTypes : Cardinality(Typed(filters, type)) = Cardinality(Asking(key, n, type, X))

FilterCells(key, n) == {p \in Pairs : Counted(httpRoutes[key].rules[n].filters, key, n, p[2])}

AllBare(rules) == \A n \in DOMAIN rules : rules[n].filters = <<>>

\* No rule has a filter before the parser of headers, which is the ninth, runs.
BareInv ==
  step \in 1..8 =>
    /\ \A key \in DOMAIN httpRoutes : AllBare(httpRoutes[key].rules)
    /\ group # Nothing => AllBare(newRules)

FiltersInv ==
  step # Panicked =>
    \A key \in DOMAIN httpRoutes : OneGroup(key) =>
      \A n \in DOMAIN pir[key].rules : Course(FilterCells(key, n), key, 9, n)

LEMMA FilterAppended ==
  ASSUME NEW s, IsSeq(s), NEW type, NEW filter
  PROVE  /\ IsSeq(s \o <<filter>>)
         /\ Cardinality(Typed(s \o <<filter>>, type))
              = Cardinality(Typed(s, type)) + (IF filter.type = type THEN 1 ELSE 0)
<1> DEFINE t == <<filter>>  both == s \o t  k == Len(s)
<1>1. IsSeq(t) /\ Len(t) = 1 /\ t[1] = filter
  BY SingleIsSeq
<1>2. k \in Nat /\ DOMAIN s = 1..k
  BY IsSeqShape
<1>3. /\ IsSeq(both) /\ DOMAIN both = 1..(k + 1)
      /\ \A n \in 1..k : both[n] = s[n]
      /\ both[k + 1] = filter
  <2> HIDE DEF t, both, k
  <2>1. /\ IsSeq(s \o t) /\ DOMAIN (s \o t) = 1..(Len(s) + Len(t))
        /\ \A n \in 1..Len(s) : (s \o t)[n] = s[n]
        /\ \A n \in 1..Len(t) : (s \o t)[Len(s) + n] = t[n]
    <3>1. IsSeq(s) /\ IsSeq(t)
      BY <1>1
    <3> HIDE <1>1
    <3> QED
      BY <3>1, ConcatSeq
  <2>2. /\ IsSeq(both) /\ DOMAIN both = 1..(k + 1)
        /\ \A n \in 1..k : both[n] = s[n]
        /\ \A n \in 1..1 : both[k + n] = t[n]
    BY <1>1, <2>1 DEF both, k
  <2>3. 1 \in 1..1
    OBVIOUS
  <2> QED
    BY <1>1, <2>2, <2>3
<1> HIDE DEF both, t, k
<1>4. Typed(both, type) = Typed(s, type) \union (IF filter.type = type THEN {k + 1} ELSE {})
  BY <1>2, <1>3 DEF Typed
<1>5. IsFiniteSet(Typed(s, type)) /\ k + 1 \notin Typed(s, type)
  <2>1. IsFiniteSet(1..k)
    BY <1>2, IndicesFinite
  <2>2. Typed(s, type) \subseteq 1..k
    BY <1>2 DEF Typed
  <2>3. k + 1 \notin 1..k
    BY <1>2
  <2> QED
    BY <2>1, <2>2, <2>3, FS_Subset
<1>6. Cardinality(Typed(s, type)) \in Nat
  BY <1>5, FS_CardinalityType
<1>7. CASE filter.type = type
  <2>1. Typed(both, type) = Typed(s, type) \union {k + 1}
    BY <1>4, <1>7
  <2>2. Cardinality(Typed(both, type)) = Cardinality(Typed(s, type)) + 1
    BY <1>5, <2>1, FS_AddElement
  <2> QED
    BY <1>3, <1>7, <2>2 DEF both, t
<1>8. CASE filter.type # type
  <2>1. Typed(both, type) = Typed(s, type)
    BY <1>4, <1>8
  <2> QED
    BY <1>3, <1>6, <1>8, <2>1 DEF both, t
<1> QED
  BY <1>7, <1>8

FilterFor(a, name) == IF Get(a, name) = <<>> THEN <<>> ELSE <<[type |-> name, value |-> a[name]]>>

LEMMA FilterForAppended ==
  ASSUME NEW s, IsSeq(s), NEW type, NEW a, NEW name
  PROVE  /\ IsSeq(s \o FilterFor(a, name))
         /\ Cardinality(Typed(s \o FilterFor(a, name), type))
              = Cardinality(Typed(s, type)) + (IF name = type /\ Get(a, name) # <<>> THEN 1 ELSE 0)
<1>1. CASE Get(a, name) = <<>>
  <2>1. FilterFor(a, name) = <<>>
    BY <1>1 DEF FilterFor
  <2>2. s \o <<>> = s
    BY ConcatEmptySeq DEF IsSeq
  <2>3. Cardinality(Typed(s, type)) \in Nat
    <3>1. Len(s) \in Nat /\ DOMAIN s = 1..Len(s)
      BY IsSeqShape
    <3>2. IsFiniteSet(1..Len(s)) /\ Typed(s, type) \subseteq 1..Len(s)
      BY <3>1, IndicesFinite DEF Typed
    <3> QED
      BY <3>2, FS_Subset, FS_CardinalityType
  <2> QED
    BY <1>1, <2>1, <2>2, <2>3
<1>2. CASE Get(a, name) # <<>>
  <2> DEFINE filter == [type |-> name, value |-> a[name]]
  <2>1. FilterFor(a, name) = <<filter>> /\ filter.type = name
    BY <1>2 DEF FilterFor
  <2> HIDE DEF filter
  <2> QED
    BY <1>2, <2>1, FilterAppended
<1> QED
  BY <1>1, <1>2

\* A source adds a filter of each type it has the annotation of.
LEMMA HeaderFiltersAppended ==
  ASSUME NEW s, IsSeq(s), NEW type \in HeaderTypes, NEW a
  PROVE  /\ IsSeq(s \o HeaderFilters(a))
         /\ Cardinality(Typed(s \o HeaderFilters(a), type))
              = Cardinality(Typed(s, type)) + (IF Get(a, type) # <<>> THEN 1 ELSE 0)
<1> DEFINE one == FilterFor(a, "x-forwarded-prefix")
           two == FilterFor(a, "upstream-vhost")
<1>1. HeaderFilters(a) = one \o two
  BY DEF HeaderFilters, FilterFor
<1>2. IsSeq(one) /\ IsSeq(two)
  BY EmptyIsSeq, SingleIsSeq DEF FilterFor
<1>3. /\ IsSeq(s \o one)
      /\ Cardinality(Typed(s \o one, type))
           = Cardinality(Typed(s, type)) + (IF "x-forwarded-prefix" = type /\ Get(a, "x-forwarded-prefix") # <<>> THEN 1 ELSE 0)
  BY FilterForAppended
<1>4. /\ IsSeq((s \o one) \o two)
      /\ Cardinality(Typed((s \o one) \o two, type))
           = Cardinality(Typed(s \o one, type)) + (IF "upstream-vhost" = type /\ Get(a, "upstream-vhost") # <<>> THEN 1 ELSE 0)
  BY <1>3, FilterForAppended
<1> HIDE DEF one, two
<1>5. (s \o one) \o two = s \o (one \o two)
  <2> DEFINE U == {s[n] : n \in DOMAIN s} \union {one[n] : n \in DOMAIN one} \union {two[n] : n \in DOMAIN two}
  <2>1. s \in Seq(U) /\ one \in Seq(U) /\ two \in Seq(U)
    BY <1>2, SeqMonotonic DEF IsSeq
  <2> HIDE DEF U
  <2> QED
    BY <2>1, ConcatAssociative
<1>6. Cardinality(Typed(s, type)) \in Nat
  <2>1. Len(s) \in Nat /\ DOMAIN s = 1..Len(s)
    BY IsSeqShape
  <2>2. IsFiniteSet(1..Len(s)) /\ Typed(s, type) \subseteq 1..Len(s)
    BY <2>1, IndicesFinite DEF Typed
  <2> QED
    BY <2>2, FS_Subset, FS_CardinalityType
<1>7. type = "x-forwarded-prefix" \/ type = "upstream-vhost"
  BY DEF HeaderTypes
<1> DEFINE all == s \o HeaderFilters(a)
           c0 == Cardinality(Typed(s, type))
           c1 == Cardinality(Typed(s \o one, type))
           c2 == Cardinality(Typed((s \o one) \o two, type))
<1>8. all = (s \o one) \o two
  BY <1>1, <1>5
<1>9. CASE type = "x-forwarded-prefix"
  <2>1. c1 = c0 + (IF Get(a, type) # <<>> THEN 1 ELSE 0) /\ c2 = c1 + 0
    BY <1>3, <1>4, <1>9
  <2> HIDE DEF c0, c1, c2
  <2>2. c2 = c0 + (IF Get(a, type) # <<>> THEN 1 ELSE 0)
    BY <1>6, <2>1 DEF c0
  <2> QED
    BY <1>4, <1>8, <2>2 DEF c0, c2
<1>10. CASE type = "upstream-vhost"
  <2>1. c1 = c0 + 0 /\ c2 = c1 + (IF Get(a, type) # <<>> THEN 1 ELSE 0)
    BY <1>3, <1>4, <1>10
  <2> HIDE DEF c0, c1, c2
  <2>2. c2 = c0 + (IF Get(a, type) # <<>> THEN 1 ELSE 0)
    BY <1>6, <2>1 DEF c0
  <2> QED
    BY <1>4, <1>8, <2>2 DEF c0, c2
<1> QED
  BY <1>7, <1>9, <1>10

LEMMA OneMoreAsking ==
  ASSUME NEW key, NEW n, NEW type, NEW X, NEW k \in Nat, All(key, n) = 1..k,
         NEW x \in All(key, n), x \notin X
  PROVE  Cardinality(Asking(key, n, type, X \union {x}))
           = Cardinality(Asking(key, n, type, X))
               + (IF Get(annotations[pir[key].rules[n].sources[x].ing], type) # <<>> THEN 1 ELSE 0)
<1> DEFINE asks == Get(annotations[pir[key].rules[n].sources[x].ing], type) # <<>>
           old  == Asking(key, n, type, X)
           new  == Asking(key, n, type, X \union {x})
<1>1. new = old \union (IF asks THEN {x} ELSE {}) /\ x \notin old /\ old \subseteq 1..k
  BY DEF Asking
<1>2. IsFiniteSet(old) /\ Cardinality(old) \in Nat
  BY <1>1, IndicesFinite, FS_Subset, FS_CardinalityType
<1> HIDE DEF old, new, asks
<1>3. CASE asks
  <2>1. Cardinality(new) = Cardinality(old) + 1
    BY <1>1, <1>2, <1>3, FS_AddElement
  <2> QED
    BY <1>3, <2>1 DEF old, new, asks
<1>4. CASE ~asks
  <2>1. new = old
    BY <1>1, <1>4
  <2> QED
    BY <1>2, <1>4, <2>1 DEF old, new, asks
<1> QED
  BY <1>3, <1>4

LEMMA BareConcat ==
  ASSUME NEW s, NEW t, IsSeq(s), IsSeq(t), AllBare(s), AllBare(t)
  PROVE  AllBare(s \o t)
<1>1. /\ Len(s) \in Nat /\ DOMAIN s = 1..Len(s)
      /\ Len(t) \in Nat /\ DOMAIN t = 1..Len(t)
  BY IsSeqShape
<1>2. /\ DOMAIN (s \o t) = 1..(Len(s) + Len(t))
      /\ \A n \in 1..Len(s) : (s \o t)[n] = s[n]
      /\ \A n \in 1..Len(t) : (s \o t)[Len(s) + n] = t[n]
  BY ConcatSeq
<1>3. ASSUME NEW n \in DOMAIN (s \o t)
      PROVE  (s \o t)[n].filters = <<>>
  <2> DEFINE both == s \o t
  <2>1. CASE n \in 1..Len(s)
    <3>1. both[n] = s[n]
      BY <1>2, <2>1
    <3> HIDE DEF both
    <3> QED
      BY <1>1, <2>1, <3>1 DEF AllBare, both
  <2>2. CASE n - Len(s) \in 1..Len(t)
    <3>1. n = Len(s) + (n - Len(s))
      BY <1>1, <1>2
    <3>2. both[n] = t[n - Len(s)]
      BY <1>2, <2>2, <3>1
    <3> HIDE DEF both
    <3> QED
      BY <1>1, <2>2, <3>2 DEF AllBare, both
  <2>3. n \in 1..Len(s) \/ n - Len(s) \in 1..Len(t)
    BY <1>1, <1>2
  <2> QED
    BY <2>1, <2>2, <2>3
<1> QED
  BY <1>3 DEF AllBare

LEMMA BareRoutes ==
  ASSUME \A key \in DOMAIN httpRoutes : AllBare(httpRoutes[key].rules),
         DOMAIN httpRoutes' = DOMAIN httpRoutes, OthersStay(Key), AllBare(httpRoutes'[Key].rules)
  PROVE  \A key \in DOMAIN httpRoutes' : AllBare(httpRoutes'[key].rules)
  BY DEF OthersStay

LEMMA StepBare ==
  ASSUME KeptInv, BareInv, [FeatureStep]_featureVars
  PROVE  BareInv'
<1> SUFFICES ASSUME step' \in 1..8
             PROVE  /\ \A key \in DOMAIN httpRoutes' : AllBare(httpRoutes'[key].rules)
                    /\ group' # Nothing => AllBare(newRules')
  BY DEF BareInv, AllBare
<1>1. InputsInv /\ LoopInv /\ RoutesInv /\ NewRulesInv /\ (FeatureStep \/ UNCHANGED featureVars)
  BY DEF KeptInv
<1>2. DOMAIN httpRoutes' = DOMAIN httpRoutes
  BY <1>1, LoopStep
<1>3. ASSUME step \in 1..8
      PROVE  /\ \A key \in DOMAIN httpRoutes : AllBare(httpRoutes[key].rules)
             /\ group # Nothing => AllBare(newRules)
  BY <1>3 DEF BareInv
<1>4. CASE VisitGroup(FeatureParsers) \/ NextRule(PerSource) \/ UNCHANGED featureVars
            \/ FinishGroup(FeatureParsers \ {"canary", "redirect"})
  <2>1. /\ UNCHANGED <<httpRoutes, step>>
        /\ newRules' = <<>> \/ (newRules' = newRules /\ (group' # Nothing => group # Nothing))
    BY <1>4 DEF VisitGroup, NextRule, FinishGroup, LeaveGroup, featureVars, loopVars, localVars
  <2>2. AllBare(<<>>)
    BY EmptyIsSeq, IsSeqShape DEF AllBare
  <2> QED
    BY <1>3, <2>1, <2>2
<1>5. CASE NextParser(FeatureParsers)
  <2>1. UNCHANGED httpRoutes /\ group' = Nothing /\ step' = step + 1 /\ step \in 1..16
    BY <1>5, ParsersShape DEF NextParser, At
  <2> QED
    BY <1>3, <2>1
<1>6. CASE ParseFeature \/ ParseAuth
  <2>1. /\ Key \in DOMAIN httpRoutes
        /\ \/ step' = Panicked
           \/ UNCHANGED httpRoutes
           \/ httpRoutes'[Key].rules = Route.rules /\ OthersStay(Key)
    BY <1>1, <1>6, FeatureEffect, AuthEffect
  <2>2. step' = step /\ UNCHANGED <<newRules, group>>
    BY <1>6 DEF ParseFeature, ParseAuth, localVars, Panic, Panicked, NextSource
  <2>3. step' # Panicked
    BY DEF Panicked
  <2> QED
    BY <1>2, <1>3, <2>1, <2>2, <2>3, BareRoutes DEF Route
<1>7. CASE ParseHeaders
  <2>1. step' = step /\ step \in 1..16 /\ Parsers[step] = "header"
    BY <1>7, ParsersShape DEF ParseHeaders, NextSource, AtSource, AtRule, Running, At
  <2>2. Parsers[9] = "header"
    BY DEF Parsers
  <2>3. step = 9
    BY <2>1, <2>2, ParsersDistinct
  <2> QED
    BY <2>1, <2>3
<1>8. CASE FinishCanary
  <2>1. /\ Key \in DOMAIN httpRoutes /\ OthersStay(Key) /\ step' = step /\ group # Nothing /\ group' = Nothing
        /\ httpRoutes'[Key].rules = newRules \o Route.rules
    BY <1>1, <1>8, FinishCanaryEffect DEF FinishCanary, RulesDone, Running, LeaveGroup
  <2>2. IsSeq(newRules) /\ IsSeq(Route.rules)
    BY <1>1, <2>1 DEF NewRulesInv, AreHeaderRules, RoutesInv, IsRoute, Route
  <2>3. AllBare(newRules) /\ AllBare(Route.rules)
    BY <1>3, <2>1 DEF Route
  <2>4. AllBare(newRules \o Route.rules)
    BY <2>2, <2>3, BareConcat
  <2> QED
    BY <1>2, <1>3, <2>1, <2>4, BareRoutes
<1>9. CASE FinishRedirect
  <2>1. step' = step /\ group' = Nothing
    BY <1>9 DEF FinishRedirect, LeaveGroup
  <2>2. \/ UNCHANGED httpRoutes
        \/ /\ Key \in DOMAIN httpRoutes /\ OthersStay(Key)
           /\ httpRoutes'[Key].rules = AppRootRules(Route)
    BY <1>1, <1>9, RedirectEffect
  <2>3. Key \in DOMAIN httpRoutes => AllBare(AppRootRules(Route))
    <3> HAVE Key \in DOMAIN httpRoutes
    <3>1. IsSeq(Route.rules) /\ AllBare(Route.rules)
      BY <1>1, <1>3, <2>1 DEF RoutesInv, IsRoute, Route
    <3>2. AppRootRule.filters = <<>>
      BY DEF AppRootRule
    <3>3. AllBare(Append(Route.rules, AppRootRule))
      <4> DEFINE rules == Route.rules  one == AppRootRule
      <4>1. IsSeq(rules) /\ AllBare(rules) /\ one.filters = <<>>
        BY <3>1, <3>2
      <4> HIDE DEF rules, one
      <4>2. Len(rules) \in Nat /\ DOMAIN rules = 1..Len(rules)
        BY <4>1, IsSeqShape
      <4>3. /\ DOMAIN Append(rules, one) = 1..(Len(rules) + 1)
            /\ \A n \in 1..Len(rules) : Append(rules, one)[n] = rules[n]
            /\ Append(rules, one)[Len(rules) + 1] = one
        BY <4>1, AppendSeq
      <4>4. AllBare(Append(rules, one))
        <5> DEFINE more == Append(rules, one)
        <5> HIDE DEF more
        <5>1. \A n \in DOMAIN more : more[n] = one \/ (n \in DOMAIN rules /\ more[n] = rules[n])
          BY <4>2, <4>3 DEF more
        <5> QED
          BY <4>1, <5>1 DEF AllBare, more
      <4> QED
        BY <4>4 DEF rules, one
    <3> QED
      BY <3>1, <3>3 DEF AppRootRules
  <2> QED
    BY <1>2, <1>3, <2>1, <2>2, <2>3, BareRoutes
<1>10. CASE ParseCanaryRule
  <2> DEFINE w  == Weighted(Route.rules[i], TheConfig, Min(ValidSources), Min(OtherSources))
             hs == HeaderRules(Route.rules[i], TheConfig, Min(ValidSources), Min(OtherSources))
  <2>1. AtRule({"canary"}) /\ Key \in DOMAIN httpRoutes /\ i \in DOMAIN Route.rules
    BY <1>1, <1>10, CanaryEffect
  <2>2. step' = step /\ group' = group /\ group # Nothing
    BY <1>10, CanaryStep DEF Panicked, AtRule, Running
  <2>3. \/ UNCHANGED <<httpRoutes, newRules>>
        \/ /\ Len(Sources[i]) <= Len(Route.rules[i].backends) /\ ValidSources # {} /\ OtherSources # {}
           /\ newRules' = newRules \o hs
           /\ \/ UNCHANGED httpRoutes
              \/ httpRoutes'[Key].rules = [Route.rules EXCEPT ![i] = w] /\ OthersStay(Key)
    BY <1>1, <1>10, CanaryStep, CanaryEffect
  <2>4. CASE UNCHANGED <<httpRoutes, newRules>>
    BY <1>3, <2>2, <2>4
  <2>5. CASE ~UNCHANGED <<httpRoutes, newRules>>
    <3>1. /\ Len(Sources[i]) <= Len(Route.rules[i].backends) /\ ValidSources # {} /\ OtherSources # {}
          /\ newRules' = newRules \o hs
      BY <2>3, <2>5
    <3>2. /\ Min(ValidSources) \in ValidSources
          /\ Min(ValidSources) \in DOMAIN Route.rules[i].backends
          /\ Min(OtherSources) \in DOMAIN Route.rules[i].backends
      BY <1>1, <2>1, <3>1, CanaryIndices
    <3>3. ValidCanary(annotations[Sources[i][Min(ValidSources)].ing])
      <4>1. \A c \in ValidSources : ValidCanary(annotations[Sources[i][c].ing])
        BY DEF ValidSources
      <4> QED
        BY <3>2, <4>1
    <3>4. IsRule(Route.rules[i], pir[Key].rules) /\ IsSeq(Route.rules)
      BY <1>1, <2>1, RuleAt DEF IsRoute
    <3>5. w.filters = Route.rules[i].filters
      <4> DEFINE rule == Route.rules[i]  c == Min(ValidSources)  p == Min(OtherSources)
                 a == annotations[Sources[i][c].ing]
      <4>1. /\ IsRule(rule, pir[Key].rules) /\ c \in DOMAIN rule.backends /\ p \in DOMAIN rule.backends
            /\ ValidCanary(a) /\ TheConfig = CanaryConfig(a)
        BY <3>2, <3>3, <3>4 DEF TheConfig
      <4> HIDE DEF rule, c, p, a
      <4>2. Weighted(rule, CanaryConfig(a), c, p).filters = rule.filters
        BY <4>1, WeightedShape
      <4> QED
        BY <4>1, <4>2 DEF rule, c, p
    <3>6. IsSeq(hs) /\ \A n \in DOMAIN hs : hs[n].filters = Route.rules[i].filters
      <4> DEFINE rule == Route.rules[i]  c == Min(ValidSources)  p == Min(OtherSources)
      <4>1. IsRule(rule, pir[Key].rules) /\ c \in DOMAIN rule.backends /\ p \in DOMAIN rule.backends
        BY <3>2, <3>4
      <4> HIDE DEF rule, c, p
      <4> DEFINE provided == pir[Key].rules
      <4>2. IsRule(rule, provided)
        BY <4>1
      <4> HIDE DEF provided
      <4>3. LET new == HeaderRules(rule, TheConfig, c, p)
            IN  /\ IsSeq(new)
                /\ \A n \in DOMAIN new : IsRule(new[n], provided) /\ ~IsBase(new[n]) /\ new[n].filters = rule.filters
                /\ TheConfig.header = <<>> => new = <<>>
        BY <4>1, <4>2, HeaderRulesShape
      <4> QED
        BY <4>3 DEF rule, c, p
    <3>7. AllBare(Route.rules) /\ Route.rules[i].filters = <<>>
      BY <1>3, <2>1, <2>2 DEF AllBare, Route
    <3> HIDE DEF w, hs
    <3>8. AllBare(hs)
      BY <3>6, <3>7 DEF AllBare
    <3>9. AllBare(newRules')
      <4>1. IsSeq(newRules) /\ AllBare(newRules) /\ IsSeq(hs) /\ AllBare(hs)
        BY <1>1, <1>3, <2>2, <3>6, <3>8 DEF NewRulesInv, AreHeaderRules
      <4>2. AllBare(newRules \o hs)
        BY <4>1, BareConcat
      <4> QED
        BY <3>1, <4>2
    <3>10. httpRoutes'[Key].rules = [Route.rules EXCEPT ![i] = w] => AllBare(httpRoutes'[Key].rules)
      BY <3>5, <3>7 DEF AllBare
    <3> QED
      BY <1>2, <1>3, <2>1, <2>2, <2>3, <2>5, <3>9, <3>10, BareRoutes
  <2> QED
    BY <2>4, <2>5
<1> QED
  BY <1>1, <1>4, <1>5, <1>6, <1>7, <1>8, <1>9, <1>10 DEF FeatureStep

\* A rule of the provider IR has a rule at its index.
LEMMA RuleIndexKept ==
  ASSUME InputsInv, LoopInv, RoutesInv, NEW key \in DOMAIN httpRoutes, NEW n \in DOMAIN pir[key].rules
  PROVE  n \in DOMAIN httpRoutes[key].rules
<1> DEFINE rules == httpRoutes[key].rules  provided == pir[key].rules
<1>1. key \in DOMAIN pir /\ IsRoute(httpRoutes[key], provided)
  BY DEF LoopInv, RoutesInv
<1>2. IsSeq(provided) /\ IsSeq(rules)
  BY <1>1, InputsAreProvided DEF Provided, IsProvided, IsRoute
<1>3. /\ Len(provided) \in Nat /\ DOMAIN provided = 1..Len(provided)
      /\ Len(rules) \in Nat /\ DOMAIN rules = 1..Len(rules)
  BY <1>2, IsSeqShape
<1>4. PICK first \in 0..Len(rules) : \A m \in DOMAIN provided : first + m \in DOMAIN rules
  BY <1>1 DEF IsRoute, BaseRulesBehind
<1>5. first + n \in DOMAIN rules
  BY <1>4
<1> HIDE DEF rules, provided
<1>6. n \in 1..Len(provided)
  BY <1>3 DEF provided
<1>7. n \in DOMAIN rules
  BY <1>3, <1>4, <1>5, <1>6
<1> QED
  BY <1>7 DEF rules

LEMMA FiltersStay ==
  ASSUME KeptInv, BareInv, [FeatureStep]_featureVars, step' # Panicked,
         NEW key \in DOMAIN httpRoutes, NEW n \in DOMAIN pir[key].rules,
         ~(ParseHeaders /\ Key = key /\ i = n)
  PROVE  httpRoutes'[key].rules[n].filters = httpRoutes[key].rules[n].filters
<1> DEFINE Same == httpRoutes'[key].rules[n].filters = httpRoutes[key].rules[n].filters
<1>1. InputsInv /\ LoopInv /\ RoutesInv /\ (FeatureStep \/ UNCHANGED featureVars)
  BY DEF KeptInv
<1>2. DOMAIN httpRoutes' = DOMAIN httpRoutes /\ KeptInv' /\ BareInv' /\ pir' = pir
  BY <1>1, LoopStep, StepKept, StepBare, StepKeepsInputs DEF inputs
<1>3. n \in DOMAIN httpRoutes[key].rules /\ n \in DOMAIN httpRoutes'[key].rules
  <2>1. n \in DOMAIN httpRoutes[key].rules
    BY <1>1, RuleIndexKept
  <2>2. \E first \in 0..Len(httpRoutes'[key].rules) : \A m \in DOMAIN pir[key].rules :
          first + m \in DOMAIN httpRoutes'[key].rules
    BY <1>2 DEF KeptInv, RoutesInv, IsRoute, BaseRulesBehind
  <2>3. IsSeq(pir[key].rules) /\ IsSeq(httpRoutes'[key].rules)
    BY <1>1, <1>2, InputsAreProvided DEF LoopInv, KeptInv, RoutesInv, IsRoute, Provided, IsProvided, IsSeq
  <2> DEFINE rules == httpRoutes'[key].rules  provided == pir[key].rules
  <2> HIDE DEF rules, provided
  <2>4. /\ Len(provided) \in Nat /\ DOMAIN provided = 1..Len(provided) /\ n \in DOMAIN provided
        /\ Len(rules) \in Nat /\ DOMAIN rules = 1..Len(rules)
    <3>1. IsSeq(provided) /\ IsSeq(rules) /\ n \in DOMAIN provided
      BY <2>3 DEF rules, provided
    <3> QED
      BY <3>1, IsSeqShape
  <2>5. PICK first \in 0..Len(rules) : \A m \in DOMAIN provided : first + m \in DOMAIN rules
    BY <2>2 DEF rules, provided
  <2>6. n \in DOMAIN rules
    BY <2>4, <2>5
  <2> QED
    BY <2>1, <2>6 DEF rules
<1>4. CASE httpRoutes'[key] = httpRoutes[key]
  BY <1>4
<1>5. CASE step \in 1..8 /\ step' \in 1..8
  BY <1>2, <1>3, <1>5 DEF BareInv, AllBare
<1>6. CASE ParseFeature \/ ParseAuth
  <2>1. \/ UNCHANGED httpRoutes
        \/ httpRoutes'[Key].rules = Route.rules /\ OthersStay(Key)
    BY <1>1, <1>6, FeatureEffect, AuthEffect
  <2>2. CASE key = Key
    BY <2>1, <2>2 DEF Route
  <2>3. CASE key # Key
    BY <1>4, <2>1, <2>3 DEF OthersStay
  <2> QED
    BY <2>2, <2>3
<1>7. CASE ParseHeaders
  <2>1. LET r == [Route.rules[i] EXCEPT !.filters = @ \o HeaderFilters(annotations[Source.ing])]
        IN  httpRoutes'[Key].rules = [Route.rules EXCEPT ![i] = r]
    BY <1>1, <1>7, HeadersEffect
  <2>2. OthersStay(Key)
    BY <1>1, <1>7, HeadersEffect
  <2>3. CASE key = Key
    <3>1. i # n /\ n \in DOMAIN Route.rules
      BY <1>3, <1>7, <2>3 DEF Route
    <3>2. httpRoutes'[Key].rules[n] = Route.rules[n]
      BY <2>1, <3>1
    <3> QED
      BY <2>3, <3>2 DEF Route
  <2>4. CASE key # Key
    BY <1>4, <2>2, <2>4 DEF OthersStay
  <2> QED
    BY <2>3, <2>4
<1>8. CASE ParseCanaryRule \/ FinishCanary \/ FinishRedirect
  <2>1. step' = step /\ step \in 1..16 /\ Parsers[step] \in {"canary", "redirect"}
    BY <1>8, CanaryStep, ParsersShape
      DEF FinishCanary, FinishRedirect, RulesDone, AtRule, Running, At
  <2>2. Parsers[1] = "canary" /\ Parsers[4] = "redirect"
    BY DEF Parsers
  <2>3. step = 1 \/ step = 4
    BY <2>1, <2>2, ParsersDistinct
  <2> QED
    BY <1>5, <2>1, <2>3
<1> QED
  BY <1>1, <1>4, <1>6, <1>7, <1>8, LoopEffect DEF FeatureStep

LEMMA StepFilters ==
  ASSUME KeptInv, VisitInv, BareInv, [FeatureStep]_featureVars, step # Panicked, step' # Panicked,
         NEW key \in DOMAIN httpRoutes, NEW n \in DOMAIN pir[key].rules, OneGroup(key),
         Course(FilterCells(key, n), key, 9, n)
  PROVE  Course(FilterCells(key, n), key, 9, n)'
<1> DEFINE old == httpRoutes[key].rules[n].filters
           k   == Len(pir[key].rules[n].sources)
<1>1. InputsInv /\ LoopInv /\ RoutesInv /\ (FeatureStep \/ UNCHANGED featureVars)
  BY DEF KeptInv
<1>2. UNCHANGED <<ingresses, annotations, pir, ruleGroups>>
  BY <1>1, StepKeepsInputs DEF inputs
<1>3. PICK filters : filters = httpRoutes'[key].rules[n].filters
  OBVIOUS
<1>4. PICK H : H = FilterCells(key, n)
  OBVIOUS
<1>5. PICK new : new = {p \in Pairs : Counted(filters, key, n, p[2])}
  OBVIOUS
<1>6. new = FilterCells(key, n)'
  <2>1. \A X, type : Asking(key, n, type, X)' = Asking(key, n, type, X)
    BY <1>2 DEF Asking, All
  <2>2. FilterCells(key, n)' = {p \in Pairs : Counted(filters, key, n, p[2])'}
    BY <1>3 DEF FilterCells
  <2>3. \A X : Counted(filters, key, n, X)' <=> Counted(filters, key, n, X)
    BY <2>1 DEF Counted
  <2> QED
    BY <1>5, <2>2, <2>3
<1>7. \A m \in Nat, X \in SUBSET Nat : /\ <<m, X>> \in H <=> Counted(old, key, n, X)
                                       /\ <<m, X>> \in new <=> Counted(filters, key, n, X)
  BY <1>4, <1>5 DEF FilterCells, Pairs
<1>8. All(key, n) = 1..k /\ k \in Nat
  <2>1. key \in DOMAIN pir
    BY <1>1 DEF LoopInv
  <2>2. IsSeq(pir[key].rules[n].sources)
    BY <1>1, <2>1, InputsAreProvided DEF Provided, IsProvided
  <2> QED
    BY <2>2, IsSeqShape DEF All
<1>9. j \in Nat \ {0} /\ Earlier(key, n) \subseteq Nat
  BY <1>1, <1>8 DEF LoopInv, Earlier
<1>10. Course(H, key, 9, n)
  BY <1>4
<1>11. Parsers[9] = "header"
  BY DEF Parsers
<1>12. ~SourceDone(key, 9, n) => H \subseteq new
  <2>1. ASSUME ParseHeaders, Key = key, i = n PROVE SourceDone(key, 9, n)
    <3>1. AtSource({"header"}) /\ UNCHANGED <<step, pending, group, i>> /\ j' = j + 1
      BY <2>1 DEF ParseHeaders, NextSource
    <3>2. step \in 1..16 /\ Parsers[step] = "header" /\ group # Nothing
      BY <3>1, ParsersShape DEF AtSource, AtRule, Running, At
    <3>3. step = 9
      BY <1>11, <3>2, ParsersDistinct
    <3>4. AtSource(PerSource)
      BY <3>1, <3>3, <1>11, ParsersShape DEF AtSource, AtRule, Running, At, PerSource
    <3> QED
      BY <2>1, <3>1, <3>2, <3>3, <3>4 DEF SourceDone, Visiting
  <2>2. ASSUME filters = old PROVE H \subseteq new
    BY <1>4, <1>5, <2>2 DEF FilterCells
  <2>3. ASSUME ~(ParseHeaders /\ Key = key /\ i = n) PROVE filters = old
    BY <1>3, <2>3, FiltersStay
  <2> QED
    BY <2>1, <2>2, <2>3
<1> DEFINE m == j - 1
           X == Earlier(key, n) \union (1..m)
<1>13. SourceDone(key, 9, n) => (<<m, X>> \in H => <<j, X \union {j}>> \in new)
  <2> SUFFICES ASSUME SourceDone(key, 9, n), <<m, X>> \in H PROVE <<j, X \union {j}>> \in new
    OBVIOUS
  <2>1. ParseHeaders
    <3>1. step = 9 /\ AtSource(PerSource) /\ j' = j + 1 /\ group # Nothing /\ group' = group
      BY DEF SourceDone, Visiting
    <3>2. "header" \notin OneFeature
      BY DEF OneFeature
    <3>3. /\ ~VisitGroup(FeatureParsers) /\ ~NextParser(FeatureParsers)
          /\ ~FinishGroup(FeatureParsers \ {"canary", "redirect"}) /\ ~FinishRedirect /\ ~FinishCanary
          /\ ~ParseCanaryRule /\ ~ParseAuth /\ ~ParseFeature
      BY <1>11, <3>1, <3>2, CanaryStep DEF VisitGroup, NextParser, FinishGroup, FinishRedirect, FinishCanary,
         LeaveGroup, ParseAuth, ParseFeature, AtSource, AtRule, RulesDone, Running, At
    <3>4. ~NextRule(PerSource) /\ ~UNCHANGED featureVars
      BY <1>9, <3>1 DEF NextRule, featureVars, loopVars, SourceDone, LoopInv
    <3> QED
      BY <1>1, <3>3, <3>4 DEF FeatureStep
  <2>2. Key = key /\ i = n /\ group # Nothing
    BY DEF SourceDone, Visiting
  <2>3. /\ AtSource({"header"})
        /\ LET r == [Route.rules[i] EXCEPT !.filters = @ \o HeaderFilters(annotations[Source.ing])]
           IN  httpRoutes'[Key].rules = [Route.rules EXCEPT ![i] = r]
    BY <1>1, <2>1, HeadersEffect
  <2>4. Source = pir[key].rules[n].sources[j] /\ j \in All(key, n) /\ group \in DOMAIN ruleGroups
    BY <1>1, <2>2, <2>3, AtSourceFacts DEF All
  <2>5. ~Visited(key)
    <3>1. PICK g \in DOMAIN ruleGroups : \A h \in DOMAIN ruleGroups : ruleGroups[h] = key <=> h = g
      BY DEF OneGroup
    <3>2. group = g
      BY <2>2, <2>4, <3>1 DEF Key
    <3> QED
      BY <3>1, <3>2 DEF Visited
  <2>6. j \notin X /\ m \in Nat /\ X \subseteq Nat /\ j \in Nat /\ X \union {j} \subseteq Nat
    BY <1>9, <2>5 DEF Earlier
  <2>7. Counted(old, key, n, X)
    BY <1>7, <2>6
  <2>8. filters = old \o HeaderFilters(annotations[Source.ing])
    <3> DEFINE rule == Route.rules[i]  fs == rule.filters \o HeaderFilters(annotations[Source.ing])
               r == [rule EXCEPT !.filters = fs]
    <3>1. IsRule(rule, pir[Key].rules) /\ i \in DOMAIN Route.rules
      BY <1>1, <2>3, RuleAt DEF AtSource
    <3> HIDE DEF rule, fs
    <3>2. r.filters = fs
      BY <3>1 DEF IsRule
    <3>3. httpRoutes'[Key].rules = [Route.rules EXCEPT ![i] = r]
      BY <2>3 DEF rule, fs
    <3> HIDE DEF r
    <3>4. httpRoutes'[Key].rules[i].filters = fs
      BY <3>1, <3>2, <3>3
    <3> QED
      BY <1>3, <2>2, <3>4 DEF rule, fs, Route
  <2> HIDE DEF old, X, m
  <2>9. Counted(filters, key, n, X \union {j})
    <3>1. IsSeq(old)
      BY <2>7 DEF Counted
    <3>2. ASSUME NEW type \in HeaderTypes
          PROVE  /\ IsSeq(filters)
                 /\ Cardinality(Typed(filters, type)) = Cardinality(Asking(key, n, type, X \union {j}))
      <4>1. /\ IsSeq(filters)
            /\ Cardinality(Typed(filters, type))
                 = Cardinality(Typed(old, type)) + (IF Get(annotations[Source.ing], type) # <<>> THEN 1 ELSE 0)
        BY <2>8, <3>1, <3>2, HeaderFiltersAppended
      <4>2. Cardinality(Asking(key, n, type, X \union {j}))
              = Cardinality(Asking(key, n, type, X)) + (IF Get(annotations[Source.ing], type) # <<>> THEN 1 ELSE 0)
        <5>1. Cardinality(Asking(key, n, type, X \union {j}))
                = Cardinality(Asking(key, n, type, X))
                    + (IF Get(annotations[pir[key].rules[n].sources[j].ing], type) # <<>> THEN 1 ELSE 0)
          <6> HIDE DEF k
          <6>1. j \in All(key, n) /\ j \notin X /\ k \in Nat /\ All(key, n) = 1..k
            BY <1>8, <2>4, <2>6
          <6> QED
            BY <6>1, OneMoreAsking
        <5> QED
          BY <2>4, <5>1
      <4>3. Cardinality(Typed(old, type)) = Cardinality(Asking(key, n, type, X))
        BY <2>7, <3>2 DEF Counted
      <4> QED
        BY <4>1, <4>2, <4>3
    <3>3. "upstream-vhost" \in HeaderTypes
      BY DEF HeaderTypes
    <3> QED
      BY <3>2, <3>3 DEF Counted
  <2> QED
    BY <1>7, <2>6, <2>9
<1>14. <<k, 1..k>> \in new => <<0, 1..k>> \in new
  <2>1. 0 \in Nat /\ 1..k \subseteq Nat
    BY <1>8
  <2> QED
    BY <1>7, <1>8, <2>1
<1>15. Course(new, key, 9, n)'
  <2>1. PICK s \in 2..14 : s = 9
    OBVIOUS
  <2>2. /\ Course(H, key, s, n)
        /\ ~SourceDone(key, s, n) => H \subseteq new
        /\ SourceDone(key, s, n) => (<<m, X>> \in H => <<j, X \union {j}>> \in new)
        /\ s \in 2..14
    BY <1>10, <1>12, <1>13, <2>1
  <2>3. Course(new, key, s, n)'
    BY <1>14, <2>2, CourseStep
  <2> QED
    BY <2>1, <2>3 DEF Course
<1> QED
  BY <1>6, <1>15 DEF Course

\* Every route of the provider IR is in the emitter IR, and every group's route
\* is a route of the provider IR.
RoutesComplete == DOMAIN httpRoutes = DOMAIN pir

LEMMA GroupsAreRoutes ==
  ASSUME InputsInv, NEW g \in DOMAIN ruleGroups
  PROVE  ruleGroups[g] \in DOMAIN pir
<1> DEFINE S == ingresses  Name(r) == [ns |-> r.ns, name |-> r.name]
           defaults == {DefaultRoute(ing) : ing \in {x \in S : HasDefault(x)}}
<1>1. g \in Groups(S) /\ ruleGroups[g] = [ns |-> g.ns, name |-> RouteName(Owner(S, g).name, g.host)]
  BY DEF InputsInv, GetRuleGroups
<1>2. Name(GroupRoute(S, g)) = ruleGroups[g]
  BY <1>1 DEF GroupRoute
<1>3. DOMAIN Routes(S) = {Name(r) : r \in defaults \union {GroupRoute(S, k) : k \in Groups(S)}}
  BY DEF Routes
<1> HIDE DEF defaults, Name
<1>4. Name(GroupRoute(S, g)) \in DOMAIN Routes(S)
  BY <1>1, <1>3
<1> QED
  BY <1>2, <1>4 DEF InputsInv

(***************************************************************************)
(* Around the indices of the provider IR                                   *)
(***************************************************************************)
\* At an index of the provider IR is a rule that stands for one of its rules, and
\* only such rules have filters.
FrontInv ==
  /\ \A key \in DOMAIN httpRoutes : \A n \in DOMAIN pir[key].rules : httpRoutes[key].rules[n].from # 0
  /\ group # Nothing => \A n \in DOMAIN newRules : newRules[n].from # 0

OthersBare ==
  step # Panicked =>
    \A key \in DOMAIN httpRoutes : \A n \in DOMAIN httpRoutes[key].rules :
      n \notin DOMAIN pir[key].rules => httpRoutes[key].rules[n].filters = <<>>

LEMMA StepOthersBare ==
  ASSUME KeptInv, BareInv, OthersBare, [FeatureStep]_featureVars, step # Panicked
  PROVE  OthersBare'
<1> SUFFICES ASSUME step' # Panicked, NEW key \in DOMAIN httpRoutes', NEW n \in DOMAIN httpRoutes'[key].rules,
                    n \notin DOMAIN pir'[key].rules
             PROVE  httpRoutes'[key].rules[n].filters = <<>>
  BY DEF OthersBare
<1>1. InputsInv /\ LoopInv /\ RoutesInv /\ (FeatureStep \/ UNCHANGED featureVars)
  BY DEF KeptInv
<1>2. DOMAIN httpRoutes' = DOMAIN httpRoutes /\ BareInv' /\ pir' = pir
  BY <1>1, LoopStep, StepBare, StepKeepsInputs DEF inputs
<1>3. ASSUME n \in DOMAIN httpRoutes[key].rules PROVE httpRoutes[key].rules[n].filters = <<>>
  BY <1>2, <1>3 DEF OthersBare
<1>4. CASE httpRoutes'[key] = httpRoutes[key]
  BY <1>3, <1>4
<1>5. CASE step' \in 1..8
  BY <1>2, <1>5 DEF BareInv, AllBare
<1>6. CASE ParseFeature \/ ParseAuth
  <2>1. \/ UNCHANGED httpRoutes
        \/ httpRoutes'[Key].rules = Route.rules /\ OthersStay(Key)
    BY <1>1, <1>6, FeatureEffect, AuthEffect
  <2>2. CASE key = Key
    BY <1>3, <2>1, <2>2 DEF Route
  <2>3. CASE key # Key
    BY <1>2, <1>4, <2>1, <2>3 DEF OthersStay
  <2> QED
    BY <2>2, <2>3
<1>7. CASE ParseHeaders
  <2>1. /\ AtSource({"header"}) /\ OthersStay(Key)
        /\ LET r == [Route.rules[i] EXCEPT !.filters = @ \o HeaderFilters(annotations[Source.ing])]
           IN  httpRoutes'[Key].rules = [Route.rules EXCEPT ![i] = r]
    BY <1>1, <1>7, HeadersEffect
  <2>2. i \in DOMAIN pir[Key].rules
    BY <1>1, <2>1, AtSourceFacts
  <2>3. CASE key = Key
    <3>1. i # n /\ n \in DOMAIN Route.rules /\ httpRoutes'[Key].rules[n] = Route.rules[n]
      BY <1>2, <2>1, <2>2, <2>3
    <3> QED
      BY <1>3, <2>3, <3>1 DEF Route
  <2>4. CASE key # Key
    BY <1>2, <1>4, <2>1, <2>4 DEF OthersStay
  <2> QED
    BY <2>3, <2>4
<1>8. CASE ParseCanaryRule \/ FinishCanary \/ FinishRedirect
  <2>1. step' = step /\ step \in 1..16 /\ Parsers[step] \in {"canary", "redirect"}
    BY <1>8, CanaryStep, ParsersShape
      DEF FinishCanary, FinishRedirect, RulesDone, AtRule, Running, At
  <2>2. Parsers[1] = "canary" /\ Parsers[4] = "redirect"
    BY DEF Parsers
  <2>3. step = 1 \/ step = 4
    BY <2>1, <2>2, ParsersDistinct
  <2> QED
    BY <1>5, <2>1, <2>3
<1> QED
  BY <1>1, <1>4, <1>6, <1>7, <1>8, LoopEffect DEF FeatureStep

\* Rules that are put in front of others take their places among the first ones.
LEMMA FrontConcat ==
  ASSUME NEW s, NEW t, IsSeq(s), IsSeq(t), NEW k \in Nat, k <= Len(t),
         \A n \in DOMAIN s : s[n].from # 0, \A n \in 1..k : t[n].from # 0,
         NEW n \in 1..k
  PROVE  (s \o t)[n].from # 0
<1>1. /\ Len(s) \in Nat /\ DOMAIN s = 1..Len(s)
      /\ Len(t) \in Nat /\ DOMAIN t = 1..Len(t)
  BY IsSeqShape
<1> DEFINE both == s \o t
<1>2. /\ \A m \in 1..Len(s) : both[m] = s[m]
      /\ \A m \in 1..Len(t) : both[Len(s) + m] = t[m]
  BY ConcatSeq
<1> HIDE DEF both
<1>3. CASE n \in 1..Len(s)
  BY <1>1, <1>2, <1>3 DEF both
<1>4. CASE n \notin 1..Len(s)
  <2>1. PICK m : m = n - Len(s)
    OBVIOUS
  <2>2. m \in 1..k /\ m \in 1..Len(t) /\ Len(s) + m = n
    BY <1>1, <1>4, <2>1
  <2>3. both[n] = t[m]
    BY <1>2, <2>2
  <2> QED
    BY <2>2, <2>3 DEF both
<1> QED
  BY <1>3, <1>4

LEMMA StepFront ==
  ASSUME KeptInv, FrontInv, [FeatureStep]_featureVars
  PROVE  FrontInv'
<1>1. InputsInv /\ LoopInv /\ RoutesInv /\ NewRulesInv /\ (FeatureStep \/ UNCHANGED featureVars)
  BY DEF KeptInv
<1>2. DOMAIN httpRoutes' = DOMAIN httpRoutes /\ pir' = pir
  BY <1>1, LoopStep, StepKeepsInputs DEF inputs
<1> DEFINE Stands(key, rules) == \A n \in DOMAIN pir[key].rules : rules[n].from # 0
<1>3. \A key \in DOMAIN httpRoutes : Stands(key, httpRoutes[key].rules)
  BY DEF FrontInv
<1>4. ASSUME Key \in DOMAIN httpRoutes, OthersStay(Key), Stands(Key, httpRoutes'[Key].rules)
      PROVE  \A key \in DOMAIN httpRoutes' : \A n \in DOMAIN pir'[key].rules : httpRoutes'[key].rules[n].from # 0
  BY <1>2, <1>3, <1>4 DEF OthersStay
<1>5. ASSUME UNCHANGED httpRoutes
      PROVE  \A key \in DOMAIN httpRoutes' : \A n \in DOMAIN pir'[key].rules : httpRoutes'[key].rules[n].from # 0
  BY <1>2, <1>3, <1>5
<1>6. CASE VisitGroup(FeatureParsers) \/ NextParser(FeatureParsers) \/ NextRule(PerSource)
            \/ FinishGroup(FeatureParsers \ {"canary", "redirect"}) \/ UNCHANGED featureVars
  <2>1. newRules' = <<>> \/ (newRules' = newRules /\ (group' # Nothing => group # Nothing))
    BY <1>6 DEF VisitGroup, NextParser, NextRule, FinishGroup, LeaveGroup, featureVars, loopVars, localVars
  <2>2. DOMAIN <<>> = {}
    OBVIOUS
  <2> QED
    BY <1>5, <1>6, <2>1, <2>2, LoopEffect DEF FrontInv
<1>7. CASE ParseFeature \/ ParseAuth
  <2>1. Key \in DOMAIN httpRoutes
        /\ \/ UNCHANGED httpRoutes
           \/ httpRoutes'[Key].rules = Route.rules /\ OthersStay(Key)
    BY <1>1, <1>7, FeatureEffect, AuthEffect
  <2>2. UNCHANGED <<newRules, group>>
    BY <1>7 DEF ParseFeature, ParseAuth, localVars, Panic, NextSource
  <2> QED
    BY <1>3, <1>4, <1>5, <2>1, <2>2 DEF FrontInv, Route
<1>8. CASE ParseHeaders
  <2> DEFINE r == [Route.rules[i] EXCEPT !.filters = @ \o HeaderFilters(annotations[Source.ing])]
  <2>1. /\ Key \in DOMAIN httpRoutes /\ OthersStay(Key) /\ i \in DOMAIN Route.rules /\ AtSource({"header"})
        /\ httpRoutes'[Key].rules = [Route.rules EXCEPT ![i] = r]
    BY <1>1, <1>8, HeadersEffect
  <2>2. r.from = Route.rules[i].from
    <3>1. IsRule(Route.rules[i], pir[Key].rules)
      BY <1>1, <2>1, RuleAt DEF AtSource
    <3> QED
      BY <3>1 DEF IsRule
  <2> HIDE DEF r
  <2>3. Stands(Key, httpRoutes'[Key].rules)
    <3> SUFFICES ASSUME NEW n \in DOMAIN pir[Key].rules PROVE httpRoutes'[Key].rules[n].from # 0
      OBVIOUS
    <3>1. n \in DOMAIN Route.rules /\ Route.rules[n].from # 0
      BY <1>1, <1>3, <2>1, RuleIndexKept DEF Route
    <3> QED
      BY <2>1, <2>2, <3>1
  <2>4. UNCHANGED <<newRules, group>>
    BY <1>8 DEF ParseHeaders, localVars, NextSource
  <2> QED
    BY <1>4, <2>1, <2>3, <2>4 DEF FrontInv
<1>9. CASE FinishCanary
  <2>1. /\ Key \in DOMAIN httpRoutes /\ OthersStay(Key) /\ group # Nothing /\ group' = Nothing
        /\ httpRoutes'[Key].rules = newRules \o Route.rules
    BY <1>1, <1>9, FinishCanaryEffect DEF FinishCanary, RulesDone, Running, LeaveGroup
  <2>2. IsSeq(newRules) /\ IsSeq(Route.rules) /\ IsSeq(pir[Key].rules)
    <3>1. Key \in DOMAIN pir
      BY <1>1, <2>1 DEF LoopInv
    <3> QED
      BY <1>1, <2>1, <3>1, InputsAreProvided
      DEF NewRulesInv, AreHeaderRules, RoutesInv, IsRoute, Route, Provided, IsProvided
  <2> DEFINE k == Len(pir[Key].rules)
  <2>3. k \in Nat /\ DOMAIN pir[Key].rules = 1..k
    BY <2>2, IsSeqShape
  <2>4. k <= Len(Route.rules)
    <3>1. Len(Route.rules) \in Nat /\ DOMAIN Route.rules = 1..Len(Route.rules)
      BY <2>2, IsSeqShape
    <3>2. \A n \in 1..k : n \in DOMAIN Route.rules
      BY <1>1, <2>1, <2>3, RuleIndexKept DEF Route
    <3> HIDE DEF k
    <3>3. k = 0 \/ k \in 1..k
      BY <2>3
    <3> QED
      BY <2>3, <3>1, <3>2, <3>3
  <2>5. \A n \in 1..k : Route.rules[n].from # 0
    BY <1>3, <2>1, <2>3 DEF Route
  <2>6. \A n \in DOMAIN newRules : newRules[n].from # 0
    BY <2>1 DEF FrontInv
  <2>7. Stands(Key, newRules \o Route.rules)
    <3> DEFINE rules == Route.rules
    <3>1. IsSeq(rules) /\ k <= Len(rules) /\ \A n \in 1..k : rules[n].from # 0
      BY <2>2, <2>4, <2>5
    <3> HIDE DEF rules, k
    <3>2. \A n \in 1..k : (newRules \o rules)[n].from # 0
      BY <2>2, <2>3, <2>6, <3>1, FrontConcat
    <3> QED
      BY <2>3, <3>2 DEF rules
  <2> QED
    BY <1>4, <2>1, <2>7 DEF FrontInv
<1>10. CASE FinishRedirect
  <2>1. /\ Key \in DOMAIN httpRoutes
        /\ \/ UNCHANGED httpRoutes
           \/ OthersStay(Key) /\ httpRoutes'[Key].rules = AppRootRules(Route)
    BY <1>1, <1>10, RedirectEffect
  <2>2. Stands(Key, AppRootRules(Route))
    <3> SUFFICES ASSUME NEW n \in DOMAIN pir[Key].rules PROVE AppRootRules(Route)[n].from # 0
      OBVIOUS
    <3>1. n \in DOMAIN Route.rules /\ Route.rules[n].from # 0 /\ IsSeq(Route.rules)
      BY <1>1, <1>3, <2>1, RuleIndexKept DEF Route, RoutesInv, IsRoute
    <3> QED
      BY <3>1, AppRootRulesStay
  <2>3. group' = Nothing
    BY <1>10 DEF FinishRedirect, LeaveGroup
  <2> QED
    BY <1>4, <1>5, <2>1, <2>2, <2>3 DEF FrontInv
<1>11. CASE ParseCanaryRule
  <2> DEFINE rule == Route.rules[i]  c == Min(ValidSources)  p == Min(OtherSources)
             w == Weighted(rule, TheConfig, c, p)  hs == HeaderRules(rule, TheConfig, c, p)
  <2>1. AtRule({"canary"}) /\ Key \in DOMAIN httpRoutes /\ group # Nothing /\ i \in DOMAIN pir[Key].rules
    BY <1>1, <1>11, CanaryStep, AtRuleFacts
  <2>2. IsRule(rule, pir[Key].rules) /\ i \in DOMAIN Route.rules /\ rule.from # 0
    BY <1>1, <1>3, <2>1, RuleAt DEF Route
  <2>3. \/ UNCHANGED <<httpRoutes, newRules>>
        \/ /\ Len(Sources[i]) <= Len(rule.backends) /\ ValidSources # {} /\ OtherSources # {}
           /\ newRules' = newRules \o hs
           /\ \/ UNCHANGED httpRoutes
              \/ httpRoutes'[Key].rules = [Route.rules EXCEPT ![i] = w] /\ OthersStay(Key)
    BY <1>1, <1>11, CanaryStep, CanaryEffect
  <2>4. CASE UNCHANGED <<httpRoutes, newRules>>
    BY <1>5, <2>1, <2>4 DEF FrontInv
  <2>5. CASE ~UNCHANGED <<httpRoutes, newRules>>
    <3>1. /\ Len(Sources[i]) <= Len(rule.backends) /\ ValidSources # {} /\ OtherSources # {}
          /\ newRules' = newRules \o hs
      BY <2>3, <2>5
    <3>2. c \in DOMAIN rule.backends /\ p \in DOMAIN rule.backends
      BY <1>1, <2>1, <3>1, CanaryIndices
    <3>3. w.from = rule.from
      BY <1>1, <2>1, <3>1, WeightedRule
    <3>4. IsSeq(hs) /\ \A n \in DOMAIN hs : hs[n].from # 0
      <4> HIDE DEF rule, c, p
      <4>1. LET new == HeaderRules(rule, TheConfig, c, p)
            IN  IsSeq(new) /\ \A n \in DOMAIN new : new[n].from = rule.from
        <5> DEFINE provided == pir[Key].rules
        <5>1. IsRule(rule, provided)
          BY <2>2
        <5> HIDE DEF provided
        <5>2. LET new == HeaderRules(rule, TheConfig, c, p)
              IN  /\ IsSeq(new)
                  /\ \A n \in DOMAIN new :
                       /\ IsRule(new[n], provided) /\ ~IsBase(new[n])
                       /\ new[n].filters = rule.filters /\ new[n].from = rule.from
                  /\ TheConfig.header = <<>> => new = <<>>
          BY <3>2, <5>1, HeaderRulesShape
        <5> QED
          BY <5>2
      <4> QED
        BY <2>2, <4>1
    <3>5. IsSeq(newRules) /\ \A n \in DOMAIN newRules : newRules[n].from # 0
      BY <1>1, <2>1 DEF NewRulesInv, AreHeaderRules, FrontInv
    <3> HIDE DEF w, hs
    <3>6. \A n \in DOMAIN newRules' : newRules'[n].from # 0
      <4>1. /\ Len(newRules) \in Nat /\ DOMAIN newRules = 1..Len(newRules)
            /\ Len(hs) \in Nat /\ DOMAIN hs = 1..Len(hs)
        BY <3>4, <3>5, IsSeqShape
      <4> DEFINE both == newRules \o hs
      <4>2. /\ DOMAIN both = 1..(Len(newRules) + Len(hs))
            /\ \A n \in 1..Len(newRules) : both[n] = newRules[n]
            /\ \A n \in 1..Len(hs) : both[Len(newRules) + n] = hs[n]
        BY <3>4, <3>5, ConcatSeq
      <4> HIDE DEF both
      <4>3. ASSUME NEW n \in DOMAIN both PROVE both[n].from # 0
        <5>1. n \in 1..Len(newRules) \/ (n - Len(newRules) \in 1..Len(hs) /\ n = Len(newRules) + (n - Len(newRules)))
          BY <4>1, <4>2
        <5> QED
          BY <3>4, <3>5, <4>1, <4>2, <5>1
      <4> QED
        BY <3>1, <4>3 DEF both
    <3>7. Stands(Key, [Route.rules EXCEPT ![i] = w])
      <4> SUFFICES ASSUME NEW n \in DOMAIN pir[Key].rules PROVE [Route.rules EXCEPT ![i] = w][n].from # 0
        OBVIOUS
      <4>1. n \in DOMAIN Route.rules /\ Route.rules[n].from # 0
        BY <1>1, <1>3, <2>1, RuleIndexKept DEF Route
      <4> QED
        BY <2>2, <3>3, <4>1
    <3> QED
      BY <1>4, <1>5, <2>1, <2>3, <2>5, <3>6, <3>7 DEF FrontInv
  <2> QED
    BY <2>4, <2>5
<1> QED
  BY <1>1, <1>6, <1>7, <1>8, <1>9, <1>10, <1>11 DEF FeatureStep

OnceInv == KeptInv /\ VisitInv /\ BareInv /\ FiltersInv /\ RoutesComplete /\ FrontInv /\ OthersBare

LEMMA InitOnce == Init => BareInv /\ FiltersInv /\ RoutesComplete /\ FrontInv /\ OthersBare
<1> SUFFICES ASSUME Init PROVE BareInv /\ FiltersInv /\ RoutesComplete /\ FrontInv /\ OthersBare
  OBVIOUS
<1>1. step = 1 /\ group = Nothing /\ KeptInv
  BY InitKept DEF Init
<1>2. \A key \in DOMAIN httpRoutes : AllBare(httpRoutes[key].rules)
  BY DEF Init, EmitterRoute, EmitterRule, AllBare
<1>3. RoutesComplete
  BY DEF Init, RoutesComplete
<1>4. ASSUME NEW key \in DOMAIN httpRoutes, NEW n \in DOMAIN pir[key].rules
      PROVE  Course(FilterCells(key, n), key, 9, n)
  <2>1. n \in DOMAIN httpRoutes[key].rules
    BY <1>1, RuleIndexKept DEF KeptInv
  <2>2. httpRoutes[key].rules[n].filters = <<>>
    BY <1>2, <2>1 DEF AllBare
  <2>3. \A type : Typed(<<>>, type) = {} /\ Asking(key, n, type, {}) = {}
    BY DEF Typed, Asking
  <2>4. Counted(<<>>, key, n, {})
    BY <2>3, EmptyIsSeq DEF Counted
  <2>5. <<0, {}>> \in FilterCells(key, n)
    BY <2>2, <2>4 DEF FilterCells, Pairs
  <2>6. step < 9 /\ ~(step > 9) /\ step # 9
    BY <1>1
  <2> QED
    BY <2>5, <2>6 DEF Course
<1>5. ASSUME NEW key \in DOMAIN httpRoutes, NEW n \in DOMAIN pir[key].rules
      PROVE  httpRoutes[key].rules[n].from # 0
  <2>1. key \in DOMAIN pir /\ n # 0
    <3>1. key \in DOMAIN pir
      BY <1>3 DEF RoutesComplete
    <3>2. IsSeq(pir[key].rules)
      BY <1>1, <3>1, InputsAreProvided DEF KeptInv, Provided, IsProvided
    <3> QED
      BY <3>1, <3>2, IsSeqShape
  <2> QED
    BY <2>1 DEF Init, EmitterRoute, EmitterRule
<1> QED
  BY <1>1, <1>2, <1>3, <1>4, <1>5 DEF BareInv, FiltersInv, FrontInv, OthersBare, AllBare

LEMMA OnceInvInductive ==
  /\ Init => OnceInv
  /\ OnceInv /\ [FeatureStep]_featureVars => OnceInv'
<1>1. Init => OnceInv
  BY InitKept, InitLast, InitOnce DEF OnceInv
<1>2. ASSUME OnceInv, [FeatureStep]_featureVars PROVE OnceInv'
  <2>1. KeptInv /\ VisitInv /\ BareInv /\ FiltersInv /\ RoutesComplete /\ FrontInv /\ OthersBare
    BY <1>2 DEF OnceInv
  <2>2. KeptInv' /\ VisitInv' /\ BareInv' /\ FrontInv'
    BY <1>2, <2>1, StepKept, StepVisit, StepBare, StepFront
  <2>3. UNCHANGED <<pir, ruleGroups>> /\ DOMAIN httpRoutes' = DOMAIN httpRoutes
    BY <1>2, <2>1, StepKeepsInputs, LoopStep DEF KeptInv, inputs
  <2>4. RoutesComplete'
    BY <2>1, <2>3 DEF RoutesComplete
  <2>5. step' # Panicked => step # Panicked
    BY <1>2, PanicIsLast
  <2>6. FiltersInv'
    <3> SUFFICES ASSUME step' # Panicked,
                        NEW key \in DOMAIN httpRoutes', OneGroup(key)', NEW n \in DOMAIN pir'[key].rules
                 PROVE  Course(FilterCells(key, n), key, 9, n)'
      BY DEF FiltersInv
    <3>1. key \in DOMAIN httpRoutes /\ OneGroup(key) /\ n \in DOMAIN pir[key].rules /\ step # Panicked
      BY <2>3, <2>5 DEF OneGroup
    <3>2. Course(FilterCells(key, n), key, 9, n)
      BY <2>1, <3>1 DEF FiltersInv
    <3> QED
      BY <1>2, <2>1, <3>1, <3>2, StepFilters
  <2>7. OthersBare'
    <3>1. CASE step' = Panicked
      BY <3>1 DEF OthersBare
    <3>2. CASE step' # Panicked
      BY <1>2, <2>1, <2>5, <3>2, StepOthersBare
    <3> QED
      BY <3>1, <3>2
  <2> QED
    BY <2>2, <2>4, <2>6, <2>7 DEF OnceInv
<1> QED
  BY <1>1, <1>2

\* The members of the sets of a family, each with the index of its set.
Indexed(N, c) == UNION {{n} \X c[n] : n \in N}

\* Those of finitely many finite sets are finitely many.
LEMMA FinitelyIndexed ==
  ASSUME NEW N, IsFiniteSet(N), NEW c, \A n \in N : IsFiniteSet(c[n])
  PROVE  IsFiniteSet(Indexed(N, c))
<1> DEFINE part == [n \in N |-> {n} \X c[n]]
           parts == {{n} \X c[n] : n \in N}
<1>1. part \in Surjection(N, parts)
  BY DEF Surjection
<1>2. IsFiniteSet(parts)
  BY <1>1, FS_Surjection
<1>3. ASSUME NEW n \in N PROVE IsFiniteSet({n} \X c[n])
  BY FS_Singleton, FS_Product
<1>4. \A P \in parts : IsFiniteSet(P)
  BY <1>3
<1> HIDE DEF parts
<1>5. IsFiniteSet(UNION parts)
  BY <1>2, <1>4, FS_UNION
<1> QED
  BY <1>5 DEF parts, Indexed

\* Sets of equal sizes, taken together, have equal sizes; empty ones beside them
\* add nothing.
LEMMA SameTotal ==
  ASSUME NEW N, IsFiniteSet(N), NEW M, N \subseteq M, NEW c, NEW d,
         \A n \in N : IsFiniteSet(c[n]) /\ IsFiniteSet(d[n]) /\ Cardinality(c[n]) = Cardinality(d[n]),
         \A n \in M : n \notin N => c[n] = {}
  PROVE  Cardinality(Indexed(M, c)) = Cardinality(Indexed(N, d))
<1> DEFINE C == Indexed(N, c)
           D == Indexed(N, d)
<1>1. Indexed(M, c) = C
  BY DEF Indexed
<1>2. \A p : p \in C <=> \E n \in N : \E x \in c[n] : p = <<n, x>>
  BY DEF Indexed
<1>3. \A p : p \in D <=> \E n \in N : \E x \in d[n] : p = <<n, x>>
  BY DEF Indexed
<1>4. IsFiniteSet(C)
  BY FinitelyIndexed
<1> HIDE DEF C, D
<1>5. \A n \in N : \E h : h \in Bijection(c[n], d[n])
  BY FS_SameCardinalityBij DEF ExistsBijection
<1> DEFINE f == [n \in N |-> CHOOSE h : h \in Bijection(c[n], d[n])]
<1>6. \A n \in N : f[n] \in Bijection(c[n], d[n])
  BY <1>5
<1> HIDE DEF f
<1>7. \A n \in N : /\ \A x \in c[n] : f[n][x] \in d[n]
                   /\ \A x, y \in c[n] : f[n][x] = f[n][y] => x = y
                   /\ \A z \in d[n] : \E x \in c[n] : f[n][x] = z
  BY <1>6 DEF Bijection, Injection, Surjection, IsInjective
<1> DEFINE F == [p \in C |-> <<p[1], f[p[1]][p[2]]>>]
<1>8. \A n \in N : \A x \in c[n] : <<n, x>> \in C /\ F[<<n, x>>] = <<n, f[n][x]>>
  BY <1>2
<1>9. F \in [C -> D]
  BY <1>2, <1>3, <1>7
<1>10. ASSUME NEW p \in C, NEW q \in C, F[p] = F[q] PROVE p = q
  BY <1>2, <1>7, <1>8, <1>10
<1>11. ASSUME NEW q \in D PROVE \E p \in C : F[p] = q
  <2>1. PICK n \in N : \E z \in d[n] : q = <<n, z>>
    BY <1>3
  <2>2. PICK z \in d[n] : q = <<n, z>>
    BY <2>1
  <2>3. PICK x \in c[n] : f[n][x] = z
    BY <1>7
  <2> HIDE DEF F
  <2> QED
    BY <1>8, <2>2, <2>3
<1> HIDE DEF F
<1>12. F \in Bijection(C, D)
  <2>1. DOMAIN F = C
    BY <1>9
  <2> QED
    BY <1>9, <1>10, <1>11, <2>1 DEF Bijection, Injection, Surjection, IsInjective
<1>13. ExistsBijection(C, D)
  BY <1>12 DEF ExistsBijection
<1>14. Cardinality(D) = Cardinality(C)
  BY <1>4, <1>13, FS_Bijection
<1> QED
  BY <1>1, <1>14 DEF D

\* However the visits of the rule groups are ordered, the sources of a route that
\* one group names add their header filters once and only once, whatever rules for
\* headers and for app-root surround theirs, and each to its rule where there are
\* no rules for headers (headers.go).
THEOREM FiltersAddedOnce == Spec => []FiltersOnce
<1>1. OnceInv => FiltersOnce
  <2> SUFFICES ASSUME OnceInv, FeaturesParsed, NEW key \in {ruleGroups[g] : g \in DOMAIN ruleGroups},
                      NEW type \in HeaderTypes, OneGroup(key)
               PROVE  LET rules    == httpRoutes[key].rules
                          provided == pir[key].rules
                      IN  /\ Cardinality(UNION {{n} \X FiltersOf(rules[n], type) : n \in DOMAIN rules})
                               = Cardinality(UNION {{n} \X AskingSources(provided[n], type) : n \in DOMAIN provided})
                          /\ (\A n \in DOMAIN rules : rules[n].headers = <<>>) =>
                               \A n \in DOMAIN rules : IsBase(rules[n]) =>
                                 Cardinality(FiltersOf(rules[n], type))
                                   = Cardinality(AskingSources(provided[rules[n].from], type))
    BY DEF FiltersOnce
  <2> DEFINE rules == httpRoutes[key].rules  provided == pir[key].rules
  <2>1. key \in DOMAIN httpRoutes /\ key \in DOMAIN pir /\ step = 15 /\ step # Panicked /\ step > 9
    BY GroupsAreRoutes DEF OnceInv, KeptInv, RoutesComplete, FeaturesParsed, Conversion, Panicked
  <2>2. Named(key)
    BY DEF Named
  <2>3. ASSUME NEW n \in DOMAIN provided
        PROVE  /\ IsFiniteSet(FiltersOf(rules[n], type)) /\ IsFiniteSet(AskingSources(provided[n], type))
               /\ Cardinality(FiltersOf(rules[n], type)) = Cardinality(AskingSources(provided[n], type))
    <3>1. Course(FilterCells(key, n), key, 9, n)
      BY <2>1 DEF OnceInv, FiltersInv
    <3>2. <<0, All(key, n)>> \in FilterCells(key, n)
      BY <2>1, <2>2, <3>1 DEF Course
    <3>3. Counted(rules[n].filters, key, n, All(key, n))
      BY <3>2 DEF FilterCells
    <3>4. FiltersOf(rules[n], type) = Typed(rules[n].filters, type)
      BY DEF FiltersOf, Typed
    <3>5. AskingSources(provided[n], type) = Asking(key, n, type, All(key, n))
      BY DEF AskingSources, Asking, All
    <3>6. IsFiniteSet(DOMAIN rules[n].filters)
      <4>1. IsSeq(rules[n].filters)
        BY <3>3 DEF Counted
      <4> DEFINE fs == rules[n].filters
      <4> HIDE DEF fs
      <4>2. Len(fs) \in Nat /\ DOMAIN fs = 1..Len(fs)
        BY <4>1, IsSeqShape DEF fs
      <4>3. IsFiniteSet(1..Len(fs))
        BY <4>2, FS_Interval
      <4> QED
        BY <4>2, <4>3 DEF fs
    <3>7. IsFiniteSet(DOMAIN provided[n].sources)
      <4>1. IsSeq(provided[n].sources)
        BY <2>1, InputsAreProvided DEF OnceInv, KeptInv, Provided, IsProvided
      <4> QED
        BY <4>1, IsSeqShape, FS_Interval
    <3>8. IsFiniteSet(FiltersOf(rules[n], type)) /\ IsFiniteSet(AskingSources(provided[n], type))
      BY <3>6, <3>7, FS_Subset DEF FiltersOf, AskingSources
    <3> QED
      BY <3>3, <3>4, <3>5, <3>8 DEF Counted
  <2>4. DOMAIN provided \subseteq DOMAIN rules
    BY <2>1, RuleIndexKept DEF OnceInv, KeptInv
  <2>5. ASSUME NEW n \in DOMAIN rules, n \notin DOMAIN provided PROVE FiltersOf(rules[n], type) = {}
    BY <2>1, <2>5 DEF OnceInv, OthersBare, FiltersOf
  <2>6. IsSeq(provided) /\ IsFiniteSet(DOMAIN provided)
    <3>1. IsSeq(provided)
      BY <2>1, InputsAreProvided DEF OnceInv, KeptInv, Provided, IsProvided
    <3> QED
      BY <3>1, IsSeqShape, FS_Interval
  <2>7. Cardinality(UNION {{n} \X FiltersOf(rules[n], type) : n \in DOMAIN rules})
          = Cardinality(UNION {{n} \X AskingSources(provided[n], type) : n \in DOMAIN provided})
    <3> DEFINE N == DOMAIN provided  M == DOMAIN rules
               c == [n \in M |-> FiltersOf(rules[n], type)]
               d == [n \in N |-> AskingSources(provided[n], type)]
    <3>1. \A n \in N : IsFiniteSet(c[n]) /\ IsFiniteSet(d[n]) /\ Cardinality(c[n]) = Cardinality(d[n])
      BY <2>3, <2>4
    <3>2. \A n \in M : n \notin N => c[n] = {}
      BY <2>5
    <3>3. /\ UNION {{n} \X FiltersOf(rules[n], type) : n \in M} = Indexed(M, c)
          /\ UNION {{n} \X AskingSources(provided[n], type) : n \in N} = Indexed(N, d)
      BY DEF Indexed
    <3> HIDE DEF N, M, c, d
    <3>4. IsFiniteSet(N) /\ N \subseteq M
      BY <2>4, <2>6 DEF N, M
    <3>5. Cardinality(Indexed(M, c)) = Cardinality(Indexed(N, d))
      BY <3>1, <3>2, <3>4, SameTotal
    <3> QED
      BY <3>3, <3>5 DEF N, M
  <2>8. ASSUME \A n \in DOMAIN rules : rules[n].headers = <<>>, NEW n \in DOMAIN rules, IsBase(rules[n])
        PROVE  Cardinality(FiltersOf(rules[n], type)) = Cardinality(AskingSources(provided[rules[n].from], type))
    <3>1. IsRoute(httpRoutes[key], provided)
      BY <2>1 DEF OnceInv, KeptInv, RoutesInv
    <3>2. PICK first \in 0..Len(rules) : BaseRulesBehind(rules, first, provided)
      BY <3>1 DEF IsRoute
    <3>3. Len(provided) \in Nat /\ DOMAIN provided = 1..Len(provided) /\ Len(rules) \in Nat /\ DOMAIN rules = 1..Len(rules)
      BY <2>6, <3>1, IsSeqShape DEF IsRoute
    <3>4. n - first \in DOMAIN provided
      BY <2>8, <3>2 DEF BaseRulesBehind
    <3>5. 1 \in DOMAIN provided
      BY <3>2, <3>3, <3>4
    <3>6. 1 \in DOMAIN rules /\ rules[1].from # 0
      BY <2>1, <2>4, <3>5 DEF OnceInv, FrontInv
    <3>7. IsBase(rules[1])
      BY <2>8, <3>6 DEF IsBase
    <3>8. 1 - first \in DOMAIN provided
      BY <3>2, <3>6, <3>7 DEF BaseRulesBehind
    <3>9. first = 0
      BY <3>2, <3>3, <3>8
    <3>10. n \in DOMAIN provided /\ rules[0 + n].from = n
      BY <3>2, <3>3, <3>4, <3>9 DEF BaseRulesBehind
    <3>11. rules[n].from = n
      BY <3>3, <3>10
    <3> QED
      BY <2>3, <3>10, <3>11
  <2> QED
    BY <2>7, <2>8
<1>2. OnceInv /\ [Next]_featureVars => OnceInv'
  BY OnceInvInductive DEF Next, FeaturesEnded
<1> QED
  BY <1>1, <1>2, OnceInvInductive, PTL DEF Spec

(***************************************************************************)
(* CanaryTraffic                                                           *)
(***************************************************************************)
\* The canaries among the sources of a rule of the provider IR, the valid ones,
\* the other sources, and what the first valid one asks for.
SourceOfRule(key, n, x) == pir[key].rules[n].sources[x]
AskedAt(key, n, x)      == annotations[SourceOfRule(key, n, x).ing]
CanariesOf(key, n)      == {x \in All(key, n) : IsCanary(AskedAt(key, n, x))}
ValidOf(key, n)         == {x \in CanariesOf(key, n) : ValidCanary(AskedAt(key, n, x))}
OthersOf(key, n)        == All(key, n) \ CanariesOf(key, n)
ConfigOf(key, n)        == CanaryConfig(AskedAt(key, n, Min(ValidOf(key, n))))

\* A rule of which the parser reports no error.
Clean(key, n) == CanaryErrors(CanariesOf(key, n), ValidOf(key, n), OthersOf(key, n)) = {}

\* The weight of a backend of such a rule.
Share(key, n, x) ==
  IF CanariesOf(key, n) = {} \/ ~ConfigOf(key, n).weighted THEN <<>>
  ELSE IF x \in CanariesOf(key, n) THEN <<ConfigOf(key, n).weight>>
  ELSE <<ConfigOf(key, n).total - ConfigOf(key, n).weight>>

\* The rule once the parser has visited it.
DividedRule(key, n) ==
  [EmitterRule(pir[key].rules[n], n) EXCEPT
     !.backends = [x \in All(key, n) |-> [source |-> SourceOfRule(key, n, x), weight |-> Share(key, n, x)]]]

IsFront(r) == ~IsBase(r) /\ Len(r.backends) = 1

SendsTo(r, path, name, source) ==
  r.path = path /\ Last(r.headers).name = name /\ BackendSources(r) = <<source>>

\* One of the first few rules sends the canary's header to the canary alone.
SentByHeader(rules, first, key, n) ==
  (CanariesOf(key, n) # {} /\ ConfigOf(key, n).header # <<>>) =>
    \E m \in 1..first :
      SendsTo(rules[m], pir[key].rules[n].match, ConfigOf(key, n).header,
              SourceOfRule(key, n, Min(ValidOf(key, n))))

\* The rules of a route that was visited: all of the provider IR's, divided,
\* behind the first few, which are for headers.
DividedBehind(key, rules, first) ==
  /\ DOMAIN rules = 1..(first + Len(pir[key].rules))
  /\ \A m \in 1..first : IsFront(rules[m])
  /\ \A n \in DOMAIN pir[key].rules :
       rules[first + n] = DividedRule(key, n) /\ Clean(key, n) /\ SentByHeader(rules, first, key, n)

DividedRules(key, rules) == \E first \in 0..Len(rules) : DividedBehind(key, rules, first)

\* A route during its first visit: the rules before k are divided, and what they
\* need in front is among the new rules.
PartlyDivided(key, rules, new, k) ==
  /\ DOMAIN rules = DOMAIN pir[key].rules
  /\ \A m \in DOMAIN new : IsFront(new[m])
  /\ \A n \in DOMAIN pir[key].rules :
       IF n < k THEN rules[n] = DividedRule(key, n) /\ Clean(key, n) /\ SentByHeader(new, Len(new), key, n)
       ELSE rules[n] = EmitterRule(pir[key].rules[n], n)

\* A route that another group has visited: nothing changes.  If there are rules in
\* front, the first canary the parser comes to finds a rule with fewer backends
\* than there are sources.
VisitedAgain(key, rules) ==
  /\ newRules = <<>>
  /\ \E first \in 0..Len(rules) :
       /\ DividedBehind(key, rules, first)
       /\ first # 0 => \A n \in DOMAIN pir[key].rules : n < i => CanariesOf(key, n) = {}

CanaryCourse(key, rules) ==
  IF Visiting(key)
  THEN IF Visited(key) THEN VisitedAgain(key, rules) ELSE PartlyDivided(key, rules, newRules, i)
  ELSE IF Visited(key) THEN DividedRules(key, rules) ELSE PartlyDivided(key, rules, <<>>, 1)

WeightedOf(rule)     == {x \in DOMAIN rule.backends : rule.backends[x].weight # <<>>}
CanaryBackends(rule) == {x \in DOMAIN rule.backends : IsCanary(annotations[rule.backends[x].source.ing])}

IsShared(rule, c, config) ==
  /\ rule.backends[c].weight[1] = config.weight
  /\ \E p \in DOMAIN rule.backends \ {c} :
       WeightedOf(rule) = {c, p} /\ rule.backends[c].weight[1] + rule.backends[p].weight[1] = config.total

CanaryServed(rules, n, c) ==
  LET config == CanaryConfig(annotations[rules[n].backends[c].source.ing])
  IN  /\ config.weighted => IsShared(rules[n], c, config)
      /\ config.header # <<>> =>
           \E m \in 1..(n - 1) :
             SendsTo(rules[m], rules[n].path, config.header, rules[n].backends[c].source)

\* What CanaryTraffic says of the rules of a route.
Traffic(rules) ==
  \A n \in DOMAIN rules :
    IsBase(rules[n]) =>
      /\ Cardinality(CanaryBackends(rules[n])) <= 1
      /\ WeightedOf(rules[n]) # {} => CanaryBackends(rules[n]) # {}
      /\ \A c \in CanaryBackends(rules[n]) : CanaryServed(rules, n, c)

CanaryInv ==
  (errors = {} /\ step # Panicked) =>
    \A key \in DOMAIN httpRoutes :
      /\ step = 1 => CanaryCourse(key, httpRoutes[key].rules)
      /\ step > 1 /\ Named(key) => Traffic(httpRoutes[key].rules)

LEMMA SourcesOf ==
  ASSUME InputsInv, NEW key \in DOMAIN pir, NEW n \in DOMAIN pir[key].rules
  PROVE  /\ IsSeq(pir[key].rules) /\ n \in Nat /\ n # 0
         /\ IsSeq(pir[key].rules[n].sources)
         /\ Len(pir[key].rules[n].sources) \in Nat
         /\ All(key, n) = 1..Len(pir[key].rules[n].sources)
<1>1. IsSeq(pir[key].rules) /\ IsSeq(pir[key].rules[n].sources)
  BY InputsAreProvided DEF Provided, IsProvided
<1>2. n \in 1..Len(pir[key].rules) /\ Len(pir[key].rules) \in Nat
  BY <1>1, IsSeqShape
<1> QED
  BY <1>1, <1>2, IsSeqShape DEF All

\* A rule without errors has one source, or a canary and another source.
LEMMA CleanRule ==
  ASSUME InputsInv, NEW key \in DOMAIN pir, NEW n \in DOMAIN pir[key].rules, Clean(key, n)
  PROVE  /\ CanariesOf(key, n) = {} => Len(pir[key].rules[n].sources) <= 1
         /\ CanariesOf(key, n) # {} =>
              /\ ValidOf(key, n) = CanariesOf(key, n) /\ CanariesOf(key, n) = {Min(ValidOf(key, n))}
              /\ OthersOf(key, n) = {Min(OthersOf(key, n))}
              /\ ValidCanary(AskedAt(key, n, Min(ValidOf(key, n))))
<1> DEFINE C == CanariesOf(key, n)
           V == ValidOf(key, n)
           O == OthersOf(key, n)
           k == Len(pir[key].rules[n].sources)
<1>1. k \in Nat /\ All(key, n) = 1..k
  BY SourcesOf
<1>2. V \subseteq C /\ C \subseteq 1..k /\ O = (1..k) \ C /\ C \subseteq Nat /\ O \subseteq Nat
  <2>1. V \subseteq C /\ C \subseteq 1..k /\ O = (1..k) \ C
    BY <1>1 DEF CanariesOf, ValidOf, OthersOf
  <2> HIDE DEF C, O, V
  <2> QED
    BY <1>1, <2>1
<1>3. \A x \in V : ValidCanary(AskedAt(key, n, x))
  BY DEF ValidOf
<1>4. CanaryErrors(C, V, O) = {}
  BY DEF Clean
<1> HIDE DEF C, V, O, k
<1>5. /\ \A x \in C \ V : \E m \in V : ~(x < m)
      /\ \A x \in C, m \in V : ~(m < x)
      /\ ~(Cardinality(O) > 1)
      /\ V = {} \/ O # {}
  <2>1. \A e : e \notin CanaryErrors(C, V, O)
    BY <1>4
  <2>2. "canaryConfig" \notin CanaryErrors(C, V, O) /\ "manyCanaries" \notin CanaryErrors(C, V, O)
        /\ "manyBackends" \notin CanaryErrors(C, V, O) /\ "noBackend" \notin CanaryErrors(C, V, O)
    BY <2>1
  <2> QED
    BY <2>2 DEF CanaryErrors
<1>6. IsFiniteSet(O) /\ Cardinality(O) \in Nat /\ Cardinality(O) <= 1
  <2>1. IsFiniteSet(O)
    BY <1>1, <1>2, IndicesFinite, FS_Difference, FS_Subset
  <2> QED
    BY <1>5, <2>1, FS_CardinalityType
<1>7. CASE C = {}
  <2>1. O = 1..k
    BY <1>2, <1>7
  <2>2. k <= 1
    BY <1>1, <1>6, <2>1, IndicesFinite
  <2> QED
    BY <1>7, <2>2 DEF C, k
<1>8. CASE C # {}
  <2>1. PICK c \in C : \A m \in C : c <= m
    BY <1>2, <1>8, LeastNatural
  <2>2. c \in V
    <3> SUFFICES ASSUME c \notin V PROVE FALSE
      OBVIOUS
    <3>1. PICK m \in V : ~(c < m)
      BY <1>5, <2>1
    <3>2. m \in C /\ c <= m /\ c # m /\ c \in Nat /\ m \in Nat
      BY <1>2, <2>1, <3>1
    <3> QED
      BY <3>1, <3>2
  <2>3. \A m \in C : m = c
    <3> TAKE m \in C
    <3>1. c <= m /\ ~(c < m) /\ c \in Nat /\ m \in Nat
      BY <1>2, <1>5, <2>1, <2>2
    <3> QED
      BY <3>1
  <2>4. C = {c} /\ V = {c}
    BY <1>2, <2>2, <2>3
  <2>5. Min(V) = c
    <3>1. V \subseteq Nat /\ V # {}
      BY <1>2, <2>2
    <3>2. Min(V) \in V
      BY <3>1, MinIsLeast
    <3> QED
      BY <2>4, <3>2
  <2>6. PICK p : O = {p}
    <3>1. O # {}
      BY <1>5, <2>2
    <3>2. Cardinality(O) = 1
      <4>1. Cardinality(O) # 0
        BY <1>6, <3>1, FS_EmptySet
      <4> QED
        BY <1>6, <4>1
    <3> QED
      BY <1>6, <3>2, FS_Singleton
  <2>7. Min(O) = p
    <3>1. O \subseteq Nat /\ O # {}
      BY <1>2, <2>6
    <3>2. Min(O) \in O
      BY <3>1, MinIsLeast
    <3> QED
      BY <2>6, <3>2
  <2>8. ValidCanary(AskedAt(key, n, c))
    BY <1>3, <2>2
  <2> QED
    BY <1>8, <2>4, <2>5, <2>6, <2>7, <2>8 DEF C, V, O
<1> QED
  BY <1>7, <1>8

LEMMA DividedShape ==
  ASSUME NEW key, NEW n
  PROVE  /\ EmitterRule(pir[key].rules[n], n)
              = [from |-> n, path |-> pir[key].rules[n].match, headers |-> <<>>, filters |-> <<>>,
                 backends |-> [x \in All(key, n) |-> [source |-> SourceOfRule(key, n, x), weight |-> <<>>]]]
         /\ DividedRule(key, n)
              = [from |-> n, path |-> pir[key].rules[n].match, headers |-> <<>>, filters |-> <<>>,
                 backends |-> [x \in All(key, n) |-> [source |-> SourceOfRule(key, n, x), weight |-> Share(key, n, x)]]]
<1> DEFINE bs == [x \in All(key, n) |-> [source |-> SourceOfRule(key, n, x), weight |-> Share(key, n, x)]]
<1>1. EmitterRule(pir[key].rules[n], n)
        = [from |-> n, path |-> pir[key].rules[n].match, headers |-> <<>>, filters |-> <<>>,
           backends |-> [x \in All(key, n) |-> [source |-> SourceOfRule(key, n, x), weight |-> <<>>]]]
  BY DEF EmitterRule, All, SourceOfRule
<1>2. DividedRule(key, n) = [EmitterRule(pir[key].rules[n], n) EXCEPT !.backends = bs]
  BY DEF DividedRule
<1> HIDE DEF bs
<1>3. DividedRule(key, n) = [from |-> n, path |-> pir[key].rules[n].match, headers |-> <<>>, filters |-> <<>>,
                             backends |-> bs]
  BY <1>1, <1>2
<1> QED
  BY <1>1, <1>3 DEF bs

LEMMA UndividedRule ==
  ASSUME NEW key, NEW n, CanariesOf(key, n) = {} \/ ~ConfigOf(key, n).weighted
  PROVE  DividedRule(key, n) = EmitterRule(pir[key].rules[n], n)
<1> DEFINE bs == [x \in All(key, n) |-> [source |-> SourceOfRule(key, n, x), weight |-> Share(key, n, x)]]
           es == [x \in All(key, n) |-> [source |-> SourceOfRule(key, n, x), weight |-> <<>>]]
<1>1. \A x \in All(key, n) : Share(key, n, x) = <<>>
  BY DEF Share
<1>2. bs = es
  BY <1>1
<1>3. /\ EmitterRule(pir[key].rules[n], n)
           = [from |-> n, path |-> pir[key].rules[n].match, headers |-> <<>>, filters |-> <<>>, backends |-> es]
      /\ DividedRule(key, n)
           = [from |-> n, path |-> pir[key].rules[n].match, headers |-> <<>>, filters |-> <<>>, backends |-> bs]
  BY DividedShape
<1> HIDE DEF bs, es
<1> QED
  BY <1>2, <1>3

\* Backends with the sources of a rule of the provider IR, whatever the weights.
AreBackendsOf(bs, key, n) ==
  DOMAIN bs = All(key, n) /\ \A x \in All(key, n) : bs[x] = [source |-> SourceOfRule(key, n, x), weight |-> bs[x].weight]

WithWeight(bs, x, w) == [bs EXCEPT ![x].weight = w]

LEMMA WeightAssigned ==
  ASSUME NEW key, NEW n, NEW bs, AreBackendsOf(bs, key, n), NEW c \in All(key, n), NEW w
  PROVE  LET new == WithWeight(bs, c, w)
         IN  /\ AreBackendsOf(new, key, n)
             /\ new[c].weight = w /\ \A x \in All(key, n) : x # c => new[x].weight = bs[x].weight
<1> DEFINE b   == [bs[c] EXCEPT !.weight = w]
           new == [bs EXCEPT ![c] = b]
<1>1. b = [source |-> SourceOfRule(key, n, c), weight |-> w]
  BY DEF AreBackendsOf
<1>2. WithWeight(bs, c, w) = new
  BY DEF WithWeight
<1> HIDE DEF b
<1>3. new[c] = b /\ DOMAIN new = All(key, n) /\ \A x \in All(key, n) : x # c => new[x] = bs[x]
  BY DEF AreBackendsOf
<1> HIDE DEF new
<1> QED
  BY <1>1, <1>2, <1>3 DEF AreBackendsOf

LEMMA BackendsEqual ==
  ASSUME NEW key, NEW n, NEW bs, AreBackendsOf(bs, key, n), bs = [x \in DOMAIN bs |-> bs[x]],
         \A x \in All(key, n) : bs[x].weight = Share(key, n, x)
  PROVE  bs = [x \in All(key, n) |-> [source |-> SourceOfRule(key, n, x), weight |-> Share(key, n, x)]]
  BY DEF AreBackendsOf

\* The weights that a canary gives do not depend on those that are there.
LEMMA WeightedIsDivided ==
  ASSUME InputsInv, NEW key \in DOMAIN pir, NEW n \in DOMAIN pir[key].rules, Clean(key, n),
         CanariesOf(key, n) # {}, NEW r, r = EmitterRule(pir[key].rules[n], n) \/ r = DividedRule(key, n)
  PROVE  Weighted(r, ConfigOf(key, n), Min(ValidOf(key, n)), Min(OthersOf(key, n))) = DividedRule(key, n)
<1> DEFINE c == Min(ValidOf(key, n))
           p == Min(OthersOf(key, n))
           config == ConfigOf(key, n)
           w == <<config.weight>>
           t == <<config.total - config.weight>>
<1>1. CASE ~config.weighted
  BY <1>1, UndividedRule DEF Weighted
<1>2. CASE config.weighted
  <2>1. CanariesOf(key, n) = {c} /\ OthersOf(key, n) = {p}
    BY CleanRule
  <2> HIDE DEF c, p
  <2>2. c \in All(key, n) /\ p \in All(key, n) /\ c # p /\ \A x \in All(key, n) : x = c \/ x = p
    BY <2>1 DEF CanariesOf, OthersOf
  <2>3. PICK bs : /\ r = [from |-> n, path |-> pir[key].rules[n].match, headers |-> <<>>, filters |-> <<>>,
                          backends |-> bs]
                  /\ AreBackendsOf(bs, key, n)
    <3> DEFINE es == [x \in All(key, n) |-> [source |-> SourceOfRule(key, n, x), weight |-> <<>>]]
               ds == [x \in All(key, n) |-> [source |-> SourceOfRule(key, n, x), weight |-> Share(key, n, x)]]
    <3>1. AreBackendsOf(es, key, n) /\ AreBackendsOf(ds, key, n)
      BY DEF AreBackendsOf
    <3>2. \E bs \in {es, ds} :
            r = [from |-> n, path |-> pir[key].rules[n].match, headers |-> <<>>, filters |-> <<>>, backends |-> bs]
      BY DividedShape
    <3> HIDE DEF es, ds
    <3> QED
      BY <3>1, <3>2
  <2> DEFINE bs1 == WithWeight(bs, c, w)
             bs2 == WithWeight(bs1, p, t)
             one == [r EXCEPT !.backends[c].weight = w]
             two == [one EXCEPT !.backends[p].weight = t]
  <2>4. Weighted(r, config, c, p) = two
    BY <1>2 DEF Weighted
  <2> HIDE DEF w, t
  <2>5. /\ one = [from |-> n, path |-> pir[key].rules[n].match, headers |-> <<>>, filters |-> <<>>, backends |-> bs1]
        /\ two = [from |-> n, path |-> pir[key].rules[n].match, headers |-> <<>>, filters |-> <<>>, backends |-> bs2]
    <3>1. one = [r EXCEPT !.backends = bs1]
      BY <2>3 DEF WithWeight
    <3> HIDE DEF bs1, one
    <3>2. one = [from |-> n, path |-> pir[key].rules[n].match, headers |-> <<>>, filters |-> <<>>, backends |-> bs1]
      BY <2>3, <3>1
    <3>3. two = [one EXCEPT !.backends = bs2]
      BY <3>2 DEF WithWeight
    <3> HIDE DEF bs2, two
    <3> QED
      BY <3>2, <3>3
  <2>6. /\ AreBackendsOf(bs1, key, n) /\ bs1[c].weight = w
        /\ AreBackendsOf(bs2, key, n) /\ bs2[p].weight = t /\ bs2[c].weight = w
    <3>1. AreBackendsOf(bs1, key, n) /\ bs1[c].weight = w
      BY <2>2, <2>3, WeightAssigned
    <3> HIDE DEF bs1
    <3>2. /\ AreBackendsOf(bs2, key, n) /\ bs2[p].weight = t
          /\ \A x \in All(key, n) : x # p => bs2[x].weight = bs1[x].weight
      BY <2>2, <3>1, WeightAssigned
    <3> QED
      BY <2>2, <3>1, <3>2
  <2>7. bs2 = [x \in DOMAIN bs2 |-> bs2[x]]
    BY DEF WithWeight
  <2> HIDE DEF bs1, bs2, one, two
  <2>8. Share(key, n, c) = w /\ Share(key, n, p) = t
    BY <1>2, <2>1, <2>2 DEF Share, w, t
  <2>9. bs2 = [x \in All(key, n) |-> [source |-> SourceOfRule(key, n, x), weight |-> Share(key, n, x)]]
    BY <2>2, <2>6, <2>7, <2>8, BackendsEqual
  <2>10. two = DividedRule(key, n)
    BY <2>5, <2>9, DividedShape
  <2> QED
    BY <2>4, <2>10 DEF c, p
<1> QED
  BY <1>1, <1>2

\* The rules that a canary with a header puts in front.
IsFresh(rule) ==
  /\ rule = [from |-> rule.from, path |-> rule.path, headers |-> rule.headers,
             filters |-> rule.filters, backends |-> rule.backends]
  /\ rule.headers = <<>>

LEMMA FrontOfRule ==
  ASSUME NEW rule, IsFresh(rule), NEW config, NEW val, NEW b
  PROVE  /\ IsFront(HeaderRule(rule, config, val, b))
         /\ SendsTo(HeaderRule(rule, config, val, b), rule.path, config.header, b.source)
<1> DEFINE hs  == Append(rule.headers, [name |-> config.header, value |-> val])
           bs  == <<b>>
           new == [rule EXCEPT !.headers = hs, !.backends = bs]
           one == [rule EXCEPT !.headers = hs]
           two == [one EXCEPT !.backends = bs]
<1>1. hs = <<[name |-> config.header, value |-> val]>>
  BY DEF IsFresh
<1>2. hs # <<>> /\ hs[Len(hs)].name = config.header
  BY <1>1
<1>3. Len(bs) = 1 /\ [y \in DOMAIN bs |-> bs[y].source] = <<b.source>>
  OBVIOUS
<1> HIDE DEF hs, bs
<1>4. one = [from |-> rule.from, path |-> rule.path, headers |-> hs, filters |-> rule.filters,
             backends |-> rule.backends]
  BY DEF IsFresh
<1>5. new = two
  OBVIOUS
<1> HIDE DEF one
<1>6. two = [from |-> rule.from, path |-> rule.path, headers |-> hs, filters |-> rule.filters, backends |-> bs]
  BY <1>4
<1>7. HeaderRule(rule, config, val, b) = new
  BY DEF HeaderRule, hs, bs
<1> HIDE DEF new, two
<1>8. new.path = rule.path /\ new.headers = hs /\ new.backends = bs
  BY <1>5, <1>6
<1> QED
  BY <1>2, <1>3, <1>7, <1>8 DEF IsFront, IsBase, BackendSources, Last, SendsTo

LEMMA SentByMore ==
  ASSUME NEW key, NEW n, NEW s, NEW a, SentByHeader(s, a, key, n), NEW u, NEW b, NEW d,
         \A m \in 1..a : m + d \in 1..b /\ u[m + d] = s[m]
  PROVE  SentByHeader(u, b, key, n)
  BY DEF SentByHeader

LEMMA HeadersInFront ==
  ASSUME InputsInv, NEW key \in DOMAIN pir, NEW n \in DOMAIN pir[key].rules, Clean(key, n),
         CanariesOf(key, n) # {}, NEW rule, rule = EmitterRule(pir[key].rules[n], n)
  PROVE  LET new == HeaderRules(rule, ConfigOf(key, n), Min(ValidOf(key, n)), Min(OthersOf(key, n)))
         IN  /\ IsSeq(new) /\ \A m \in DOMAIN new : IsFront(new[m])
             /\ SentByHeader(new, Len(new), key, n)
<1> DEFINE c == Min(ValidOf(key, n))
           p == Min(OthersOf(key, n))
           config == ConfigOf(key, n)
           h(val, x) == HeaderRule(rule, config, val, rule.backends[x])
           new == HeaderRules(rule, config, c, p)
<1>1. /\ IsFresh(rule) /\ rule.path = pir[key].rules[n].match
      /\ \A x \in All(key, n) : rule.backends[x].source = SourceOfRule(key, n, x)
  <2> DEFINE es == [x \in All(key, n) |-> [source |-> SourceOfRule(key, n, x), weight |-> <<>>]]
  <2>1. rule = [from |-> n, path |-> pir[key].rules[n].match, headers |-> <<>>, filters |-> <<>>, backends |-> es]
    BY DividedShape
  <2>2. \A x \in All(key, n) : es[x].source = SourceOfRule(key, n, x)
    OBVIOUS
  <2> HIDE DEF es
  <2> QED
    BY <2>1, <2>2 DEF IsFresh
<1>2. c \in All(key, n)
  BY CleanRule DEF CanariesOf
<1>3. \A val : \A x \in {c, p} : IsFront(h(val, x))
  BY <1>1, FrontOfRule
<1>4. \A val : SendsTo(h(val, c), pir[key].rules[n].match, config.header, SourceOfRule(key, n, c))
  BY <1>1, <1>2, FrontOfRule
<1>5. ASSUME NEW s, Len(s) \in Nat, Len(s) >= 1, NEW val, s[1] = h(val, c)
      PROVE  SentByHeader(s, Len(s), key, n)
  <2> HIDE DEF h
  <2>1. 1 \in 1..Len(s)
    BY <1>5
  <2>2. SendsTo(s[1], pir[key].rules[n].match, config.header, SourceOfRule(key, n, c))
    BY <1>4, <1>5
  <2> QED
    BY <2>1, <2>2 DEF SentByHeader
<1> HIDE DEF c, p, h
<1>6. CASE config.header = <<>>
  <2>1. new = <<>>
    BY <1>6 DEF HeaderRules
  <2>2. SentByHeader(new, Len(new), key, n)
    BY <1>6 DEF SentByHeader
  <2> HIDE DEF new, config
  <2>3. IsSeq(new) /\ DOMAIN new = {}
    BY <2>1, EmptyIsSeq
  <2> QED
    BY <2>2, <2>3 DEF new, c, p, config
<1>7. CASE config.header # <<>> /\ config.value # <<>>
  <2> DEFINE a == h(config.value, c)
  <2>1. new = <<a>>
    BY <1>7 DEF HeaderRules, h
  <2>2. IsFront(a)
    BY <1>3
  <2> HIDE DEF new
  <2>3. SentByHeader(new, Len(new), key, n)
    <3>1. new[1] = h(config.value, c) /\ Len(new) \in Nat /\ Len(new) >= 1
      BY <2>1
    <3> HIDE DEF config
    <3> QED
      BY <1>5, <3>1
  <2> HIDE DEF a
  <2>4. IsSeq(new) /\ \A m \in DOMAIN new : IsFront(new[m])
    BY <2>1, <2>2, SingleIsSeq
  <2> QED
    BY <2>3, <2>4 DEF new, c, p
<1>8. CASE config.header # <<>> /\ config.value = <<>>
  <2> DEFINE a == h(<<"always">>, c)  b == h(<<"never">>, p)
  <2>1. new = <<a, b>>
    BY <1>8 DEF HeaderRules, h
  <2>2. IsFront(a) /\ IsFront(b)
    BY <1>3
  <2> HIDE DEF new
  <2>3. SentByHeader(new, Len(new), key, n)
    <3>1. new[1] = h(<<"always">>, c) /\ Len(new) \in Nat /\ Len(new) >= 1
      BY <2>1
    <3> HIDE DEF config
    <3> QED
      BY <1>5, <3>1
  <2> HIDE DEF a, b
  <2>4. <<a, b>> \in Seq({a, b}) /\ DOMAIN <<a, b>> = {1, 2} /\ <<a, b>>[1] = a /\ <<a, b>>[2] = b
    OBVIOUS
  <2>5. IsSeq(<<a, b>>)
    BY <2>4, SeqOfAny
  <2>6. IsSeq(new) /\ \A m \in DOMAIN new : IsFront(new[m])
    BY <2>1, <2>2, <2>4, <2>5
  <2> QED
    BY <2>3, <2>6 DEF new, c, p
<1> QED
  BY <1>6, <1>7, <1>8

LEMMA SharedOfDivided ==
  ASSUME InputsInv, NEW key \in DOMAIN pir, NEW n \in DOMAIN pir[key].rules, Clean(key, n),
         CanariesOf(key, n) # {}, ConfigOf(key, n).weighted
  PROVE  IsShared(DividedRule(key, n), Min(ValidOf(key, n)), ConfigOf(key, n))
<1> DEFINE c == Min(ValidOf(key, n))
           p == Min(OthersOf(key, n))
           config == ConfigOf(key, n)
           rule == DividedRule(key, n)
           bs == [x \in All(key, n) |-> [source |-> SourceOfRule(key, n, x), weight |-> Share(key, n, x)]]
<1>1. CanariesOf(key, n) = {c} /\ OthersOf(key, n) = {p} /\ ValidCanary(AskedAt(key, n, c))
  BY CleanRule
<1>2. config.weight \in Nat /\ config.total \in Nat
  BY <1>1, CanaryNumbers DEF ConfigOf
<1>3. rule.backends = bs
  <2> HIDE DEF bs
  <2>1. rule = [from |-> n, path |-> pir[key].rules[n].match, headers |-> <<>>, filters |-> <<>>, backends |-> bs]
    BY DividedShape DEF bs
  <2> HIDE DEF rule
  <2> QED
    BY <2>1
<1>4. DOMAIN bs = All(key, n) /\ \A x \in All(key, n) : bs[x].weight = Share(key, n, x)
  OBVIOUS
<1> HIDE DEF c, p, config, rule, bs
<1>5. c \in All(key, n) /\ p \in All(key, n) /\ c # p /\ \A x \in All(key, n) : x = c \/ x = p
  BY <1>1 DEF CanariesOf, OthersOf
<1>6. Share(key, n, c) = <<config.weight>> /\ Share(key, n, p) = <<config.total - config.weight>>
  BY <1>1, <1>5 DEF Share, config
<1>7. WeightedOf(rule) = {c, p}
  <2>1. bs[c].weight # <<>> /\ bs[p].weight # <<>>
    <3>1. \A v : <<v>> # <<>>
      OBVIOUS
    <3> QED
      BY <1>4, <1>5, <1>6, <3>1
  <2> QED
    BY <1>3, <1>4, <1>5, <2>1 DEF WeightedOf
<1>8. rule.backends[c].weight[1] = config.weight /\ rule.backends[p].weight[1] = config.total - config.weight
  BY <1>3, <1>4, <1>5, <1>6
<1>9. rule.backends[c].weight[1] + rule.backends[p].weight[1] = config.total
  BY <1>2, <1>8
<1>10. IsShared(rule, c, config)
  <2>1. p \in DOMAIN rule.backends \ {c}
    BY <1>3, <1>4, <1>5
  <2> QED
    BY <1>7, <1>8, <1>9, <2>1 DEF IsShared
<1> QED
  BY <1>10 DEF rule, c, config

\* A route whose rules are divided divides the traffic as asked.
LEMMA TrafficOfDivided ==
  ASSUME InputsInv, NEW key \in DOMAIN pir, NEW rules, IsSeq(rules), DividedRules(key, rules)
  PROVE  Traffic(rules)
<1>1. PICK first \in 0..Len(rules) : DividedBehind(key, rules, first)
  BY DEF DividedRules
<1>2. IsSeq(pir[key].rules) /\ Len(pir[key].rules) \in Nat /\ DOMAIN pir[key].rules = 1..Len(pir[key].rules)
      /\ Len(rules) \in Nat /\ first \in Nat
  <2>1. IsSeq(pir[key].rules)
    BY InputsAreProvided DEF Provided, IsProvided
  <2> QED
    BY <1>1, <2>1, IsSeqShape
<1> SUFFICES ASSUME NEW k \in DOMAIN rules, IsBase(rules[k])
             PROVE  /\ Cardinality(CanaryBackends(rules[k])) <= 1
                    /\ WeightedOf(rules[k]) # {} => CanaryBackends(rules[k]) # {}
                    /\ \A c \in CanaryBackends(rules[k]) : CanaryServed(rules, k, c)
  BY DEF Traffic
<1>3. k \in 1..(first + Len(pir[key].rules)) /\ k \notin 1..first
  BY <1>1 DEF DividedBehind, IsFront
<1>4. PICK n : n = k - first
  OBVIOUS
<1>5. n \in DOMAIN pir[key].rules /\ k = first + n /\ n >= 1 /\ n \in Nat /\ k \in Nat
  <2> DEFINE len == Len(pir[key].rules)
  <2>1. len \in Nat /\ k \in 1..(first + len) /\ k \notin 1..first /\ n = k - first /\ first \in Nat
    BY <1>2, <1>3, <1>4
  <2> HIDE DEF len
  <2>2. n \in 1..len /\ k = first + n /\ n >= 1 /\ n \in Nat /\ k \in Nat
    BY <2>1
  <2> QED
    BY <1>2, <2>2 DEF len
<1>6. rules[k] = DividedRule(key, n) /\ Clean(key, n) /\ SentByHeader(rules, first, key, n)
  BY <1>1, <1>5 DEF DividedBehind
<1> DEFINE bs == [x \in All(key, n) |-> [source |-> SourceOfRule(key, n, x), weight |-> Share(key, n, x)]]
           rule == rules[k]
<1>7. rule.backends = bs /\ rule.path = pir[key].rules[n].match
  <2> HIDE DEF bs
  <2>1. rule = [from |-> n, path |-> pir[key].rules[n].match, headers |-> <<>>, filters |-> <<>>, backends |-> bs]
    BY <1>6, DividedShape DEF bs
  <2> HIDE DEF rule
  <2> QED
    BY <2>1
<1>8. /\ DOMAIN bs = All(key, n)
      /\ \A x \in All(key, n) : bs[x].weight = Share(key, n, x) /\ bs[x].source = SourceOfRule(key, n, x)
  OBVIOUS
<1> HIDE DEF bs
<1>9. CanaryBackends(rule) = CanariesOf(key, n)
  BY <1>7, <1>8 DEF CanaryBackends, CanariesOf, AskedAt
<1>10. CASE CanariesOf(key, n) = {}
  <2>1. WeightedOf(rule) = {}
    BY <1>7, <1>8, <1>10 DEF WeightedOf, Share
  <2>2. Cardinality(CanaryBackends(rule)) = 0
    BY <1>9, <1>10, FS_EmptySet
  <2> QED
    BY <1>9, <1>10, <2>1, <2>2
<1>11. CASE CanariesOf(key, n) # {}
  <2> DEFINE c == Min(ValidOf(key, n))
  <2>1. CanariesOf(key, n) = {c} /\ c \in All(key, n)
    <3>1. CanariesOf(key, n) = {c}
      BY <1>5, <1>6, <1>11, CleanRule
    <3> QED
      BY <3>1 DEF CanariesOf
  <2>2. Cardinality(CanaryBackends(rule)) = 1
    <3> HIDE DEF c
    <3> QED
      BY <1>9, <2>1, FS_Singleton
  <2>3. CanaryConfig(annotations[rule.backends[c].source.ing]) = ConfigOf(key, n)
    BY <1>7, <1>8, <2>1 DEF ConfigOf, AskedAt
  <2>4. ConfigOf(key, n).weighted => IsShared(rule, c, ConfigOf(key, n))
    BY <1>5, <1>6, <1>11, SharedOfDivided
  <2>5. ConfigOf(key, n).header # <<>> =>
          \E m \in 1..(k - 1) : SendsTo(rules[m], rule.path, ConfigOf(key, n).header, rule.backends[c].source)
    <3>1. SUFFICES ASSUME ConfigOf(key, n).header # <<>>
                   PROVE  \E m \in 1..(k - 1) :
                            SendsTo(rules[m], rule.path, ConfigOf(key, n).header, rule.backends[c].source)
      OBVIOUS
    <3>2. PICK m \in 1..first : SendsTo(rules[m], pir[key].rules[n].match, ConfigOf(key, n).header, SourceOfRule(key, n, c))
      BY <1>6, <1>11, <3>1 DEF SentByHeader
    <3>3. m \in 1..(k - 1)
      BY <1>2, <1>5, <3>2
    <3>4. rule.path = pir[key].rules[n].match /\ rule.backends[c].source = SourceOfRule(key, n, c)
      BY <1>7, <1>8, <2>1
    <3> HIDE DEF rule, c
    <3> QED
      BY <3>2, <3>3, <3>4
  <2>6. CanaryServed(rules, k, c)
    BY <2>3, <2>4, <2>5 DEF CanaryServed
  <2> HIDE DEF c
  <2> QED
    BY <1>9, <1>11, <2>1, <2>2, <2>6
<1> QED
  BY <1>10, <1>11

\* The rules that are there keep what they match and where they send it, and what
\* is added is behind them.
RulesGoOn(new, rules) ==
  /\ \A n \in DOMAIN rules :
       /\ n \in DOMAIN new
       /\ new[n].from = rules[n].from /\ new[n].path = rules[n].path
       /\ new[n].headers = rules[n].headers /\ new[n].backends = rules[n].backends
  /\ \A n \in DOMAIN new \ DOMAIN rules : ~IsBase(new[n])

LEMMA TrafficGoesOn ==
  ASSUME NEW rules, NEW new, IsSeq(rules), Traffic(rules), RulesGoOn(new, rules)
  PROVE  Traffic(new)
<1> SUFFICES ASSUME NEW n \in DOMAIN new, IsBase(new[n])
             PROVE  /\ Cardinality(CanaryBackends(new[n])) <= 1
                    /\ WeightedOf(new[n]) # {} => CanaryBackends(new[n]) # {}
                    /\ \A c \in CanaryBackends(new[n]) : CanaryServed(new, n, c)
  BY DEF Traffic
<1>1. n \in DOMAIN rules
  BY DEF RulesGoOn
<1>2. /\ new[n].from = rules[n].from /\ new[n].path = rules[n].path
      /\ new[n].headers = rules[n].headers /\ new[n].backends = rules[n].backends
  BY <1>1 DEF RulesGoOn
<1>3. IsBase(rules[n])
  BY <1>2 DEF IsBase
<1>4. CanaryBackends(new[n]) = CanaryBackends(rules[n]) /\ WeightedOf(new[n]) = WeightedOf(rules[n])
  BY <1>2 DEF CanaryBackends, WeightedOf
<1>5. ASSUME NEW c \in CanaryBackends(new[n])
      PROVE  CanaryServed(new, n, c)
  <2>1. CanaryServed(rules, n, c)
    BY <1>1, <1>3, <1>4, <1>5 DEF Traffic
  <2>2. \A config : IsShared(new[n], c, config) <=> IsShared(rules[n], c, config)
    BY <1>2, <1>4 DEF IsShared
  <2>3. ASSUME NEW m \in 1..(n - 1), NEW path, NEW name, NEW src, SendsTo(rules[m], path, name, src)
        PROVE  SendsTo(new[m], path, name, src)
    <3>1. m \in DOMAIN rules
      BY <1>1, IsSeqShape
    <3>2. new[m].path = rules[m].path /\ new[m].headers = rules[m].headers /\ new[m].backends = rules[m].backends
      BY <3>1 DEF RulesGoOn
    <3> QED
      BY <2>3, <3>2 DEF SendsTo, BackendSources
  <2> QED
    BY <1>2, <2>1, <2>2, <2>3 DEF CanaryServed
<1> QED
  BY <1>1, <1>3, <1>4, <1>5 DEF Traffic

LEMMA AtCanary ==
  ASSUME LoopInv
  PROVE  At({"canary"}) <=> step = 1
<1>1. \A s \in 1..16 : Parsers[s] = "canary" <=> s = 1
  BY DEF Parsers
<1> QED
  BY <1>1, ParsersShape DEF At

\* The sources of the rule that the parser is at.
LEMMA CanaryRuleFacts ==
  ASSUME InputsInv, LoopInv, AtRule({"canary"})
  PROVE  /\ Key \in DOMAIN pir /\ Key \in DOMAIN httpRoutes /\ i \in DOMAIN pir[Key].rules
         /\ Sources[i] = pir[Key].rules[i].sources
         /\ CanarySources = CanariesOf(Key, i) /\ ValidSources = ValidOf(Key, i)
         /\ OtherSources = OthersOf(Key, i) /\ TheConfig = ConfigOf(Key, i)
<1>1. /\ Key \in DOMAIN pir /\ Key \in DOMAIN httpRoutes /\ i \in DOMAIN pir[Key].rules
      /\ Sources[i] = pir[Key].rules[i].sources
  BY AtRuleFacts
<1>2. CanarySources = CanariesOf(Key, i)
  BY <1>1 DEF CanarySources, CanariesOf, All, AskedAt, SourceOfRule
<1>3. ValidSources = ValidOf(Key, i)
  BY <1>1, <1>2 DEF ValidSources, ValidOf, AskedAt, SourceOfRule
<1>4. OtherSources = OthersOf(Key, i)
  BY <1>1, <1>2 DEF OtherSources, OthersOf, All
<1>5. TheConfig = ConfigOf(Key, i)
  BY <1>1, <1>3 DEF TheConfig, ConfigOf, AskedAt, SourceOfRule
<1> QED
  BY <1>1, <1>2, <1>3, <1>4, <1>5

\* What a visit of a rule without errors does.
LEMMA CleanStep ==
  ASSUME InputsInv, LoopInv, ParseCanaryRule, step' # Panicked, errors' = {}
  PROVE  /\ Key \in DOMAIN pir /\ Key \in DOMAIN httpRoutes /\ i \in DOMAIN pir[Key].rules
         /\ Clean(Key, i) /\ i' = i + 1 /\ UNCHANGED <<step, pending, group, j>>
         /\ Len(pir[Key].rules[i].sources) <= Len(Route.rules[i].backends)
         /\ CanariesOf(Key, i) = {} => UNCHANGED <<httpRoutes, newRules>>
         /\ CanariesOf(Key, i) # {} =>
              /\ newRules' = newRules \o HeaderRules(Route.rules[i], ConfigOf(Key, i),
                                                     Min(ValidOf(Key, i)), Min(OthersOf(Key, i)))
              /\ httpRoutes' = [httpRoutes EXCEPT
                   ![Key].rules[i] = Weighted(@, ConfigOf(Key, i), Min(ValidOf(Key, i)), Min(OthersOf(Key, i)))]
<1>1. AtRule({"canary"})
  BY CanaryStep
<1>2. /\ Key \in DOMAIN pir /\ Key \in DOMAIN httpRoutes /\ i \in DOMAIN pir[Key].rules
      /\ Sources[i] = pir[Key].rules[i].sources
      /\ CanarySources = CanariesOf(Key, i) /\ ValidSources = ValidOf(Key, i)
      /\ OtherSources = OthersOf(Key, i) /\ TheConfig = ConfigOf(Key, i)
  BY <1>1, CanaryRuleFacts
<1>3. /\ Len(Sources[i]) <= Len(Route.rules[i].backends)
      /\ errors' = errors \union CanaryErrors(CanarySources, ValidSources, OtherSources)
      /\ i' = i + 1 /\ UNCHANGED <<step, pending, group, j>>
      /\ \/ /\ ValidSources = {} \/ OtherSources = {}
            /\ UNCHANGED <<httpRoutes, newRules>>
         \/ /\ ValidSources # {} /\ OtherSources # {}
            /\ newRules' = newRules \o HeaderRules(Route.rules[i], TheConfig,
                                                   Min(ValidSources), Min(OtherSources))
            /\ httpRoutes' = [httpRoutes EXCEPT
                 ![Key].rules[i] = Weighted(@, TheConfig, Min(ValidSources), Min(OtherSources))]
  BY CanaryStep
<1>4. Clean(Key, i)
  BY <1>2, <1>3 DEF Clean
<1>5. CanariesOf(Key, i) = {} => ValidOf(Key, i) = {}
  BY DEF ValidOf
<1>6. CanariesOf(Key, i) # {} => ValidOf(Key, i) # {} /\ OthersOf(Key, i) # {}
  BY <1>2, <1>4, CleanRule
<1> QED
  BY <1>2, <1>3, <1>4, <1>5, <1>6

LEMMA FirstVisitStep ==
  ASSUME InputsInv, LoopInv, RoutesInv, ParseCanaryRule, step' # Panicked, errors' = {},
         IsSeq(newRules), PartlyDivided(Key, Route.rules, newRules, i)
  PROVE  PartlyDivided(Key, httpRoutes'[Key].rules, newRules', i')
<1> DEFINE provided == pir[Key].rules
           c == Min(ValidOf(Key, i))
           p == Min(OthersOf(Key, i))
           hs == HeaderRules(Route.rules[i], ConfigOf(Key, i), c, p)
           w == Weighted(Route.rules[i], ConfigOf(Key, i), c, p)
<1>1. /\ Key \in DOMAIN pir /\ Key \in DOMAIN httpRoutes /\ i \in DOMAIN provided
      /\ Clean(Key, i) /\ i' = i + 1
      /\ CanariesOf(Key, i) = {} => UNCHANGED <<httpRoutes, newRules>>
      /\ CanariesOf(Key, i) # {} =>
           /\ newRules' = newRules \o hs
           /\ httpRoutes' = [httpRoutes EXCEPT ![Key].rules[i] = w]
  BY CleanStep DEF Route
<1>2. /\ DOMAIN Route.rules = DOMAIN provided
      /\ \A m \in DOMAIN newRules : IsFront(newRules[m])
      /\ \A n \in DOMAIN provided :
           IF n < i THEN /\ Route.rules[n] = DividedRule(Key, n) /\ Clean(Key, n)
                         /\ SentByHeader(newRules, Len(newRules), Key, n)
           ELSE Route.rules[n] = EmitterRule(provided[n], n)
  BY DEF PartlyDivided
<1>3. \A n \in DOMAIN provided : n \in Nat /\ (n < i + 1 <=> n < i \/ n = i)
  BY <1>1, SourcesOf
<1>4. Route.rules[i] = EmitterRule(provided[i], i)
  BY <1>1, <1>2, SourcesOf
<1>5. CASE CanariesOf(Key, i) = {}
  <2>1. httpRoutes'[Key].rules = Route.rules /\ newRules' = newRules
    BY <1>1, <1>5 DEF Route
  <2>2. Route.rules[i] = DividedRule(Key, i)
    BY <1>4, <1>5, UndividedRule
  <2>3. SentByHeader(newRules, Len(newRules), Key, i)
    BY <1>5 DEF SentByHeader
  <2>4. ASSUME NEW n \in DOMAIN provided
        PROVE  IF n < i' THEN /\ Route.rules[n] = DividedRule(Key, n) /\ Clean(Key, n)
                              /\ SentByHeader(newRules, Len(newRules), Key, n)
               ELSE Route.rules[n] = EmitterRule(provided[n], n)
    BY <1>1, <1>2, <1>3, <2>2, <2>3
  <2> QED
    BY <1>2, <2>1, <2>4 DEF PartlyDivided
<1>6. CASE CanariesOf(Key, i) # {}
  <2>1. PICK rule : rule = Route.rules[i]
    OBVIOUS
  <2>2. IsSeq(hs) /\ (\A m \in DOMAIN hs : IsFront(hs[m])) /\ SentByHeader(hs, Len(hs), Key, i)
    BY <1>1, <1>4, <1>6, <2>1, HeadersInFront
  <2>3. w = DividedRule(Key, i)
    BY <1>1, <1>4, <1>6, <2>1, WeightedIsDivided
  <2> DEFINE rules == [Route.rules EXCEPT ![i] = w]
  <2>4. httpRoutes'[Key].rules = rules /\ newRules' = newRules \o hs
    <3>1. httpRoutes' = [httpRoutes EXCEPT ![Key].rules = rules]
      BY <1>1, <1>6 DEF Route
    <3>2. IsRoute(httpRoutes[Key], provided)
      BY <1>1 DEF RoutesInv
    <3> HIDE DEF rules
    <3>3. httpRoutes'[Key].rules = rules
      BY <1>1, <3>1, <3>2, RulesAssigned
    <3> QED
      BY <1>1, <1>6, <3>3
  <2>5. DOMAIN rules = DOMAIN provided /\ rules[i] = w /\ \A n \in DOMAIN provided : n # i => rules[n] = Route.rules[n]
    BY <1>1, <1>2
  <2> HIDE DEF hs, w, rules
  <2> DEFINE a == Len(newRules)  b == Len(hs)  both == newRules \o hs
  <2>6. /\ a \in Nat /\ b \in Nat /\ DOMAIN newRules = 1..a /\ DOMAIN hs = 1..b
        /\ Len(both) = a + b /\ DOMAIN both = 1..(a + b)
        /\ \A m \in 1..a : both[m] = newRules[m]
        /\ \A m \in 1..b : both[a + m] = hs[m]
    BY <2>2, ConcatSeq, IsSeqShape
  <2> HIDE DEF a, b, both
  <2>7. \A m \in DOMAIN both : IsFront(both[m])
    <3> TAKE m \in DOMAIN both
    <3>1. m \in 1..a \/ (m - a \in 1..b /\ m = a + (m - a))
      BY <2>6
    <3>2. CASE m \in 1..a
      BY <1>2, <2>6, <3>2
    <3>3. CASE m - a \in 1..b /\ m = a + (m - a)
      <4>1. both[m] = hs[m - a]
        BY <2>6, <3>3
      <4> QED
        BY <2>2, <2>6, <3>3, <4>1
    <3> QED
      BY <3>1, <3>2, <3>3
  <2>8. ASSUME NEW n, SentByHeader(newRules, a, Key, n)
        PROVE  SentByHeader(both, a + b, Key, n)
    <3>1. \A m \in 1..a : m + 0 \in 1..(a + b) /\ both[m + 0] = newRules[m]
      BY <2>6
    <3> QED
      BY <2>8, <3>1, SentByMore
  <2>9. SentByHeader(both, a + b, Key, i)
    <3>1. \A m \in 1..b : m + a \in 1..(a + b) /\ m + a = a + m
      BY <2>6
    <3>2. \A m \in 1..b : m + a \in 1..(a + b) /\ both[m + a] = hs[m]
      BY <2>6, <3>1
    <3>3. SentByHeader(hs, b, Key, i)
      BY <2>2 DEF b
    <3> QED
      BY <3>2, <3>3, SentByMore
  <2>10. ASSUME NEW n \in DOMAIN provided
         PROVE  IF n < i' THEN /\ rules[n] = DividedRule(Key, n) /\ Clean(Key, n)
                               /\ SentByHeader(both, Len(both), Key, n)
                ELSE rules[n] = EmitterRule(provided[n], n)
    <3>1. CASE n = i
      <4>1. n < i'
        BY <1>1, <1>3, <3>1
      <4> QED
        BY <1>1, <2>3, <2>5, <2>6, <2>9, <3>1, <4>1
    <3>2. CASE n # i
      <4>1. n < i' <=> n < i
        BY <1>1, <1>3, <3>2
      <4>2. n < i => SentByHeader(both, Len(both), Key, n)
        BY <1>2, <2>6, <2>8 DEF a
      <4> QED
        BY <1>2, <2>5, <3>2, <4>1, <4>2
    <3> QED
      BY <3>1, <3>2
  <2> QED
    BY <2>4, <2>5, <2>7, <2>10 DEF PartlyDivided, both
<1> QED
  BY <1>5, <1>6

LEMMA DividedBackends ==
  ASSUME InputsInv, NEW key \in DOMAIN pir, NEW n \in DOMAIN pir[key].rules
  PROVE  Len(DividedRule(key, n).backends) = Len(pir[key].rules[n].sources)
<1> DEFINE bs == [x \in All(key, n) |-> [source |-> SourceOfRule(key, n, x), weight |-> Share(key, n, x)]]
           k == Len(pir[key].rules[n].sources)
<1>1. k \in Nat /\ All(key, n) = 1..k
  BY SourcesOf
<1>2. DOMAIN bs = 1..k /\ bs = [x \in 1..k |-> bs[x]]
  BY <1>1
<1> HIDE DEF bs, k
<1>3. Len(bs) = k
  BY <1>1, <1>2, FunctionIsSeq
<1>4. DividedRule(key, n)
        = [from |-> n, path |-> pir[key].rules[n].match, headers |-> <<>>, filters |-> <<>>, backends |-> bs]
  BY DividedShape DEF bs
<1>5. DividedRule(key, n).backends = bs
  BY <1>4
<1> QED
  BY <1>3, <1>5 DEF k

\* A canary that the parser comes to on a second visit is at its own rule: in front
\* of it are none, or the parser panics.
LEMMA CanaryAgain ==
  ASSUME InputsInv, NEW key \in DOMAIN pir, NEW rules, NEW first \in Nat, DividedBehind(key, rules, first),
         NEW n \in DOMAIN pir[key].rules, CanariesOf(key, n) # {},
         first # 0 => \A m \in DOMAIN pir[key].rules : m < n => CanariesOf(key, m) = {},
         Len(pir[key].rules[n].sources) <= Len(rules[n].backends)
  PROVE  first = 0
<1> SUFFICES ASSUME first # 0 PROVE FALSE
  OBVIOUS
<1> DEFINE len == Len(pir[key].rules)
           k   == Len(pir[key].rules[n].sources)
<1>1. len \in Nat /\ n \in 1..len /\ DOMAIN pir[key].rules = 1..len /\ k \in Nat /\ All(key, n) = 1..k
  BY SourcesOf, IsSeqShape
<1>2. k >= 2
  <2>1. Clean(key, n)
    BY DEF DividedBehind
  <2> DEFINE c == Min(ValidOf(key, n))  p == Min(OthersOf(key, n))
  <2>2. CanariesOf(key, n) = {c} /\ OthersOf(key, n) = {p}
    BY <2>1, CleanRule
  <2> HIDE DEF c, p
  <2>3. c \in All(key, n) /\ p \in All(key, n) /\ c # p
    BY <2>2 DEF CanariesOf, OthersOf
  <2> HIDE DEF k
  <2> QED
    BY <1>1, <2>3
<1>3. CASE n <= first
  <2>1. n \in 1..first
    BY <1>1, <1>3
  <2>2. Len(rules[n].backends) = 1
    BY <2>1 DEF DividedBehind, IsFront
  <2> QED
    BY <1>1, <1>2, <2>2
<1>4. CASE n > first
  <2>1. PICK m : m = n - first
    OBVIOUS
  <2>2. m \in DOMAIN pir[key].rules /\ first + m = n /\ m < n
    <3> HIDE DEF len
    <3>1. m \in 1..len /\ first + m = n /\ m < n
      BY <1>1, <1>4, <2>1
    <3> QED
      BY <1>1, <3>1
  <2>3. rules[n] = DividedRule(key, m) /\ Clean(key, m) /\ CanariesOf(key, m) = {}
    BY <2>2 DEF DividedBehind
  <2>4. Len(rules[n].backends) = Len(pir[key].rules[m].sources) /\ Len(pir[key].rules[m].sources) <= 1
    BY <2>2, <2>3, DividedBackends, CleanRule
  <2>5. Len(pir[key].rules[m].sources) \in Nat
    BY <2>2, SourcesOf
  <2> QED
    BY <1>1, <1>2, <2>4, <2>5
<1> QED
  BY <1>1, <1>3, <1>4

LEMMA NextVisitStep ==
  ASSUME InputsInv, LoopInv, RoutesInv, ParseCanaryRule, step' # Panicked, errors' = {},
         newRules = <<>>, NEW first \in Nat, DividedBehind(Key, Route.rules, first),
         first # 0 => \A n \in DOMAIN pir[Key].rules : n < i => CanariesOf(Key, n) = {}
  PROVE  /\ httpRoutes'[Key].rules = Route.rules /\ newRules' = <<>>
         /\ first # 0 => \A n \in DOMAIN pir[Key].rules : n < i' => CanariesOf(Key, n) = {}
<1> DEFINE provided == pir[Key].rules
           c == Min(ValidOf(Key, i))
           p == Min(OthersOf(Key, i))
           hs == HeaderRules(Route.rules[i], ConfigOf(Key, i), c, p)
           w == Weighted(Route.rules[i], ConfigOf(Key, i), c, p)
<1>1. /\ Key \in DOMAIN pir /\ Key \in DOMAIN httpRoutes /\ i \in DOMAIN provided
      /\ Clean(Key, i) /\ i' = i + 1
      /\ Len(provided[i].sources) <= Len(Route.rules[i].backends)
      /\ CanariesOf(Key, i) = {} => UNCHANGED <<httpRoutes, newRules>>
      /\ CanariesOf(Key, i) # {} =>
           /\ newRules' = newRules \o hs
           /\ httpRoutes' = [httpRoutes EXCEPT ![Key].rules[i] = w]
  BY CleanStep DEF Route
<1>2. \A n \in DOMAIN provided : n \in Nat /\ (n < i + 1 <=> n < i \/ n = i)
  BY <1>1, SourcesOf
<1>3. CASE CanariesOf(Key, i) = {}
  BY <1>1, <1>2, <1>3 DEF Route
<1>4. CASE CanariesOf(Key, i) # {}
  <2>1. first = 0
    BY <1>1, <1>4, CanaryAgain
  <2>2. Route.rules[i] = DividedRule(Key, i) /\ SentByHeader(Route.rules, 0, Key, i)
    <3>1. 0 + i = i
      BY <1>1, <1>2
    <3> QED
      BY <1>1, <2>1, <3>1 DEF DividedBehind
  <2>3. w = Route.rules[i]
    <3>1. PICK rule : rule = Route.rules[i]
      OBVIOUS
    <3>2. Weighted(rule, ConfigOf(Key, i), c, p) = DividedRule(Key, i)
      BY <1>1, <1>4, <2>2, <3>1, WeightedIsDivided
    <3> QED
      BY <2>2, <3>1, <3>2
  <2>4. hs = <<>>
    <3>1. 1..0 = {}
      OBVIOUS
    <3>2. ConfigOf(Key, i).header = <<>>
      BY <1>4, <2>2, <3>1 DEF SentByHeader
    <3> QED
      BY <3>2 DEF HeaderRules
  <2>5. httpRoutes'[Key].rules = Route.rules
    <3> HIDE DEF w
    <3>1. httpRoutes' = [httpRoutes EXCEPT ![Key].rules[i] = httpRoutes[Key].rules[i]]
      BY <1>1, <1>4, <2>3 DEF Route
    <3>2. IsRoute(httpRoutes[Key], provided) /\ IsSeq(Route.rules)
      BY <1>1 DEF RoutesInv, IsRoute, Route
    <3> DEFINE rules == [Route.rules EXCEPT ![i] = Route.rules[i]]
    <3>3. httpRoutes' = [httpRoutes EXCEPT ![Key].rules = rules]
      BY <3>1 DEF Route
    <3>4. rules = Route.rules
      <4>1. PICK rs : rs = Route.rules
        OBVIOUS
      <4>2. rs \in Seq({rs[x] : x \in DOMAIN rs})
        BY <3>2, <4>1 DEF IsSeq
      <4>3. rs \in [1..Len(rs) -> {rs[x] : x \in DOMAIN rs}]
        BY <4>2, LenProperties
      <4>4. [rs EXCEPT ![i] = rs[i]] = rs
        BY <4>3
      <4> QED
        BY <4>1, <4>4
    <3> HIDE DEF rules
    <3>5. httpRoutes'[Key].rules = rules
      BY <1>1, <3>2, <3>3, RulesAssigned
    <3> QED
      BY <3>4, <3>5
  <2> HIDE DEF hs
  <2>6. newRules' = <<>>
    <3>1. newRules' = <<>> \o <<>>
      BY <1>1, <1>4, <2>4
    <3> QED
      BY <3>1
  <2> QED
    BY <2>1, <2>5, <2>6
<1> QED
  BY <1>3, <1>4

\* A first visit ends with the new rules in front of the others.
LEMMA FirstVisitEnds ==
  ASSUME InputsInv, NEW key \in DOMAIN pir, NEW rules, NEW new, IsSeq(rules), IsSeq(new), NEW k \in Nat,
         PartlyDivided(key, rules, new, k), k > Len(pir[key].rules)
  PROVE  DividedBehind(key, new \o rules, Len(new)) /\ Len(new) \in 0..Len(new \o rules)
<1> DEFINE provided == pir[key].rules
           f == Len(new)
           l == Len(provided)
           all == new \o rules
<1>1. l \in Nat /\ DOMAIN provided = 1..l /\ f \in Nat /\ DOMAIN new = 1..f
  BY SourcesOf, InputsAreProvided, IsSeqShape DEF Provided, IsProvided
<1>2. Len(rules) = l /\ DOMAIN rules = 1..l
  <2>1. DOMAIN rules = 1..Len(rules) /\ Len(rules) \in Nat /\ DOMAIN rules = 1..l
    BY <1>1, IsSeqShape DEF PartlyDivided
  <2> HIDE DEF l
  <2>2. \A a, b \in Nat : 1..a = 1..b => a = b
    <3> TAKE a, b \in Nat
    <3> HAVE 1..a = 1..b
    <3>1. a <= b
      <4>1. a = 0 \/ a \in 1..b
        OBVIOUS
      <4> QED
        BY <4>1
    <3>2. b <= a
      <4>1. b = 0 \/ b \in 1..a
        OBVIOUS
      <4> QED
        BY <4>1
    <3> QED
      BY <3>1, <3>2
  <2> QED
    BY <1>1, <2>1, <2>2
<1>3. /\ Len(all) = f + l /\ DOMAIN all = 1..(f + l)
      /\ \A m \in 1..f : all[m] = new[m]
      /\ \A m \in 1..l : all[f + m] = rules[m]
  BY <1>2, ConcatSeq
<1>4. \A n \in DOMAIN provided : rules[n] = DividedRule(key, n) /\ Clean(key, n) /\ SentByHeader(new, f, key, n)
  <2> TAKE n \in DOMAIN provided
  <2>1. n < k
    <3> HIDE DEF l
    <3>1. n \in 1..l /\ k > l
      BY <1>1 DEF l
    <3> QED
      BY <1>1, <3>1
  <2> QED
    BY <2>1 DEF PartlyDivided
<1> HIDE DEF all, f, l
<1>5. \A m \in 1..f : IsFront(all[m])
  BY <1>1, <1>3 DEF PartlyDivided
<1>6. ASSUME NEW n \in DOMAIN provided
      PROVE  all[f + n] = DividedRule(key, n) /\ Clean(key, n) /\ SentByHeader(all, f, key, n)
  <2>1. PICK d : d = 0
    OBVIOUS
  <2>2. SentByHeader(all, f, key, n)
    <3>1. \A m \in 1..f : m + d \in 1..f /\ all[m + d] = new[m]
      BY <1>1, <1>3, <2>1
    <3>2. SentByHeader(new, f, key, n)
      BY <1>4
    <3> QED
      BY <3>1, <3>2, SentByMore
  <2> QED
    BY <1>1, <1>3, <1>4, <2>2
<1>7. DividedBehind(key, all, f)
  BY <1>3, <1>5, <1>6 DEF DividedBehind, l
<1>8. f \in 0..Len(all)
  BY <1>1, <1>3
<1> QED
  BY <1>7, <1>8 DEF all, f

\* What is said of the rules is said again as long as the inputs stay.
LEMMA SameRule ==
  ASSUME UNCHANGED <<annotations, pir>>, NEW key, NEW n
  PROVE  /\ CanariesOf(key, n)' = CanariesOf(key, n) /\ Clean(key, n)' = Clean(key, n)
         /\ DividedRule(key, n)' = DividedRule(key, n)
         /\ \A rules, first : SentByHeader(rules, first, key, n)' = SentByHeader(rules, first, key, n)
<1>1. All(key, n)' = All(key, n) /\ \A x : SourceOfRule(key, n, x)' = SourceOfRule(key, n, x)
  BY DEF All, SourceOfRule
<1>2. \A x : AskedAt(key, n, x)' = AskedAt(key, n, x)
  BY <1>1 DEF AskedAt
<1>3. CanariesOf(key, n)' = CanariesOf(key, n)
  BY <1>1, <1>2 DEF CanariesOf
<1>4. ValidOf(key, n)' = ValidOf(key, n) /\ OthersOf(key, n)' = OthersOf(key, n)
  BY <1>1, <1>2, <1>3 DEF ValidOf, OthersOf
<1>5. ConfigOf(key, n)' = ConfigOf(key, n)
  BY <1>2, <1>4 DEF ConfigOf
<1>6. Clean(key, n)' = Clean(key, n)
  BY <1>3, <1>4 DEF Clean
<1>7. \A x : Share(key, n, x)' = Share(key, n, x)
  BY <1>3, <1>5 DEF Share
<1>8. DividedRule(key, n)' = DividedRule(key, n)
  BY <1>1, <1>7 DEF DividedRule
<1>9. \A rules, first : SentByHeader(rules, first, key, n)' = SentByHeader(rules, first, key, n)
  BY <1>1, <1>3, <1>4, <1>5 DEF SentByHeader
<1> QED
  BY <1>3, <1>6, <1>8, <1>9

LEMMA RouteUnchanged ==
  ASSUME UNCHANGED <<annotations, pir>>, NEW key, NEW rules
  PROVE  /\ \A first : DividedBehind(key, rules, first)' = DividedBehind(key, rules, first)
         /\ DividedRules(key, rules)' = DividedRules(key, rules)
         /\ \A new, k : PartlyDivided(key, rules, new, k)' = PartlyDivided(key, rules, new, k)
         /\ Traffic(rules)' = Traffic(rules)
<1>1. \A first : DividedBehind(key, rules, first)' = DividedBehind(key, rules, first)
  BY SameRule DEF DividedBehind
<1>2. DividedRules(key, rules)' = DividedRules(key, rules)
  BY <1>1 DEF DividedRules
<1>3. \A new, k : PartlyDivided(key, rules, new, k)' = PartlyDivided(key, rules, new, k)
  BY SameRule DEF PartlyDivided
<1>4. Traffic(rules)' = Traffic(rules)
  BY DEF Traffic, CanaryBackends, CanaryServed
<1> QED
  BY <1>1, <1>2, <1>3, <1>4

LEMMA RoutesGoOn ==
  ASSUME KeptInv, [FeatureStep]_featureVars, step # 1, NEW key \in DOMAIN httpRoutes
  PROVE  RulesGoOn(httpRoutes'[key].rules, httpRoutes[key].rules)
<1>1. InputsInv /\ LoopInv /\ RoutesInv /\ (FeatureStep \/ UNCHANGED featureVars)
  BY DEF KeptInv
<1>2. ASSUME httpRoutes'[key].rules = httpRoutes[key].rules
      PROVE  RulesGoOn(httpRoutes'[key].rules, httpRoutes[key].rules)
  BY <1>2 DEF RulesGoOn
<1>3. ASSUME OthersStay(Key), Key # key
      PROVE  httpRoutes'[key].rules = httpRoutes[key].rules
  BY <1>3 DEF OthersStay
<1>4. CASE UNCHANGED httpRoutes
  BY <1>2, <1>4
<1>5. CASE ParseFeature \/ ParseAuth
  <2>1. UNCHANGED httpRoutes \/ (httpRoutes'[Key].rules = Route.rules /\ OthersStay(Key))
    BY <1>1, <1>5, FeatureEffect, AuthEffect
  <2> QED
    BY <1>2, <1>3, <1>4, <2>1 DEF Route
<1>6. CASE FinishRedirect
  <2>1. /\ Key \in DOMAIN httpRoutes
        /\ UNCHANGED httpRoutes \/ (httpRoutes'[Key].rules = AppRootRules(Route) /\ OthersStay(Key))
    BY <1>1, <1>6, RedirectEffect
  <2>2. IsSeq(Route.rules)
    BY <1>1, <2>1 DEF RoutesInv, Route, IsRoute
  <2>3. RulesGoOn(AppRootRules(Route), Route.rules)
    <3>1. CASE AppRootRules(Route) = Route.rules
      BY <3>1 DEF RulesGoOn
    <3>2. CASE AppRootRules(Route) = Append(Route.rules, AppRootRule)
      <4> DEFINE rules == Append(Route.rules, AppRootRule)
                 l == Len(Route.rules)
      <4>1. /\ DOMAIN rules = 1..(l + 1) /\ DOMAIN Route.rules = 1..l /\ l \in Nat
            /\ \A n \in 1..l : rules[n] = Route.rules[n]
            /\ rules[l + 1] = AppRootRule
        BY <2>2, AppendSeq, IsSeqShape
      <4>2. ~IsBase(AppRootRule)
        BY DEF IsBase, AppRootRule
      <4> HIDE DEF rules, l
      <4>3. /\ \A n \in DOMAIN Route.rules : n \in DOMAIN rules /\ rules[n] = Route.rules[n]
            /\ \A n \in DOMAIN rules \ DOMAIN Route.rules : rules[n] = AppRootRule
        <5>1. \A n \in 1..l : n \in 1..(l + 1)
          BY <4>1
        <5>2. \A n \in 1..(l + 1) : n \notin 1..l => n = l + 1
          BY <4>1
        <5> QED
          BY <4>1, <5>1, <5>2
      <4>4. RulesGoOn(rules, Route.rules)
        BY <4>2, <4>3 DEF RulesGoOn
      <4> QED
        BY <3>2, <4>4 DEF rules
    <3> QED
      BY <3>1, <3>2 DEF AppRootRules
  <2>4. CASE Key = key /\ ~UNCHANGED httpRoutes
    BY <2>1, <2>3, <2>4 DEF Route
  <2> QED
    BY <1>2, <1>3, <1>4, <2>1, <2>4
<1>7. CASE ParseHeaders
  <2> DEFINE r == [Route.rules[i] EXCEPT !.filters = @ \o HeaderFilters(annotations[Source.ing])]
             rules == [Route.rules EXCEPT ![i] = r]
  <2>1. /\ Key \in DOMAIN httpRoutes /\ i \in DOMAIN Route.rules /\ OthersStay(Key)
        /\ httpRoutes'[Key].rules = rules
    BY <1>1, <1>7, HeadersEffect
  <2>2. IsRule(Route.rules[i], pir[Key].rules)
    BY <1>1, <2>1 DEF RoutesInv, Route, IsRoute
  <2>3. /\ r.from = Route.rules[i].from /\ r.path = Route.rules[i].path
        /\ r.headers = Route.rules[i].headers /\ r.backends = Route.rules[i].backends
    BY <2>2 DEF IsRule
  <2> HIDE DEF r
  <2>4. rules[i] = r /\ DOMAIN rules = DOMAIN Route.rules /\ \A n \in DOMAIN Route.rules : n # i => rules[n] = Route.rules[n]
    BY <2>1
  <2> HIDE DEF rules
  <2>5. RulesGoOn(rules, Route.rules)
    BY <2>3, <2>4 DEF RulesGoOn
  <2>6. CASE Key = key
    BY <2>1, <2>5, <2>6 DEF Route
  <2> QED
    BY <1>2, <1>3, <2>1, <2>6
<1>8. ~FinishCanary /\ ~ParseCanaryRule
  BY <1>1, AtCanary, CanaryStep DEF FinishCanary, AtRule, RulesDone, Running
<1> QED
  BY <1>1, <1>4, <1>5, <1>6, <1>7, <1>8, LoopEffect DEF FeatureStep

LEMMA ErrorsStay ==
  ASSUME FeatureStep \/ UNCHANGED featureVars, errors' = {}
  PROVE  errors = {}
<1>1. CASE ParseCanaryRule
  BY <1>1 DEF ParseCanaryRule
<1>2. CASE ~ParseCanaryRule
  BY <1>2 DEF FeatureStep, VisitGroup, NextParser, NextRule, FinishGroup, FinishCanary, ParseFeature,
     FinishRedirect, ParseAuth, ParseHeaders, featureVars
<1> QED
  BY <1>1, <1>2

\* The course of the parser over one route, step by step.
LEMMA SetCourse ==
  ASSUME UNCHANGED <<annotations, pir>>, NEW key, NEW rules, rules = httpRoutes'[key].rules,
         NEW new, NEW k, new = newRules', k = i',
         IF Visiting(key)'
         THEN IF Visited(key)'
              THEN /\ new = <<>>
                   /\ \E first \in 0..Len(rules) :
                        /\ DividedBehind(key, rules, first)
                        /\ first # 0 => \A n \in DOMAIN pir[key].rules : n < k => CanariesOf(key, n) = {}
              ELSE PartlyDivided(key, rules, new, k)
         ELSE IF Visited(key)' THEN DividedRules(key, rules) ELSE PartlyDivided(key, rules, <<>>, 1)
  PROVE  CanaryCourse(key, httpRoutes[key].rules)'
<1>1. CASE Visiting(key)' /\ Visited(key)'
  <2>1. VisitedAgain(key, httpRoutes[key].rules)'
    <3>1. PICK first \in 0..Len(rules) :
            /\ DividedBehind(key, rules, first)
            /\ first # 0 => \A n \in DOMAIN pir[key].rules : n < k => CanariesOf(key, n) = {}
      BY <1>1
    <3>2. DividedBehind(key, rules, first)'
      BY <3>1, RouteUnchanged
    <3>3. (first # 0 => \A n \in DOMAIN pir[key].rules : n < i => CanariesOf(key, n) = {})'
      BY <3>1, SameRule
    <3> QED
      BY <1>1, <3>1, <3>2, <3>3 DEF VisitedAgain
  <2> QED
    BY <1>1, <2>1 DEF CanaryCourse
<1>2. CASE Visiting(key)' /\ ~Visited(key)'
  BY <1>2, RouteUnchanged DEF CanaryCourse
<1>3. CASE ~Visiting(key)'
  BY <1>3, RouteUnchanged DEF CanaryCourse
<1> QED
  BY <1>1, <1>2, <1>3

LEMMA VisitStarts ==
  ASSUME InputsInv, LoopInv, VisitGroup(FeatureParsers), NEW key \in DOMAIN httpRoutes
  PROVE  /\ UNCHANGED <<inputs, httpRoutes, step>> /\ newRules' = <<>> /\ ~Visiting(key)
         /\ Visiting(key)' => i' = 1
         /\ Visited(key)' <=> Visited(key)
<1>1. group = Nothing /\ UNCHANGED <<inputs, httpRoutes, step>> /\ newRules' = <<>>
  BY DEF VisitGroup
<1>2. PICK g \in pending :
        /\ pending' = pending \ {g}
        /\ IF ruleGroups[g] \in DOMAIN httpRoutes
           THEN group' = g /\ i' = 1 /\ j' = 1
           ELSE UNCHANGED <<group, i, j>>
  BY DEF VisitGroup
<1>3. g \in DOMAIN ruleGroups /\ ruleGroups' = ruleGroups
  BY <1>1, <1>2 DEF LoopInv, inputs
<1>4. \A h \in DOMAIN ruleGroups : h # group
  BY <1>1, NothingIsNoGroup
<1>5. Visited(key)' <=> Visited(key)
  <2>1. CASE ruleGroups[g] \in DOMAIN httpRoutes
    <3>1. group' = g
      BY <1>2, <2>1
    <3> QED
      BY <1>2, <1>3, <1>4, <3>1 DEF Visited
  <2>2. CASE ruleGroups[g] \notin DOMAIN httpRoutes
    <3>1. group' = group /\ ruleGroups[g] # key
      BY <1>2, <2>2
    <3> QED
      BY <1>2, <1>3, <1>4, <3>1 DEF Visited
  <2> QED
    BY <2>1, <2>2
<1>6. Visiting(key)' => i' = 1
  BY <1>1, <1>2 DEF Visiting
<1> QED
  BY <1>1, <1>5, <1>6 DEF Visiting

LEMMA StepCourse ==
  ASSUME KeptInv, VisitInv, [FeatureStep]_featureVars, step = 1, step' = 1, errors' = {},
         NEW key \in DOMAIN httpRoutes, CanaryCourse(key, httpRoutes[key].rules)
  PROVE  CanaryCourse(key, httpRoutes[key].rules)'
<1>1. /\ InputsInv /\ LoopInv /\ RoutesInv /\ NewRulesInv /\ (FeatureStep \/ UNCHANGED featureVars)
      /\ step' # Panicked
  BY DEF KeptInv, Panicked
<1>2. UNCHANGED <<ingresses, annotations, pir, ruleGroups>>
  BY <1>1, StepKeepsInputs DEF inputs
<1>3. PICK rules : rules = httpRoutes'[key].rules
  OBVIOUS
<1>4. PICK new : new = newRules'
  OBVIOUS
<1>5. PICK k : k = i'
  OBVIOUS
\* Steps that do not visit this route.
<1>6. ASSUME httpRoutes'[key].rules = httpRoutes[key].rules, Visited(key)' <=> Visited(key),
             \/ ~Visiting(key) /\ ~Visiting(key)'
             \/ (Visiting(key)' <=> Visiting(key)) /\ UNCHANGED <<i, newRules>>
      PROVE  CanaryCourse(key, httpRoutes[key].rules)'
  <2>1. CASE ~Visiting(key) /\ ~Visiting(key)'
    <3>1. IF Visited(key)' THEN DividedRules(key, rules) ELSE PartlyDivided(key, rules, <<>>, 1)
      BY <1>3, <1>6, <2>1 DEF CanaryCourse
    <3> QED
      BY <1>2, <1>3, <1>4, <1>5, <2>1, <3>1, SetCourse
  <2>2. CASE Visiting(key)' /\ Visiting(key)
    <3>1. IF Visited(key)' THEN VisitedAgain(key, rules) ELSE PartlyDivided(key, rules, new, k)
      BY <1>3, <1>4, <1>5, <1>6, <2>2 DEF CanaryCourse
    <3> QED
      BY <1>2, <1>3, <1>4, <1>5, <1>6, <2>2, <3>1, SetCourse DEF VisitedAgain
  <2> QED
    BY <1>6, <2>1, <2>2
<1>7. CASE VisitGroup(FeatureParsers)
  <2>1. /\ rules = httpRoutes[key].rules /\ new = <<>> /\ ~Visiting(key)
        /\ Visiting(key)' => k = 1
        /\ Visited(key)' <=> Visited(key)
    BY <1>1, <1>3, <1>4, <1>5, <1>7, VisitStarts
  <2>2. CASE ~Visiting(key)'
    BY <1>3, <1>6, <2>1, <2>2
  <2>3. CASE Visiting(key)' /\ Visited(key)'
    <3>1. PICK first \in 0..Len(rules) : DividedBehind(key, rules, first)
      BY <2>1, <2>3 DEF CanaryCourse, DividedRules
    <3>2. \A n \in DOMAIN pir[key].rules : ~(n < k)
      <4>1. key \in DOMAIN pir
        BY <1>1 DEF LoopInv
      <4>2. \A n \in DOMAIN pir[key].rules : n \in Nat /\ n # 0
        BY <1>1, <4>1, SourcesOf
      <4> QED
        BY <2>1, <2>3, <4>2
    <3> QED
      BY <1>2, <1>3, <1>4, <1>5, <2>1, <2>3, <3>1, <3>2, SetCourse
  <2>4. CASE Visiting(key)' /\ ~Visited(key)'
    <3>1. PartlyDivided(key, rules, new, k)
      BY <2>1, <2>4 DEF CanaryCourse
    <3> QED
      BY <1>2, <1>3, <1>4, <1>5, <2>4, <3>1, SetCourse
  <2> QED
    BY <2>2, <2>3, <2>4
<1>8. CASE UNCHANGED featureVars
  <2>1. UNCHANGED <<httpRoutes, pending, group, i, newRules>>
    BY <1>8 DEF featureVars, loopVars, localVars
  <2>2. (Visited(key)' <=> Visited(key)) /\ (Visiting(key)' <=> Visiting(key))
    BY <1>2, <2>1 DEF Visited, Visiting, Key
  <2> QED
    BY <1>6, <2>1, <2>2
<1>9. CASE ParseCanaryRule
  <2>1. /\ AtRule({"canary"}) /\ UNCHANGED <<pending, group>> /\ group # Nothing
        /\ Key \in DOMAIN httpRoutes /\ Key \in DOMAIN pir
    BY <1>1, <1>9, CanaryStep, AtRuleFacts, CleanStep
  <2>2. (Visited(key)' <=> Visited(key)) /\ (Visiting(key)' <=> Visiting(key))
    BY <1>2, <2>1 DEF Visited, Visiting, Key
  <2>3. CASE Key # key
    <3>1. httpRoutes'[key] = httpRoutes[key]
      BY <1>1, <1>9, <2>3, CanaryEffect DEF OthersStay
    <3> QED
      BY <1>6, <2>2, <2>3, <3>1 DEF Visiting
  <2>4. CASE Key = key /\ Visited(key)
    <3>1. newRules = <<>> /\ Visiting(key)
      BY <2>1, <2>4 DEF CanaryCourse, VisitedAgain, Visiting
    <3>2. PICK first \in 0..Len(Route.rules) :
            /\ DividedBehind(Key, Route.rules, first)
            /\ first # 0 => \A n \in DOMAIN pir[Key].rules : n < i => CanariesOf(Key, n) = {}
      BY <2>4, <3>1 DEF CanaryCourse, VisitedAgain, Route
    <3>3. first \in Nat
      <4>1. Len(Route.rules) \in Nat
        BY <1>1, <2>1, IsSeqShape DEF RoutesInv, IsRoute, Route
      <4> QED
        BY <3>2, <4>1
    <3>4. /\ httpRoutes'[Key].rules = Route.rules /\ newRules' = <<>>
          /\ first # 0 => \A n \in DOMAIN pir[Key].rules : n < i' => CanariesOf(Key, n) = {}
      BY <1>1, <1>9, <3>1, <3>2, <3>3, NextVisitStep
    <3>5. /\ new = <<>> /\ first \in 0..Len(rules) /\ DividedBehind(key, rules, first)
          /\ first # 0 => \A n \in DOMAIN pir[key].rules : n < k => CanariesOf(key, n) = {}
      BY <1>3, <1>4, <1>5, <2>4, <3>2, <3>4
    <3> QED
      BY <1>2, <1>3, <1>4, <1>5, <2>2, <2>4, <3>1, <3>5, SetCourse
  <2>5. CASE Key = key /\ ~Visited(key)
    <3>1. Visiting(key) /\ PartlyDivided(Key, Route.rules, newRules, i)
      BY <2>1, <2>5 DEF CanaryCourse, Visiting, Route
    <3>2. IsSeq(newRules)
      BY <1>1, <2>1 DEF NewRulesInv, AreHeaderRules
    <3>3. PartlyDivided(Key, httpRoutes'[Key].rules, newRules', i')
      BY <1>1, <1>9, <3>1, <3>2, FirstVisitStep
    <3>4. PartlyDivided(key, rules, new, k)
      BY <1>3, <1>4, <1>5, <2>5, <3>3
    <3> QED
      BY <1>2, <1>3, <1>4, <1>5, <2>2, <2>5, <3>1, <3>4, SetCourse
  <2> QED
    BY <2>3, <2>4, <2>5
<1>10. CASE FinishCanary
  <2>1. /\ RulesDone({"canary"}) /\ Key \in DOMAIN httpRoutes /\ Key \in DOMAIN pir
        /\ httpRoutes'[Key].rules = newRules \o Route.rules
        /\ OthersStay(Key) /\ group # Nothing /\ group' = Nothing /\ UNCHANGED <<pending, newRules>>
    <3>1. /\ RulesDone({"canary"}) /\ Key \in DOMAIN httpRoutes
          /\ httpRoutes'[Key].rules = newRules \o Route.rules /\ OthersStay(Key)
      BY <1>1, <1>10, FinishCanaryEffect
    <3> QED
      BY <1>1, <1>10, <3>1 DEF FinishCanary, LeaveGroup, RulesDone, Running, LoopInv, localVars
  <2>2. ~Visiting(key)'
    BY <2>1 DEF Visiting
  <2>3. CASE Key # key
    <3>1. Visited(key)' <=> Visited(key)
      <4>1. \A h \in DOMAIN ruleGroups : h # Nothing
        BY <1>1, NothingIsNoGroup
      <4> QED
        BY <1>2, <2>1, <2>3, <4>1 DEF Visited, Key
    <3>2. httpRoutes'[key] = httpRoutes[key] /\ ~Visiting(key)
      BY <2>1, <2>3 DEF OthersStay, Visiting
    <3> QED
      BY <1>6, <2>2, <3>1, <3>2
  <2>4. CASE Key = key
    <3>1. Visited(key)' /\ Visiting(key)
      BY <1>1, <1>2, <2>1, <2>4 DEF Visited, Visiting, VisitInv, LoopInv, Key
    <3>2. IsSeq(newRules) /\ IsSeq(Route.rules)
      BY <1>1, <2>1 DEF NewRulesInv, AreHeaderRules, RoutesInv, IsRoute, Route
    <3>3. i \in Nat /\ i > Len(pir[Key].rules)
      <4>1. Len(Sources) = Len(pir[Key].rules)
        <5>1. IsSeq(pir[Key].rules)
          BY <1>1, <2>1, InputsAreProvided DEF Provided, IsProvided
        <5>2. Len(pir[Key].rules) \in Nat /\ DOMAIN pir[Key].rules = 1..Len(pir[Key].rules)
          BY <5>1, IsSeqShape
        <5> DEFINE srcs == [n \in DOMAIN pir[Key].rules |-> pir[Key].rules[n].sources]
        <5>3. DOMAIN srcs = 1..Len(pir[Key].rules) /\ srcs = [n \in 1..Len(pir[Key].rules) |-> srcs[n]]
          BY <5>2
        <5>4. Sources = srcs
          BY DEF Sources
        <5> HIDE DEF srcs
        <5> QED
          BY <5>2, <5>3, <5>4, FunctionIsSeq
      <4> QED
        BY <1>1, <2>1, <4>1 DEF RulesDone, LoopInv
    <3>4. DividedRules(key, rules)
      <4>1. CASE Visited(key)
        <5>1. newRules = <<>> /\ DividedRules(key, Route.rules)
          BY <2>4, <3>1, <4>1 DEF CanaryCourse, VisitedAgain, DividedRules, Route
        <5>2. <<>> \o Route.rules = Route.rules
          BY <3>2, ConcatEmptySeq DEF IsSeq
        <5> QED
          BY <1>3, <2>1, <2>4, <5>1, <5>2
      <4>2. CASE ~Visited(key)
        <5>1. PartlyDivided(Key, Route.rules, newRules, i)
          BY <2>4, <3>1, <4>2 DEF CanaryCourse, Route
        <5> QED
          BY <1>1, <1>3, <2>1, <2>4, <3>2, <3>3, <5>1, FirstVisitEnds DEF DividedRules
      <4> QED
        BY <4>1, <4>2
    <3> QED
      BY <1>2, <1>3, <1>4, <1>5, <2>2, <3>1, <3>4, SetCourse
  <2> QED
    BY <2>3, <2>4
<1>11. ~NextParser(FeatureParsers)
  BY DEF NextParser
<1>12. ~NextRule(PerSource) /\ ~FinishGroup(FeatureParsers \ {"canary", "redirect"}) /\ ~FinishRedirect
       /\ ~ParseFeature /\ ~ParseAuth /\ ~ParseHeaders
  <2>1. ASSUME NEW parsers, "canary" \notin parsers
        PROVE  ~At(parsers)
    <3>1. At({"canary"})
      BY <1>1, AtCanary
    <3> QED
      BY <2>1, <3>1 DEF At
  <2>2. "canary" \notin PerSource /\ "canary" \notin OneFeature
    BY DEF PerSource, OneFeature, Parsers
  <2>3. ~At(PerSource) /\ ~At(FeatureParsers \ {"canary", "redirect"}) /\ ~At({"redirect"})
        /\ ~At(OneFeature) /\ ~At({"auth"}) /\ ~At({"header"})
    BY <2>1, <2>2
  <2> QED
    BY <2>3 DEF NextRule, FinishGroup, FinishRedirect, ParseFeature, ParseAuth, ParseHeaders,
       AtSource, AtRule, RulesDone, Running
<1> QED
  BY <1>1, <1>7, <1>8, <1>9, <1>10, <1>11, <1>12 DEF FeatureStep

\* Only the loop over the parsers takes the program to the next one.
LEMMA StepGoesOn ==
  ASSUME LoopInv, FeatureStep \/ UNCHANGED featureVars, step' # Panicked
  PROVE  step' = step \/ (NextParser(FeatureParsers) /\ step' = step + 1)
<1>1. CASE NextParser(FeatureParsers)
  BY <1>1 DEF NextParser
<1>2. CASE ParseCanaryRule
  BY <1>2, CanaryStep
<1>3. CASE VisitGroup(FeatureParsers) \/ NextRule(PerSource)
  BY <1>3 DEF VisitGroup, NextRule
<1>4. CASE FinishGroup(FeatureParsers \ {"canary", "redirect"}) \/ FinishCanary \/ FinishRedirect
  BY <1>4 DEF FinishGroup, FinishCanary, FinishRedirect
<1>5. CASE ParseFeature \/ ParseHeaders
  BY <1>5 DEF ParseFeature, ParseHeaders, NextSource, Panic
<1>6. CASE ParseAuth
  BY <1>6 DEF ParseAuth, NextSource, Panic
<1>7. CASE UNCHANGED featureVars
  BY <1>7 DEF featureVars, loopVars
<1> QED
  BY <1>1, <1>2, <1>3, <1>4, <1>5, <1>6, <1>7 DEF FeatureStep

\* After its last visit a route has its traffic.
LEMMA CanaryEnds ==
  ASSUME KeptInv, NextParser(FeatureParsers), NEW key \in DOMAIN httpRoutes, Named(key),
         CanaryCourse(key, httpRoutes[key].rules)
  PROVE  Traffic(httpRoutes[key].rules)
<1>1. InputsInv /\ LoopInv /\ RoutesInv /\ group = Nothing /\ pending = {}
  BY DEF KeptInv, NextParser
<1>2. Visited(key) /\ ~Visiting(key)
  BY <1>1, NothingIsNoGroup DEF Named, Visited, Visiting
<1>3. PICK rules : rules = httpRoutes[key].rules
  OBVIOUS
<1>4. DividedRules(key, rules)
  BY <1>2, <1>3 DEF CanaryCourse
<1>5. key \in DOMAIN pir /\ IsSeq(rules)
  BY <1>1, <1>3 DEF LoopInv, RoutesInv, IsRoute
<1> QED
  BY <1>1, <1>3, <1>4, <1>5, TrafficOfDivided

LEMMA StepCanary ==
  ASSUME KeptInv, VisitInv, CanaryInv, [FeatureStep]_featureVars
  PROVE  CanaryInv'
<1> SUFFICES ASSUME errors' = {}, step' # Panicked, NEW key \in DOMAIN httpRoutes'
             PROVE  /\ step' = 1 => CanaryCourse(key, httpRoutes[key].rules)'
                    /\ step' > 1 /\ Named(key)' => Traffic(httpRoutes[key].rules)'
  BY DEF CanaryInv
<1>1. /\ InputsInv /\ LoopInv /\ RoutesInv /\ (FeatureStep \/ UNCHANGED featureVars)
      /\ errors = {} /\ step # Panicked /\ step \in Nat /\ step # 0
  <2>1. InputsInv /\ LoopInv /\ RoutesInv /\ (FeatureStep \/ UNCHANGED featureVars)
    BY DEF KeptInv
  <2> QED
    BY <2>1, ErrorsStay, PanicIsLast, ParsersShape DEF LoopInv, Panicked
<1>2. UNCHANGED <<ingresses, annotations, pir, ruleGroups>> /\ key \in DOMAIN httpRoutes
  BY <1>1, StepKeepsInputs, LoopStep DEF inputs
<1>3. /\ step = 1 => CanaryCourse(key, httpRoutes[key].rules)
      /\ step > 1 /\ Named(key) => Traffic(httpRoutes[key].rules)
  BY <1>1, <1>2 DEF CanaryInv
<1>4. PICK rules : rules = httpRoutes[key].rules
  OBVIOUS
<1>5. PICK new : new = httpRoutes'[key].rules
  OBVIOUS
<1>6. (Named(key)' <=> Named(key)) /\ (Traffic(new)' <=> Traffic(new))
  BY <1>2, RouteUnchanged DEF Named
<1>7. step' = step \/ (NextParser(FeatureParsers) /\ step' = step + 1)
  BY <1>1, StepGoesOn
<1>8. CASE step # 1
  <2>1. step > 1 /\ step' # 1
    BY <1>1, <1>7, <1>8
  <2>2. RulesGoOn(new, rules)
    BY <1>2, <1>4, <1>5, <1>8, RoutesGoOn
  <2>3. IsSeq(rules)
    BY <1>1, <1>2, <1>4 DEF RoutesInv, IsRoute
  <2>4. Named(key) => Traffic(new)
    BY <1>3, <1>4, <2>1, <2>2, <2>3, TrafficGoesOn
  <2> QED
    BY <1>5, <1>6, <2>1, <2>4
<1>9. CASE step = 1 /\ step' = 1
  <2>1. CanaryCourse(key, httpRoutes[key].rules)'
    BY <1>2, <1>3, <1>9, StepCourse
  <2> QED
    BY <1>9, <2>1
<1>10. CASE step = 1 /\ step' # 1
  <2>1. NextParser(FeatureParsers) /\ new = httpRoutes[key].rules
    BY <1>5, <1>7, <1>10 DEF NextParser
  <2>2. Named(key) => Traffic(new)
    BY <1>2, <1>3, <1>10, <2>1, CanaryEnds
  <2> QED
    BY <1>5, <1>6, <1>10, <2>2
<1> QED
  BY <1>8, <1>9, <1>10

LEMMA InitCanary == Init => CanaryInv
<1> SUFFICES ASSUME Init, NEW key \in DOMAIN httpRoutes
             PROVE  /\ step = 1 /\ ~(step > 1)
                    /\ CanaryCourse(key, httpRoutes[key].rules)
  BY DEF CanaryInv
<1>1. /\ step = 1 /\ group = Nothing /\ pending = DOMAIN ruleGroups
      /\ httpRoutes = [k \in DOMAIN pir |-> EmitterRoute(pir[k])]
  BY DEF Init
<1>2. ~Visiting(key) /\ ~Visited(key)
  BY <1>1 DEF Visiting, Visited
<1>3. PICK rules : rules = httpRoutes[key].rules
  OBVIOUS
<1>4. rules = [n \in DOMAIN pir[key].rules |-> EmitterRule(pir[key].rules[n], n)]
  BY <1>1, <1>3 DEF EmitterRoute
<1>5. \A n \in DOMAIN pir[key].rules : ~(n < 1)
  BY <1>1, InitInputs, SourcesOf
<1>6. PartlyDivided(key, rules, <<>>, 1)
  BY <1>4, <1>5 DEF PartlyDivided
<1> QED
  BY <1>1, <1>2, <1>3, <1>6 DEF CanaryCourse

ServedInv == KeptInv /\ VisitInv /\ RoutesComplete /\ CanaryInv

LEMMA ServedInvInductive ==
  /\ Init => ServedInv
  /\ ServedInv /\ [FeatureStep]_featureVars => ServedInv'
<1>1. Init => ServedInv
  BY InitKept, InitLast, InitOnce, InitCanary DEF ServedInv
<1>2. ASSUME ServedInv, [FeatureStep]_featureVars PROVE ServedInv'
  <2>1. KeptInv /\ VisitInv /\ RoutesComplete /\ CanaryInv
    BY <1>2 DEF ServedInv
  <2>2. KeptInv' /\ VisitInv' /\ CanaryInv'
    BY <1>2, <2>1, StepKept, StepVisit, StepCanary
  <2>3. UNCHANGED pir /\ DOMAIN httpRoutes' = DOMAIN httpRoutes
    BY <1>2, <2>1, StepKeepsInputs, LoopStep DEF KeptInv, inputs
  <2>4. RoutesComplete'
    BY <2>1, <2>3 DEF RoutesComplete
  <2> QED
    BY <2>2, <2>4 DEF ServedInv
<1> QED
  BY <1>1, <1>2

\* However the visits of the rule groups are ordered, and whatever the other
\* parsers do to the rules afterwards: when no error was reported, a rule with a
\* canary shares the total between the canary and one other backend, and the
\* rule that sends the canary's header to it has the same path and comes first
\* (canary.go).
THEOREM CanariesGetTheirTraffic == Spec => []CanaryTraffic
<1>1. ServedInv => CanaryTraffic
  <2> SUFFICES ASSUME ServedInv, FeaturesParsed, errors = {},
                      NEW key \in {ruleGroups[g] : g \in DOMAIN ruleGroups},
                      NEW n \in DOMAIN httpRoutes[key].rules
               PROVE  LET rules    == httpRoutes[key].rules
                          rule     == rules[n]
                          weights  == WeightedOf(rule)
                          canaries == CanaryBackends(rule)
                          weight(x) == rule.backends[x].weight[1]
                      IN  IsBase(rule) =>
                            /\ Cardinality(canaries) <= 1
                            /\ weights # {} => canaries # {}
                            /\ \A c \in canaries :
                                 LET config == CanaryConfig(annotations[rule.backends[c].source.ing])
                                 IN  /\ config.weighted =>
                                          /\ weight(c) = config.weight
                                          /\ \E p \in DOMAIN rule.backends \ {c} :
                                               weights = {c, p} /\ weight(c) + weight(p) = config.total
                                     /\ config.header # <<>> =>
                                          \E m \in 1..(n - 1) :
                                            /\ rules[m].path = rule.path
                                            /\ Last(rules[m].headers).name = config.header
                                            /\ BackendSources(rules[m]) = <<rule.backends[c].source>>
    BY Zenon DEF CanaryTraffic, CanaryBackends, WeightedOf
  <2>1. key \in DOMAIN httpRoutes /\ step = 15 /\ step # Panicked /\ step > 1
    BY GroupsAreRoutes DEF ServedInv, KeptInv, RoutesComplete, FeaturesParsed, Conversion, Panicked
  <2>2. Named(key)
    BY DEF Named
  <2>3. Traffic(httpRoutes[key].rules)
    BY <2>1, <2>2 DEF ServedInv, CanaryInv
  <2>4. PICK rules : rules = httpRoutes[key].rules
    OBVIOUS
  <2>5. IsBase(rules[n]) =>
          /\ Cardinality(CanaryBackends(rules[n])) <= 1
          /\ WeightedOf(rules[n]) # {} => CanaryBackends(rules[n]) # {}
          /\ \A c \in CanaryBackends(rules[n]) : CanaryServed(rules, n, c)
    BY <2>3, <2>4 DEF Traffic
  <2>6. ASSUME NEW c, CanaryServed(rules, n, c)
        PROVE  LET rule   == rules[n]
                   config == CanaryConfig(annotations[rule.backends[c].source.ing])
                   weight(x) == rule.backends[x].weight[1]
               IN  /\ config.weighted =>
                        /\ weight(c) = config.weight
                        /\ \E p \in DOMAIN rule.backends \ {c} :
                             WeightedOf(rule) = {c, p} /\ weight(c) + weight(p) = config.total
                   /\ config.header # <<>> =>
                        \E m \in 1..(n - 1) :
                          /\ rules[m].path = rule.path
                          /\ Last(rules[m].headers).name = config.header
                          /\ BackendSources(rules[m]) = <<rule.backends[c].source>>
    BY <2>6, Zenon DEF CanaryServed, IsShared, SendsTo
  <2> QED
    BY <2>4, <2>5, <2>6, Zenon
<1>2. ServedInv /\ [Next]_featureVars => ServedInv'
  BY ServedInvInductive DEF Next, FeaturesEnded
<1> QED
  BY <1>1, <1>2, ServedInvInductive, PTL DEF Spec
================================================================================
