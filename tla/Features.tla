------------------------------- MODULE Features -------------------------------
(***************************************************************************)
(* resourcesToIRConverter.convert of providers/ingressnginx: the provider  *)
(* IR is copied into the emitter IR, and the feature parsers run over it   *)
(* in their order.  Each parser visits the rule groups in any order (they  *)
(* are a Go map) and, for the route of a group, every source of every rule *)
(* of the provider IR; what it finds it writes at the same index of the    *)
(* emitter IR.  This module is the parsers up to affinityFeature; module   *)
(* Conversions adds the two that turn HTTPRoutes into other routes.        *)
(*                                                                         *)
(* Rules, backends and listeners are counted from 1.  A rule remembers     *)
(* which rule of the provider IR it stands for (from), which the code does *)
(* not.  An optional value is a sequence of length 0 or 1.                 *)
(***************************************************************************)
EXTENDS Annotations

CONSTANT AnnotationSets(_)   \* the annotations that each of a set of Ingresses may have

VARIABLES
  ingresses,     \* the Ingresses that were read
  annotations,   \* [Ingress -> annotations]
  pir,           \* ProviderIR.HTTPRoutes
  ruleGroups,    \* GetRuleGroups: [group -> name of its route]
  httpRoutes,    \* EmitterIR.HTTPRoutes
  gateways,      \* EmitterIR.Gateways
  errors,        \* the kinds of errors reported
  step,          \* the running parser: Parsers[step]
  pending,       \* rule groups it has still to visit
  group,         \* the one it is visiting
  i, j,          \* ruleIdx and the index of the source
  newRules,      \* canary: newRulesToPrepend
  appRoot        \* redirect: the Ingress and value of app-root, if any

inputs    == <<ingresses, annotations, pir, ruleGroups>>
loopVars  == <<step, pending, group, i, j>>
localVars == <<newRules, appRoot>>
featureVars == <<inputs, httpRoutes, gateways, errors, loopVars, localVars>>

Parsers ==
  <<"canary", "regex", "rewrite", "redirect", "auth", "ipRange", "rateLimit",
    "proxyBuffer", "header", "cors", "backendTLS", "timeOut", "retry", "affinity",
    "sslPassthrough", "backendProtocol">>

Panicked == 0
Conversion == 15            \* the first parser that is not one of this module
Ended == Len(Parsers) + 1

NN(ing) == [ns |-> ing.ns, name |-> ing.name]

-------------------------------------------------------------------------------
(***************************************************************************)
(* ToEmitterIR                                                             *)
(***************************************************************************)
EmitterRule(r, n) ==
  [from |-> n, path |-> r.match, headers |-> <<>>, filters |-> <<>>,
   backends |-> [x \in DOMAIN r.sources |-> [source |-> r.sources[x], weight |-> <<>>]]]

\* Only the route of a group without a class has no parent.
EmitterRoute(rt) ==
  [ns |-> rt.ns, host |-> rt.host, features |-> EmptyMap,
   parentRefs |-> IF rt.class = <<>> /\ rt.rules[1].match # Nothing
                  THEN <<>> ELSE <<[name |-> rt.class, sectionName |-> <<>>]>>,
   rules |-> [n \in DOMAIN rt.rules |-> EmitterRule(rt.rules[n], n)]]

EmitterGateway(ls) ==
  [features  |-> EmptyMap,
   listeners |-> [n \in DOMAIN ls |->
     [name |-> ls[n].name, host |-> ls[n].host,
      protocol |-> IF ls[n].port = 80 THEN "HTTP" ELSE "HTTPS"]]]

GetRuleGroups(S) ==
  [g \in Groups(S) |-> [ns |-> g.ns, name |-> RouteName(Owner(S, g).name, g.host)]]

Init ==
  /\ ingresses \in {S \in Inputs : ~Panics(S) /\ ~Fails(S)}
  /\ annotations \in [ingresses -> AnnotationSets(ingresses)]
  /\ pir = Routes(ingresses)
  /\ ruleGroups = GetRuleGroups(ingresses)
  /\ httpRoutes = [key \in DOMAIN pir |-> EmitterRoute(pir[key])]
  /\ gateways = LET gws == Gateways(ingresses)
                IN  [g \in DOMAIN gws |-> EmitterGateway(gws[g])]
  /\ errors = {}
  /\ step = 1 /\ pending = DOMAIN ruleGroups /\ group = Nothing /\ i = 1 /\ j = 1
  /\ newRules = <<>> /\ appRoot = <<>>

-------------------------------------------------------------------------------
(***************************************************************************)
(* The loops every parser has                                              *)
(***************************************************************************)
At(parsers)      == step \in DOMAIN Parsers /\ Parsers[step] \in parsers
Running(parsers) == At(parsers) /\ group # Nothing

Key     == ruleGroups[group]
Route   == httpRoutes[Key]
Sources == [n \in DOMAIN pir[Key].rules |-> pir[Key].rules[n].sources]
Source  == Sources[i][j]

\* A parser is at a rule that both IRs have, and at a source of it.
AtRule(parsers)   == Running(parsers) /\ i <= Len(Sources) /\ i <= Len(Route.rules)
AtSource(parsers) == AtRule(parsers) /\ j <= Len(Sources[i])

PerSource == {Parsers[n] : n \in 2..14}

VisitGroup(parsers) ==
  /\ At(parsers) /\ group = Nothing
  /\ \E g \in pending :
       /\ pending' = pending \ {g}
       /\ IF ruleGroups[g] \in DOMAIN httpRoutes
          THEN group' = g /\ i' = 1 /\ j' = 1
          ELSE UNCHANGED <<group, i, j>>
  /\ newRules' = <<>> /\ appRoot' = <<>>
  /\ UNCHANGED <<inputs, httpRoutes, gateways, errors, step>>

NextRule(parsers) ==
  /\ AtRule(parsers) /\ j > Len(Sources[i])
  /\ i' = i + 1 /\ j' = 1
  /\ UNCHANGED <<inputs, httpRoutes, gateways, errors, step, pending, group, localVars>>

\* The provider IR has a rule that the emitter IR no longer has: only once rules
\* have moved to GRPCRoutes.
MissingRule(parsers) ==
  /\ Running(parsers) /\ i <= Len(Sources) /\ i > Len(Route.rules)
  /\ errors' = errors \union {"internal"}
  /\ i' = i + 1
  /\ UNCHANGED <<inputs, httpRoutes, gateways, step, pending, group, j, localVars>>

RulesDone(parsers) == Running(parsers) /\ i > Len(Sources)

LeaveGroup == group' = Nothing /\ i' = 1 /\ j' = 1

FinishGroup(parsers) ==
  /\ RulesDone(parsers)
  /\ LeaveGroup
  /\ UNCHANGED <<inputs, httpRoutes, gateways, errors, step, pending, localVars>>

NextParser(parsers) ==
  /\ At(parsers) /\ group = Nothing /\ pending = {}
  /\ step' = step + 1 /\ pending' = DOMAIN ruleGroups
  /\ UNCHANGED <<inputs, httpRoutes, gateways, errors, group, i, j, localVars>>

NextSource == j' = j + 1 /\ UNCHANGED <<step, pending, group, i>>

Panic == step' = Panicked /\ UNCHANGED <<pending, group, i, j>>

-------------------------------------------------------------------------------
(***************************************************************************)
(* Writing a feature                                                       *)
(***************************************************************************)
\* getOrCreate...IR, the assignments of the parser, and SetSource.
WrittenIR(old, update, ing) ==
  [fields |-> Over(update.fields, old.fields),
   source |-> IF update.keys = {} THEN old.source
              ELSE <<[ingress |-> NN(ing), keys |-> update.keys]>>]

EmptyIR == [fields |-> EmptyMap, source |-> <<>>]

WrittenFirstWins(features, at, update, ing) ==
  IF update = NoUpdate \/ at \in DOMAIN features THEN features
  ELSE Put(features, at, WrittenIR(EmptyIR, update, ing))
Written(features, at, update, ing) ==
  IF update = NoUpdate THEN features
  ELSE Put(features, at,
           WrittenIR(IF at \in DOMAIN features THEN features[at] ELSE EmptyIR, update, ing))

\* The update that the parser of one feature makes for a source.
FeatureUpdate(parser, a, p) ==
  CASE parser = "regex"       -> RegexUpdate(a, p)
    [] parser = "rewrite"     -> RewriteUpdate(a)
    [] parser = "redirect"    -> RedirectUpdate(a)
    [] parser = "ipRange"     -> IpRangeUpdate(a)
    [] parser = "rateLimit"   -> RateLimitUpdate(a)
    [] parser = "proxyBuffer" -> BufferUpdate(a)
    [] parser = "cors"        -> CorsUpdate(a)
    [] parser = "backendTLS"  -> BackendTLSUpdate(a)
    [] parser = "timeOut"     -> TimeoutUpdate(a)
    [] parser = "retry"       -> RetryUpdate(a)
    [] parser = "affinity"    -> AffinityUpdate(a)

OneFeature == PerSource \ {"auth", "header"}

\* The second part of a secret without a "/" is an index out of range.
SecretPanics(parser, a) ==
  /\ parser = "backendTLS"
  /\ Get(a, "proxy-ssl-secret") # <<>> /\ ~IsQualified(Get(a, "proxy-ssl-secret"))

\* Of the values of app-root the first is kept, with the last Ingress that has it.
AppRootAfter(old, ing, val) ==
  IF val = <<>> \/ (old # <<>> /\ old[1].value # val) THEN old
  ELSE <<[ing |-> ing, value |-> val]>>

\* The index of the IR that a source is written to.
SourceIndex == j
RuleIndex == i

ParseFeature ==
  /\ AtSource(OneFeature)
  /\ LET parser == Parsers[step]
         a      == annotations[Source.ing]
     IN  IF SecretPanics(parser, a)
         THEN Panic /\ UNCHANGED <<httpRoutes, appRoot>>
         ELSE /\ httpRoutes' = [httpRoutes EXCEPT ![Key].features =
                   Written(@, <<parser, RuleIndex>>, FeatureUpdate(parser, a, Source), Source.ing)]
              /\ appRoot' = IF parser = "redirect"
                            THEN AppRootAfter(appRoot, Source.ing, Get(a, "app-root"))
                            ELSE appRoot
              /\ NextSource
  /\ UNCHANGED <<inputs, gateways, errors, newRules>>

ParseHeaders ==
  /\ AtSource({"header"})
  /\ httpRoutes' = [httpRoutes EXCEPT
       ![Key].rules[i].filters = @ \o HeaderFilters(annotations[Source.ing])]
  /\ NextSource
  /\ UNCHANGED <<inputs, gateways, errors, localVars>>

-------------------------------------------------------------------------------
(***************************************************************************)
(* authFeature                                                             *)
(***************************************************************************)
\* An auth-type that is not supported, or lacks its secret, hides the other
\* kinds of authentication of the source.
BasicAuthFails(a) ==
  /\ Get(a, "auth-type") # <<>>
  /\ Get(a, "auth-type") # <<"basic">> \/ Get(a, "auth-secret") = <<>>

ParentGateway(rt) == [ns |-> rt.ns, class |-> rt.parentRefs[1].name]

ListenersOfHost(gw, host) ==
  IF gw \notin DOMAIN gateways THEN {}
  ELSE {n \in DOMAIN gateways[gw].listeners : gateways[gw].listeners[n].host = host}
MatchingHTTPSListeners(gw, host) ==
  IF gw \notin DOMAIN gateways THEN {}
  ELSE {n \in DOMAIN gateways[gw].listeners :
          gateways[gw].listeners[n].protocol = "HTTPS" /\ gateways[gw].listeners[n].host = host}

WithMTLS(gw, ns, update, ing) ==
  LET old(n) == IF n \in DOMAIN gateways[gw].features THEN gateways[gw].features[n] ELSE EmptyIR
  IN  [gateways EXCEPT ![gw].features = Over([n \in ns |-> WrittenIR(old(n), update, ing)], @)]

\* Client certificates are a feature of the listeners of the group's host; the
\* listeners of a route without a parent cannot be looked up, and neither a
\* missing one nor a missing Gateway lets the parser go on to auth-url.
ParseAuth ==
  /\ AtSource({"auth"})
  /\ LET ing     == Source.ing
         a       == annotations[ing]
         basic(features) ==
           Written(features, <<"basicAuth", i>>, BasicAuthUpdate(a, ing), ing)
         external(features) ==
           Written(features, <<"externalAuth", i>>, ExternalAuthUpdate(a), ing)
         mtls    == Get(a, "auth-tls-secret")
         gw      == ParentGateway(Route)
         matching == MatchingHTTPSListeners(gw, group.host)
     IN  \/ /\ BasicAuthFails(a)
            /\ NextSource
            /\ UNCHANGED <<httpRoutes, gateways>>
         \/ /\ ~BasicAuthFails(a) /\ mtls = <<>>
            /\ httpRoutes' = [httpRoutes EXCEPT ![Key].features = external(basic(@))]
            /\ NextSource
            /\ UNCHANGED gateways
         \/ /\ ~BasicAuthFails(a) /\ mtls # <<>>
            /\ IF Route.parentRefs = <<>> THEN TRUE ELSE matching # {} /\ ~IsQualified(mtls)
            /\ Panic
            /\ UNCHANGED <<httpRoutes, gateways>>
         \/ /\ ~BasicAuthFails(a) /\ mtls # <<>> /\ Route.parentRefs # <<>> /\ matching = {}
            /\ httpRoutes' = [httpRoutes EXCEPT ![Key].features = basic(@)]
            /\ NextSource
            /\ UNCHANGED gateways
         \/ /\ ~BasicAuthFails(a) /\ mtls # <<>> /\ Route.parentRefs # <<>>
            /\ matching # {} /\ IsQualified(mtls)
            /\ httpRoutes' = [httpRoutes EXCEPT ![Key].features = external(basic(@))]
            /\ gateways' = WithMTLS(gw, matching, MTLSUpdate(a), ing)
            /\ NextSource
  /\ UNCHANGED <<inputs, errors, localVars>>

-------------------------------------------------------------------------------
(***************************************************************************)
(* canaryFeature                                                           *)
(***************************************************************************)
HeaderRule(rule, config, value, backend) ==
  [rule EXCEPT !.headers = Append(@, [name |-> config.header, value |-> value]),
               !.backends = <<backend>>]

\* A canary with a header value gets one rule; without a value "always" means
\* the canary and "never" the production backend.
HeaderRules(rule, config, canary, production) ==
  IF config.header = <<>> THEN <<>>
  ELSE IF config.value # <<>> THEN <<HeaderRule(rule, config, config.value, rule.backends[canary])>>
  ELSE <<HeaderRule(rule, config, <<"always">>, rule.backends[canary]),
         HeaderRule(rule, config, <<"never">>, rule.backends[production])>>

WeightedWhole(rule, config, canary, production) ==
  IF ~config.weighted THEN rule
  ELSE [rule EXCEPT !.backends[canary].weight = <<config.weight>>,
                    !.backends[production].weight = <<config.total>>]
Weighted(rule, config, canary, production) ==
  IF ~config.weighted THEN rule
  ELSE [rule EXCEPT !.backends[canary].weight = <<config.weight>>,
                    !.backends[production].weight = <<config.total - config.weight>>]

CanaryErrors(canaries, valid, others) ==
  {e \in {"canaryConfig"} : \E n \in canaries \ valid : \A m \in valid : n < m}
    \union {e \in {"manyCanaries"} : \E n \in canaries : \E m \in valid : m < n}
    \union {e \in {"manyBackends"} : Cardinality(others) > 1}
    \union {e \in {"noBackend"} : valid # {} /\ others = {}}

\* One rule: the first valid canary among its sources is the canary, and the
\* first other source the production backend.
ParseCanaryRule ==
  /\ AtRule({"canary"})
  /\ LET srcs     == Sources[i]
         rule     == Route.rules[i]
         a(n)     == annotations[srcs[n].ing]
         canaries == {n \in DOMAIN srcs : IsCanary(a(n))}
         valid    == {n \in canaries : ValidCanary(a(n))}
         others   == DOMAIN srcs \ canaries
         config   == CanaryConfig(a(Min(valid)))
     IN  \/ /\ Len(srcs) > Len(rule.backends)
            /\ Panic
            /\ UNCHANGED <<httpRoutes, errors, newRules>>
         \/ /\ Len(srcs) <= Len(rule.backends)
            /\ errors' = errors \union CanaryErrors(canaries, valid, others)
            /\ IF valid = {} \/ others = {} THEN UNCHANGED <<httpRoutes, newRules>>
               ELSE /\ newRules' = newRules \o HeaderRules(rule, config, Min(valid), Min(others))
                    /\ httpRoutes' = [httpRoutes EXCEPT
                         ![Key].rules[i] = Weighted(@, config, Min(valid), Min(others))]
            /\ i' = i + 1
            /\ UNCHANGED <<step, pending, group, j>>
  /\ UNCHANGED <<inputs, gateways, appRoot>>

\* The new rules go in front of the others, whose indices they shift.
WithNewRulesOnly(new, rules) == IF new = <<>> THEN rules ELSE new
WithNewRules(new, rules) == new \o rules

FinishCanary ==
  /\ RulesDone({"canary"})
  /\ httpRoutes' = [httpRoutes EXCEPT ![Key].rules = WithNewRules(newRules, @)]
  /\ LeaveGroup
  /\ UNCHANGED <<inputs, gateways, errors, step, pending, localVars>>

-------------------------------------------------------------------------------
(***************************************************************************)
(* processAppRootRedirect                                                  *)
(***************************************************************************)
RootMatch == [type |-> "Exact", value |-> "/"]

AppRootRule == [from |-> 0, path |-> RootMatch, headers |-> <<>>, filters |-> <<>>, backends |-> <<>>]

\* constructRedirectURL: https if the Ingress asks for TLS for the hostname.
RedirectURL(ing, host, path) ==
  LET secure == \E n \in DOMAIN ing.tls : host \in ToSet(ing.tls[n].hosts)
  IN  <<IF secure THEN "https" ELSE "http", ":", "/", "/">> \o host \o path

\* The first rule that matches exactly "/", or a new last one, redirects to the
\* application's root.
WithAppRoot(rt, root) ==
  LET exact  == {n \in DOMAIN rt.rules : rt.rules[n].path = RootMatch}
      rules  == IF exact = {} THEN Append(rt.rules, AppRootRule) ELSE rt.rules
      target == IF exact = {} THEN Len(rules) ELSE Min(exact)
      update == Update([url |-> RedirectURL(root.ing, rt.host, root.value), statusCode |-> 302],
                       {"app-root"})
  IN  [rt EXCEPT !.rules = rules,
                 !.features = Written(@, <<"redirect", target>>, update, root.ing)]

FinishRedirect ==
  /\ RulesDone({"redirect"})
  /\ httpRoutes' = IF appRoot = <<>> \/ Route.host = <<>> THEN httpRoutes
                   ELSE [httpRoutes EXCEPT ![Key] = WithAppRoot(@, appRoot[1])]
  /\ LeaveGroup
  /\ UNCHANGED <<inputs, gateways, errors, step, pending, localVars>>

-------------------------------------------------------------------------------
FeatureParsers == {Parsers[n] : n \in 1..(Conversion - 1)}

FeatureStep ==
  \/ VisitGroup(FeatureParsers) \/ NextParser(FeatureParsers)
  \/ NextRule(PerSource)
  \/ FinishGroup(FeatureParsers \ {"canary", "redirect"})
  \/ ParseCanaryRule \/ FinishCanary
  \/ ParseFeature \/ FinishRedirect \/ ParseAuth \/ ParseHeaders

FeaturesParsed == step = Conversion

FeaturesEnded == step \in {Panicked, Conversion} /\ UNCHANGED featureVars

Next == FeatureStep \/ FeaturesEnded

Spec == Init /\ [][Next]_featureVars

-------------------------------------------------------------------------------
(***************************************************************************)
(* Invariants                                                              *)
(***************************************************************************)
FeatureNames == OneFeature \union {"basicAuth", "externalAuth"}

IsIR(ir) ==
  /\ ir = [fields |-> ir.fields, source |-> ir.source]
  /\ ir.source = <<>> \/ (Len(ir.source) = 1 /\ ir.source[1].ingress \in {NN(ing) : ing \in ingresses})

\* The emitter IR keeps its shape: a route keeps its name, a rule stands for a
\* rule of the provider IR or for the redirect of app-root, a weight is a
\* natural number, and a feature has a name, an index and an Ingress.
TypeOK ==
  /\ step \in Panicked..Ended /\ i \in Nat \ {0} /\ j \in Nat \ {0}
  /\ pending \subseteq DOMAIN ruleGroups /\ group \in DOMAIN ruleGroups \union {Nothing}
  /\ DOMAIN httpRoutes \subseteq DOMAIN pir
  /\ \A key \in DOMAIN httpRoutes :
       /\ \A n \in DOMAIN httpRoutes[key].rules :
            LET r == httpRoutes[key].rules[n]
            IN  /\ r.from \in {0} \union DOMAIN pir[key].rules
                /\ \A x \in DOMAIN r.backends :
                     r.backends[x].weight \in Seq(Nat) /\ Len(r.backends[x].weight) <= 1
       /\ \A at \in DOMAIN httpRoutes[key].features :
            /\ at[1] \in FeatureNames /\ at[2] \in Nat \ {0}
            /\ IsIR(httpRoutes[key].features[at])
  /\ \A g \in DOMAIN gateways : \A n \in DOMAIN gateways[g].features : IsIR(gateways[g].features[n])

SourceIngresses(key, n) == {NN(p.ing) : p \in ToSet(pir[key].rules[n].sources)}

\* "The inner map key is the rule index": a feature of the emitter IR is at the
\* index of a rule that one of its Ingress's backends belongs to.  The redirect
\* of app-root concerns the whole host and may be at a rule of its own.
FeaturesAtTheirRules ==
  \A key \in DOMAIN httpRoutes : \A at \in DOMAIN httpRoutes[key].features :
    LET rt == httpRoutes[key]
        ir == rt.features[at]
    IN  (ir.source # <<>> /\ ir.source[1].keys # {"app-root"}) =>
          /\ at[2] \in DOMAIN rt.rules
          /\ rt.rules[at[2]].from # 0
          /\ ir.source[1].ingress \in SourceIngresses(key, rt.rules[at[2]].from)

\* "The inner map key is the listener index": a feature of a Gateway, which is a
\* client certificate, is at the index of a listener that ends TLS, for the host
\* of a rule group whose route belongs to that Gateway and has a path of the
\* Ingress that asked for it.
ListenerFeaturesAtHTTPS ==
  \A gw \in DOMAIN gateways : \A n \in DOMAIN gateways[gw].features :
    LET ls  == gateways[gw].listeners
        ing == gateways[gw].features[n].source[1].ingress
    IN  /\ n \in DOMAIN ls
        /\ ls[n].protocol = "HTTPS"
        /\ \E g \in DOMAIN ruleGroups :
             LET rt == pir[ruleGroups[g]]
             IN  /\ g.host = ls[n].host /\ gw = GatewayOf(rt)
                 /\ \E m \in DOMAIN rt.rules : ing \in SourceIngresses(ruleGroups[g], m)

\* What the sources of rule n of the route key make of feature f: every field is
\* the one assigned by the last source that assigns it.
LastWritten(key, f, n) ==
  LET srcs    == pir[key].rules[n].sources
      update(x) == FeatureUpdate(f, annotations[srcs[x].ing], srcs[x])
      writers == {x \in DOMAIN srcs : update(x) # NoUpdate}
      fields  == UNION {DOMAIN update(x).fields : x \in writers}
      setting(y) == {x \in writers : y \in DOMAIN update(x).fields}
      named   == {x \in writers : update(x).keys # {}}
  IN  IF writers = {} THEN {}
      ELSE {[fields |-> [y \in fields |-> update(Max(setting(y))).fields[y]],
             source |-> IF named = {} THEN <<>>
                        ELSE <<[ingress |-> NN(srcs[Max(named)].ing),
                                keys |-> update(Max(named)).keys]>>]}

HasAppRoot(key) ==
  \E n \in DOMAIN pir[key].rules : \E p \in ToSet(pir[key].rules[n].sources) :
    Get(annotations[p.ing], "app-root") # <<>>

\* The features are a function of the provider IR and the annotations, whatever
\* order the rule groups are visited in and however many of them share a route:
\* for each rule index, the last source wins field by field.  A route that no
\* group names, as that of a default backend, has none.
FeaturesAreLastWritten ==
  FeaturesParsed =>
    \A key \in DOMAIN httpRoutes :
      \A f \in {x \in OneFeature : x # "redirect" \/ ~HasAppRoot(key)} :
        \A n \in DOMAIN pir[key].rules :
          LET features == httpRoutes[key].features
              written  == {features[at] : at \in {<<f, n>>} \cap DOMAIN features}
          IN  written = IF key \in {ruleGroups[g] : g \in DOMAIN ruleGroups}
                        THEN LastWritten(key, f, n) ELSE {}

\* One rule group names the route.
OneGroup(key) ==
  \E g \in DOMAIN ruleGroups : \A h \in DOMAIN ruleGroups : ruleGroups[h] = key <=> h = g

IsBase(rule) == rule.headers = <<>> /\ rule.from # 0

\* The filters that a rule has, and the sources that ask for one.
HeaderTypes == {"x-forwarded-prefix", "upstream-vhost"}
FiltersOf(rule, type) == {x \in DOMAIN rule.filters : rule.filters[x].type = type}
AskingSources(rule, type) ==
  {x \in DOMAIN rule.sources : Get(annotations[rule.sources[x].ing], type) # <<>>}

\* In a route that one rule group names, each source with the annotation adds
\* its header filter exactly once: no filter is lost or added again, although
\* rules for headers and for app-root are put around those of the sources, and
\* where there are no rules for headers it is the rule of the source that has
\* it.  (Behind rules for headers it may be another one, as a feature may:
\* parsers go by the index that a rule has in the provider IR.)
FiltersOnce ==
  FeaturesParsed =>
    \A key \in {ruleGroups[g] : g \in DOMAIN ruleGroups} : \A type \in HeaderTypes :
      LET rules    == httpRoutes[key].rules
          provided == pir[key].rules
      IN  OneGroup(key) =>
            /\ Cardinality(UNION {{n} \X FiltersOf(rules[n], type) : n \in DOMAIN rules})
                 = Cardinality(UNION {{n} \X AskingSources(provided[n], type) : n \in DOMAIN provided})
            /\ (\A n \in DOMAIN rules : rules[n].headers = <<>>) =>
                 \A n \in DOMAIN rules : IsBase(rules[n]) =>
                   Cardinality(FiltersOf(rules[n], type))
                     = Cardinality(AskingSources(provided[rules[n].from], type))

BackendSources(rule) == [x \in DOMAIN rule.backends |-> rule.backends[x].source]

\* The rules of the provider IR are the base rules, one after the other, behind
\* the first few.
BaseRulesBehind(rules, first, provided) ==
  /\ \A n \in DOMAIN rules : IsBase(rules[n]) <=> n - first \in DOMAIN provided
  /\ \A n \in DOMAIN provided :
       /\ first + n \in DOMAIN rules
       /\ rules[first + n].from = n
       /\ BackendSources(rules[first + n]) = provided[n].sources

\* Parsers add rules and never lose, reorder or repeat one: between rules for
\* headers and that for app-root a route has the rules of the provider IR.
RulesKept ==
  \A key \in DOMAIN httpRoutes :
    \E first \in 0..Len(httpRoutes[key].rules) :
      BaseRulesBehind(httpRoutes[key].rules, first, pir[key].rules)

\* When no error was reported, a rule with a canary among its sources sends the
\* canary its weight and the production backend the rest of the total, and if
\* the canary has a header an earlier rule with the same path sends that header
\* to the canary alone.  No other rule has weights.
CanaryTraffic ==
  (FeaturesParsed /\ errors = {}) =>
    \A key \in {ruleGroups[g] : g \in DOMAIN ruleGroups} : \A n \in DOMAIN httpRoutes[key].rules :
      LET rules    == httpRoutes[key].rules
          rule     == rules[n]
          weights  == {x \in DOMAIN rule.backends : rule.backends[x].weight # <<>>}
          canaries == {x \in DOMAIN rule.backends :
                         IsCanary(annotations[rule.backends[x].source.ing])}
          weight(x) == rule.backends[x].weight[1]
      IN  IsBase(rule) =>
            /\ Cardinality(canaries) <= 1
            /\ weights # {} => canaries # {}
            /\ \A c \in canaries :
                 LET config == CanaryConfig(annotations[rule.backends[c].source.ing])
                 IN  /\ config.weighted =>
                          /\ weight(c) = config.weight
                          /\ \E p \in DOMAIN rule.backends \ {c} :
                               weights = {c, p} /\ weight(c) + weight(p) = config.total
                     /\ config.header # <<>> =>
                          \E m \in 1..(n - 1) :
                            /\ rules[m].path = rule.path
                            /\ Last(rules[m].headers).name = config.header
                            /\ BackendSources(rules[m]) = <<rule.backends[c].source>>
===============================================================================
