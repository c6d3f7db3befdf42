----------------------------- MODULE EnvoyEmitter -----------------------------
(***************************************************************************)
(* Emitter.Emit of emitters/envoygateway, with the check for features that *)
(* were not converted that follows it in ToGatewayAPIResources.  The       *)
(* emitter makes one pass after another over the maps of the emitter IR;   *)
(* a pass visits its resources in any order, merges a feature of the       *)
(* resource, and converts its IRs in any order.  All passes write to the   *)
(* same routes and to the same policies and Backends of the builder.       *)
(*                                                                         *)
(* The IR and the Gateway resources share their rules and features, as     *)
(* they share slices and maps in the code; ir keeps what was loaded.  A    *)
(* rule remembers which rule it was (from).  An optional value is a        *)
(* sequence of length 0 or 1, and 0 is the port that is not set.           *)
(***************************************************************************)
EXTENDS EmitterIR, Names, SequencesExt

CONSTANTS
  EmitterIRs,   \* the emitter IRs a run may have: [resource key -> resource]
  Quantities    \* the sizes that resource.MustParse accepts

OfRoutePolicies == {"basicAuth", "externalAuth", "ipRange", "rateLimit", "proxyBuffer", "cors",
                    "timeOut", "retry", "affinity"}
MergedFeatures  == OfRoutePolicies \union {"backendTLS"}
Features        == MergedFeatures \union {"regex", "rewrite", "redirect", "mTLS"}

\* Client certificates are features of Gateways, and a GRPCRoute has taken
\* nothing but backendTLS from the HTTPRoute it was split from.
FeaturesOfKind(kind) ==
  CASE kind = "Gateway"   -> {"mTLS"}
    [] kind = "GRPCRoute" -> {"backendTLS"}
    [] kind = "HTTPRoute" -> Features \ {"mTLS"}

IsMap(map) == map = [k \in DOMAIN map |-> map[k]]

IsList(list) == Len(list) \in Nat /\ list = [n \in 1..Len(list) |-> list[n]]

\* Rules and listeners are lists of records that have a name, which may be empty,
\* and a resource has features at pairs of a name and an index.
IsSections(list) == IsList(list) /\ \A n \in DOMAIN list : "name" \in DOMAIN list[n]

\* Only references to Services have ports, and weights are not negative.
IsBackendRef(ref) ==
  /\ {"kind", "name", "port", "weight"} = DOMAIN ref
  /\ ref.kind # "Service" => ref.port = 0
  /\ ref.weight # <<>> => ref.weight[1] \in Nat

IsRule(rule) ==
  /\ {"name", "path", "filters", "backends"} \subseteq DOMAIN rule
  /\ "type" \in DOMAIN rule.path /\ IsList(rule.filters) /\ IsList(rule.backends)
  /\ \A n \in DOMAIN rule.backends : IsBackendRef(rule.backends[n])

IsResource(key, r) ==
  /\ key.kind \in {"HTTPRoute", "GRPCRoute", "Gateway"}
  /\ DOMAIN r = {"features"} \union IF key.kind = "Gateway" THEN {"class", "listeners"}
                                    ELSE {"parentRefs", "rules"}
  /\ IsSections(IF key.kind = "Gateway" THEN r.listeners ELSE r.rules)
  /\ key.kind # "Gateway" => \A n \in DOMAIN r.rules : IsRule(r.rules[n])
  /\ DOMAIN r.features \subseteq FeaturesOfKind(key.kind) \X Nat
  /\ \A at \in DOMAIN r.features : IsMap(r.features[at].fields)

ASSUME EmitterIRsAssumption ==
  \A x \in EmitterIRs : \A key \in DOMAIN x : IsResource(key, x[key])

VARIABLES
  ir,           \* the emitter IR as it was loaded
  resources,    \* HTTPRoutes, GRPCRoutes and Gateways: [kind, ns, name] -> resource
  policies,     \* the builder's policies: <<kind, ns, name>> -> [target, section, spec]
  backends,     \* the builder's Backends: <<ns, name>> -> [service, ns, port, tls]
  extensions,   \* HTTPRouteFilters
  grants,       \* ReferenceGrants: <<ns, name>> -> [from, fromNs, secret]
  parsed,       \* the ids of the IRs that are parsed
  reported,     \* <<resource key, feature, index>> of every error or warning
  pass,         \* the running pass: Passes[pass]
  pending,      \* the resources it has still to visit
  current,      \* the one it is visiting
  todo          \* the indices of the feature it has still to convert there

outputs == <<policies, backends, extensions, grants>>
loop    == <<pass, pending, current, todo>>
vars    == <<ir, resources, outputs, parsed, reported, loop>>

\* ToGatewayResources, ToEnvoyGatewayResources, sortGatewayResources and
\* checkConvertExtensionFeatures.
Passes ==
  <<<<"duplicates", "HTTPRoute">>, <<"regex", "HTTPRoute">>, <<"rewrite", "HTTPRoute">>,
    <<"redirect", "HTTPRoute">>, <<"basicAuth", "HTTPRoute">>, <<"mTLS", "Gateway">>,
    <<"externalAuth", "HTTPRoute">>, <<"ipRange", "HTTPRoute">>, <<"rateLimit", "HTTPRoute">>,
    <<"proxyBuffer", "HTTPRoute">>, <<"cors", "HTTPRoute">>, <<"backendTLS", "HTTPRoute">>,
    <<"backendTLS", "GRPCRoute">>, <<"timeOut", "HTTPRoute">>, <<"retry", "HTTPRoute">>,
    <<"affinity", "HTTPRoute">>,
    <<"sort", "Gateway">>, <<"sort", "HTTPRoute">>, <<"sort", "GRPCRoute">>,
    <<"check", "HTTPRoute">>>>

Panicked == 0
Ended    == Len(Passes) + 1

KeysOf(map, n) ==
  IF n \in DOMAIN Passes THEN {key \in DOMAIN map : key.kind = Passes[n][2]} ELSE {}

Size(resource) == Len(IF "rules" \in DOMAIN resource THEN resource.rules ELSE resource.listeners)

WithFrom(rules) == [n \in DOMAIN rules |-> Put(rules[n], "from", n)]

\* UpdateGatewayClass gives every Gateway the class of Envoy Gateway.
Loaded(key, resource) ==
  IF key.kind = "Gateway" THEN [resource EXCEPT !.class = <<"eg">>]
  ELSE [resource EXCEPT !.rules = WithFrom(@)]

Init ==
  /\ ir \in EmitterIRs
  /\ resources = [key \in DOMAIN ir |-> Loaded(key, ir[key])]
  /\ policies = EmptyMap /\ backends = EmptyMap /\ extensions = {} /\ grants = EmptyMap
  /\ parsed = {} /\ reported = {}
  /\ pass = 1 /\ pending = KeysOf(ir, 1) /\ current = Nothing /\ todo = {}

-------------------------------------------------------------------------------
(***************************************************************************)
(* The loops                                                               *)
(***************************************************************************)
At(features) == pass \in DOMAIN Passes /\ Passes[pass][1] \in features
Feature      == Passes[pass][1]

NextPass ==
  /\ pass \in DOMAIN Passes /\ pending = {} /\ todo = {}
  /\ pass' = pass + 1 /\ pending' = KeysOf(resources, pass + 1) /\ current' = Nothing
  /\ UNCHANGED <<ir, resources, outputs, parsed, reported, todo>>

VisitResource ==
  /\ At(Features) /\ todo = {}
  /\ \E key \in pending :
       \E features \in IF Feature \in MergedFeatures
                       THEN MergeExtensionFeature(resources[key].features, Feature, Size(resources[key]))
                       ELSE {resources[key].features} :
         /\ resources' = [resources EXCEPT ![key].features = features]
         /\ pending' = pending \ {key}
         /\ current' = key
         /\ todo' = IndicesOf(features, Feature)
  /\ UNCHANGED <<ir, outputs, parsed, reported, pass>>

Resource == resources[current]
IR(idx)  == Resource.features[<<Feature, idx>>]

\* An index that is to be converted.  Converting, or reporting why not, reads
\* the Ingress of the IR.
Emits(features, idx) == At(features) /\ idx \in todo /\ IR(idx).id \notin parsed

AlreadyParsed ==
  /\ At(Features)
  /\ \E idx \in todo : IR(idx).id \in parsed /\ todo' = todo \ {idx}
  /\ UNCHANGED <<ir, resources, outputs, parsed, reported, pass, pending, current>>

Unsourced(idx) == IR(idx).source = <<>>

Finish(idx) == todo' = todo \ {idx} /\ UNCHANGED <<pass, pending, current>>

Succeed(idx) == Finish(idx) /\ parsed' = parsed \union {IR(idx).id}
Skip(idx)    == Finish(idx) /\ UNCHANGED parsed

Report(idx) == reported' = reported \union {<<current, Feature, idx>>}

Panic == pass' = Panicked /\ UNCHANGED <<pending, current, todo>>

-------------------------------------------------------------------------------
(***************************************************************************)
(* removeBackendRefsDuplicates                                             *)
(***************************************************************************)
RefKeyOfService(ref) == <<ref.kind, ref.name>>
RefKey(ref) == <<ref.kind, ref.name, ref.port>>

\* The weights of the references at these places.
SumOfWeights(refs, at) ==
  LET sum[n \in 0..Len(refs)] ==
        IF n = 0 THEN 0 ELSE sum[n - 1] + IF n \in at THEN refs[n].weight[1] ELSE 0
  IN  sum[Len(refs)]

\* A reference without a weight adds nothing, and the first one without a
\* weight stays so.
UniqueBackendRef(refs, key) ==
  LET same     == {n \in DOMAIN refs : RefKey(refs[n]) = key}
      weighted == {n \in same : refs[n].weight # <<>>}
  IN  [refs[Min(same)] EXCEPT !.weight = IF @ = <<>> THEN @ ELSE <<SumOfWeights(refs, weighted)>>]

\* The lists the map of unique references can be turned into.
UniqueBackendRefs(refs) ==
  SetToSeqs({UniqueBackendRef(refs, key) : key \in {RefKey(ref) : ref \in ToSet(refs)}})

\* The rules with lists of backends that can come from theirs.
WithBackends(rules, Lists(_)) ==
  {[n \in DOMAIN rules |-> [rules[n] EXCEPT !.backends = lists[n]]] :
     lists \in {c \in [DOMAIN rules -> UNION {Lists(rule.backends) : rule \in ToSet(rules)}] :
                  \A n \in DOMAIN rules : c[n] \in Lists(rules[n].backends)}}

RemoveBackendRefsDuplicates ==
  /\ At({"duplicates"})
  /\ \E key \in pending :
       /\ \E rules \in WithBackends(resources[key].rules, UniqueBackendRefs) :
            resources' = [resources EXCEPT ![key].rules = rules]
       /\ pending' = pending \ {key}
  /\ UNCHANGED <<ir, outputs, parsed, reported, pass, current, todo>>

-------------------------------------------------------------------------------
(***************************************************************************)
(* Regular expressions, rewrites and redirects: filters of a rule          *)
(***************************************************************************)
\* Rules[idx] is out of range.
NoRule(idx) == idx \notin DOMAIN Resource.rules

\* "<name>-<idx>", with Go's index.
Numbered(name, idx) == name \o <<"-", ToString(idx - 1)>>

EmitRegex ==
  \E idx \in todo :
    /\ Emits({"regex"}, idx)
    /\ IF NoRule(idx) \/ Unsourced(idx) THEN Panic /\ UNCHANGED <<resources, parsed>>
       ELSE /\ resources' = [resources EXCEPT ![current].rules[idx].path.type = "RegularExpression"]
            /\ Succeed(idx)
    /\ UNCHANGED <<ir, outputs, reported>>

\* convertNginxSubstitutionToEnvoy: "$1" becomes "\1".
Substitution(target) ==
  [n \in DOMAIN target |->
     IF target[n] = "$" /\ n < Len(target) /\ target[n + 1] \in {"0", "1", "2"} THEN "\\" ELSE target[n]]

HTTPRouteFilterOf(idx, pattern) ==
  [ns |-> current.ns, name |-> Numbered(current.name, idx),
   pattern |-> <<"^">> \o pattern \o <<"$">>, substitution |-> Substitution(IR(idx).fields.target)]

WithFilter(rule, filter) == [rule EXCEPT !.filters = Append(@, filter)]

RootPath == [type |-> "PathPrefix", value |-> <<"/">>]

\* With a regular expression the rule refers to an HTTPRouteFilter, which needs
\* the pattern.
EmitRewrite ==
  \E idx \in todo :
    LET regex   == <<"regex", idx>>
        ofRegex == regex \in DOMAIN Resource.features
        pattern == IF ofRegex /\ "pathPattern" \in DOMAIN Resource.features[regex].fields
                   THEN Resource.features[regex].fields.pathPattern ELSE <<>>
        filter  == HTTPRouteFilterOf(idx, pattern)
    IN  /\ Emits({"rewrite"}, idx)
        /\ \/ /\ Unsourced(idx) \/ (NoRule(idx) /\ (~ofRegex \/ pattern # <<>>))
              /\ Panic
              /\ UNCHANGED <<resources, extensions, parsed, reported>>
           \/ /\ ~Unsourced(idx) /\ ofRegex /\ pattern = <<>>
              /\ Report(idx)
              /\ Skip(idx)
              /\ UNCHANGED <<resources, extensions>>
           \/ /\ ~Unsourced(idx) /\ ~NoRule(idx) /\ ofRegex /\ pattern # <<>>
              /\ extensions' = extensions \union {filter}
              /\ resources' = [resources EXCEPT ![current].rules[idx] =
                   WithFilter([@ EXCEPT !.path = RootPath], [type |-> "ExtensionRef", name |-> filter.name])]
              /\ Succeed(idx)
              /\ UNCHANGED reported
           \/ /\ ~Unsourced(idx) /\ ~NoRule(idx) /\ ~ofRegex
              /\ resources' = [resources EXCEPT ![current].rules[idx] =
                   WithFilter(@, [type |-> "URLRewrite", path |-> IR(idx).fields.target])]
              /\ Succeed(idx)
              /\ UNCHANGED <<extensions, reported>>
        /\ UNCHANGED <<ir, policies, backends, grants>>

\* The Gateway of the first parent; the one that does not exist has no listener.
HasHTTPSListener(ns, route) ==
  LET key == [kind |-> "Gateway", ns |-> ns, name |-> route.parentRefs[1]]
  IN  key \in DOMAIN resources
        /\ \E n \in DOMAIN resources[key].listeners : resources[key].listeners[n].protocol = "HTTPS"

SslRedirects(fields, ns, route) ==
  "force" \in DOMAIN fields /\ (fields.force \/ HasHTTPSListener(ns, route))

SslRedirectFilter == [type |-> "RequestRedirect", scheme |-> "https", statusCode |-> 301]

\* A URL is what url.Parse makes of it; parses also stands for its port.
IsRedirectURL(url) == url.parses /\ url.scheme # "" /\ url.host # <<>>

RedirectFilter(fields) ==
  LET url == fields.url
  IN  [type |-> "RequestRedirect", scheme |-> url.scheme, statusCode |-> fields.statusCode,
       hostname |-> url.host, port |-> url.port,
       path |-> IF url.path = <<"/">> THEN <<>> ELSE url.path]

RedirectFilters(fields) ==
  (IF SslRedirects(fields, current.ns, Resource) THEN <<SslRedirectFilter>> ELSE <<>>)
    \o IF "url" \in DOMAIN fields /\ IsRedirectURL(fields.url) THEN <<RedirectFilter(fields)>> ELSE <<>>

\* A URL that cannot be used is reported, and the IR is parsed nevertheless.
EmitRedirect ==
  \E idx \in todo :
    LET fields  == IR(idx).fields
        orphan  == Resource.parentRefs = <<>>
        filters == RedirectFilters(fields)
    IN  /\ Emits({"redirect"}, idx)
        /\ \/ /\ Unsourced(idx) \/ (~orphan /\ filters # <<>> /\ NoRule(idx))
              /\ Panic
              /\ UNCHANGED <<resources, parsed, reported>>
           \/ /\ ~Unsourced(idx) /\ orphan
              /\ Report(idx)
              /\ Skip(idx)
              /\ UNCHANGED resources
           \/ /\ ~Unsourced(idx) /\ ~orphan /\ (filters = <<>> \/ ~NoRule(idx))
              /\ resources' = IF filters = <<>> THEN resources
                              ELSE [resources EXCEPT ![current].rules[idx].filters = @ \o filters]
              /\ IF "url" \in DOMAIN fields /\ ~IsRedirectURL(fields.url)
                 THEN Report(idx) ELSE UNCHANGED reported
              /\ Succeed(idx)
        /\ UNCHANGED <<ir, outputs>>

-------------------------------------------------------------------------------
(***************************************************************************)
(* Policies                                                                *)
(***************************************************************************)
KindOfPolicyMixedUp(f) ==
  CASE f \in {"basicAuth", "externalAuth", "ipRange", "cors", "retry"}    -> "SecurityPolicy"
    [] f \in {"rateLimit", "proxyBuffer", "timeOut", "affinity"}          -> "BackendTrafficPolicy"
    [] f = "mTLS"                                                         -> "ClientTrafficPolicy"
KindOfPolicy(f) ==
  CASE f \in {"basicAuth", "externalAuth", "ipRange", "cors"}             -> "SecurityPolicy"
    [] f \in {"rateLimit", "proxyBuffer", "timeOut", "retry", "affinity"} -> "BackendTrafficPolicy"
    [] f = "mTLS"                                                         -> "ClientTrafficPolicy"

PolicyName(name, idx) == IF idx = RouteRuleAllIndex THEN name ELSE Numbered(name, idx)

PolicyKey(f, idx) == <<KindOfPolicy(f), current.ns, PolicyName(current.name, idx)>>

\* The section is the rule or listener with the index; an index that is out of
\* range, like the one for all, names none.
Section(idx) ==
  LET sections == IF current.kind = "Gateway" THEN Resource.listeners ELSE Resource.rules
  IN  IF idx \in DOMAIN sections THEN sections[idx].name ELSE <<>>

\* getOrBuildSecurityPolicy and its likes.
GetOrBuild(key, idx) ==
  IF key \in DOMAIN policies THEN policies[key]
  ELSE [target |-> current, section |-> Section(idx), spec |-> EmptyMap]

\* parseK8sServiceURL: the service, or nothing if the host is not one.  A URL
\* without a host gives a service without a name.
K8sService(host, ns) ==
  LET n     == Len(host)
      local == n >= 4 /\ SubSeq(host, n - 2, n) = <<<<"svc">>, <<"cluster">>, <<"local">>>>
      svc   == n >= 2 /\ host[n] = <<"svc">>
  IN  IF (local /\ n >= 5) \/ (svc /\ n >= 3) \/ (n = 2 /\ ~svc)
      THEN {[name |-> host[1], ns |-> host[2]]}
      ELSE IF n <= 1 THEN {[name |-> IF n = 0 THEN <<>> ELSE host[1], ns |-> ns]}
      ELSE {}

DefaultPort(url) == IF url.port # 0 THEN url.port ELSE IF url.scheme = "https" THEN 443 ELSE 80

ServicesOfURL(url, ns) == IF url.parses THEN K8sService(url.host, ns) ELSE {}

StatusTriggers == {"http_500", "http_502", "http_503", "http_504", "http_429"}
RetryTriggers  == {"error", "timeout", "http_403", "http_404"} \union StatusTriggers

\* convertRetryTriggersToEnvoy
RetryOn(triggers) ==
  [triggers |->
     UNION {CASE t = "error"           -> {"connect-failure", "reset-before-request", "refused-stream"}
              [] t = "timeout"         -> {"connect-failure", "reset"}
              [] t \in StatusTriggers  -> {"retriable-status-codes"}
              [] OTHER                 -> {} : t \in triggers},
   statusCodes |-> triggers \cap StatusTriggers]

\* The error that leaves an IR unconverted.
Fails(f, fields, ns) ==
  \/ f = "externalAuth" /\ ServicesOfURL(fields.url, ns) = {}
  \/ f = "retry" /\ ~(fields.triggers \subseteq RetryTriggers)

\* What a pass makes of the policy's setting, which is EmptyMap before the first.
Setting(f, fields, ns, old) ==
  CASE f = "externalAuth" ->
         [backend |-> CHOOSE s \in ServicesOfURL(fields.url, ns) : TRUE,
          port |-> DefaultPort(fields.url), path |-> fields.url.path,
          headers |-> IF "allowedResponseHeaders" \in DOMAIN fields
                      THEN fields.allowedResponseHeaders ELSE {}]
    [] f = "ipRange" ->
         IF "denyList" \in DOMAIN fields
         THEN [default |-> "Allow", action |-> "Deny", cidrs |-> fields.denyList]
         ELSE [default |-> "Deny", action |-> "Allow", cidrs |-> fields.allowList]
    [] f \in {"rateLimit", "mTLS"} -> IF old = EmptyMap THEN <<fields>> ELSE Append(old, fields)
    [] f = "cors" -> Over(fields, old)
    [] f = "retry" ->
         Over([retryOn |-> RetryOn(fields.triggers)],
              Over(IF "count" \in DOMAIN fields THEN [numRetries |-> fields.count - 1] ELSE EmptyMap, old))
    [] OTHER -> fields

SettingOf(policy, f) == IF f \in DOMAIN policy.spec THEN policy.spec[f] ELSE EmptyMap

WithSetting(policy, f, setting) == [policy EXCEPT !.spec = Put(@, f, setting)]

\* Retry creates its setting before it looks at the triggers.
EmitPolicy ==
  \E idx \in todo :
    LET fields == IR(idx).fields
        key    == PolicyKey(Feature, idx)
        policy == GetOrBuild(key, idx)
        old    == SettingOf(policy, Feature)
    IN  /\ Emits(OfRoutePolicies, idx)
        /\ \/ /\ Unsourced(idx) \/ (Feature = "proxyBuffer" /\ fields.limitValue \notin Quantities)
              /\ Panic
              /\ UNCHANGED <<policies, parsed, reported>>
           \/ /\ ~Unsourced(idx) /\ Fails(Feature, fields, current.ns)
              /\ policies' = IF Feature = "retry"
                             THEN Put(policies, key, WithSetting(policy, Feature, old))
                             ELSE policies
              /\ Report(idx)
              /\ Skip(idx)
           \/ /\ ~Unsourced(idx) /\ ~Fails(Feature, fields, current.ns)
              /\ Feature = "proxyBuffer" => fields.limitValue \in Quantities
              /\ policies' = Put(policies, key,
                   WithSetting(policy, Feature, Setting(Feature, fields, current.ns, old)))
              /\ Succeed(idx)
              /\ UNCHANGED reported
        /\ UNCHANGED <<ir, resources, backends, extensions, grants>>

GrantKeyOfNamespace(policyName, fields) == <<fields.namespace, <<"mtls">>>>
\* A secret of another namespace gets a grant there, named after the policy.
GrantKey(policyName, fields) == <<fields.namespace, policyName \o <<"-", "mtls">>>>

EmitMTLS ==
  \E idx \in todo :
    LET fields == IR(idx).fields
        key    == PolicyKey("mTLS", idx)
        policy == GetOrBuild(key, idx)
        grant  == [from |-> "SecurityPolicy", fromNs |-> current.ns, secret |-> fields.name]
    IN  /\ Emits({"mTLS"}, idx)
        /\ IF Unsourced(idx) THEN Panic /\ UNCHANGED <<policies, grants, parsed>>
           ELSE /\ policies' = Put(policies, key,
                     WithSetting(policy, "mTLS", Setting("mTLS", fields, current.ns, SettingOf(policy, "mTLS"))))
                /\ grants' = IF fields.namespace = current.ns THEN grants
                             ELSE Put(grants, GrantKey(key[3], fields), grant)
                /\ Succeed(idx)
        /\ UNCHANGED <<ir, resources, backends, extensions, reported>>

-------------------------------------------------------------------------------
(***************************************************************************)
(* Backends                                                                *)
(***************************************************************************)
BackendName(idx, service) == PolicyName(current.name, idx) \o <<"-">> \o service

\* The Backend of a service: one that exists, or else one with the port of the
\* first reference to the service.
BackendOf(name, ref) ==
  IF <<current.ns, name>> \in DOMAIN backends THEN backends[<<current.ns, name>>]
  ELSE [service |-> ref.name, ns |-> current.ns, port |-> ref.port, tls |-> EmptyMap]

\* The first reference to the service in the first of these rules that has one.
FirstRef(rules, targets, service) ==
  LET places(n) == {x \in DOMAIN rules[n].backends : rules[n].backends[x].name = service}
      n         == Min({m \in targets : places(m) # {}})
  IN  rules[n].backends[Min(places(n))]

\* processBackendTLSForHTTPRoute, and the same for GRPCRoutes.
EmitBackendTLS ==
  \E idx \in todo :
    LET rules    == Resource.rules
        targets  == IF idx = RouteRuleAllIndex THEN DOMAIN rules ELSE {idx}
        services == {ref.name : ref \in UNION {ToSet(rules[n].backends) : n \in targets \cap DOMAIN rules}}
        backend(s) == BackendOf(BackendName(idx, s), FirstRef(rules, targets \cap DOMAIN rules, s))
        keys     == [s \in services |-> <<current.ns, BackendName(idx, s)>>]
        built    == [key \in {keys[s] : s \in services} |->
                       LET s == CHOOSE x \in services : keys[x] = key
                       IN  [backend(s) EXCEPT !.tls = Over(IR(idx).fields, @)]]
        moved(ref) == [ref EXCEPT !.kind = "Backend", !.name = BackendName(idx, @), !.port = 0]
        inRange  == targets \subseteq DOMAIN rules
    IN  /\ Emits({"backendTLS"}, idx)
        /\ IF Unsourced(idx) \/ ~inRange \/ \E s \in services : backend(s).port = 0
           THEN Panic /\ UNCHANGED <<resources, backends, parsed>>
           ELSE /\ backends' = Over(built, backends)
                /\ resources' = [resources EXCEPT ![current].rules =
                     [n \in DOMAIN rules |->
                        IF n \notin targets THEN rules[n]
                        ELSE [rules[n] EXCEPT !.backends = [x \in DOMAIN @ |-> moved(@[x])]]]]
                /\ Succeed(idx)
        /\ UNCHANGED <<ir, policies, extensions, grants, reported>>

-------------------------------------------------------------------------------
(***************************************************************************)
(* sortGatewayResources and checkConvertExtensionFeatures                  *)
(***************************************************************************)
\* sort.Slice: what compares equal comes in any order.
SortedLists(list, Before(_, _)) ==
  {[n \in DOMAIN list |-> list[order[n]]] :
     order \in {o \in SetToSeqs(DOMAIN list) :
                  \A m, n \in DOMAIN o : m < n => ~Before(list[o[n]], list[o[m]])}}

IsCanaryHeader(name) ==
  \E n \in 1..(Len(name) - 3) : SubSeq(name, n, n + 3) = <<"-", "canary", "-", "header">>

\* Rules without a name first, then those of canary headers.
RuleBefore(a, b) ==
  /\ a.name # b.name /\ b.name # <<>>
  /\ \/ a.name = <<>>
     \/ IsCanaryHeader(a.name) /\ ~IsCanaryHeader(b.name)
     \/ IsCanaryHeader(a.name) = IsCanaryHeader(b.name) /\ Precedes(a.name, b.name)

NameBefore(a, b)     == Precedes(a.name, b.name)
GRPCRuleBefore(a, b) == b.name # <<>> /\ (a.name = <<>> \/ NameBefore(a, b))

SortedBackends(refs) == SortedLists(refs, NameBefore)

SortResource ==
  /\ At({"sort"})
  /\ \E key \in pending :
       /\ \/ /\ key.kind = "Gateway"
             /\ \E listeners \in SortedLists(resources[key].listeners, NameBefore) :
                  resources' = [resources EXCEPT ![key].listeners = listeners]
          \/ /\ key.kind # "Gateway"
             /\ \E ordered \in IF key.kind = "HTTPRoute"
                               THEN SortedLists(resources[key].rules, RuleBefore)
                               ELSE SortedLists(resources[key].rules, GRPCRuleBefore) :
                  \E rules \in WithBackends(ordered, SortedBackends) :
                    resources' = [resources EXCEPT ![key].rules = rules]
       /\ pending' = pending \ {key}
  /\ UNCHANGED <<ir, outputs, parsed, reported, pass, current, todo>>

\* Every IR that is not parsed is reported with its Ingress.  No emitter sets an
\* error, so that those that are parsed never are.
CheckConvertExtensionFeatures ==
  /\ At({"check"})
  /\ \E key \in pending :
       LET features == resources[key].features
           unparsed == {at \in DOMAIN features : features[at].id \notin parsed}
       IN  IF \E at \in unparsed : features[at].source = <<>>
           THEN Panic /\ UNCHANGED reported
           ELSE /\ reported' = reported \union {<<key, at[1], at[2]>> : at \in unparsed}
                /\ pending' = pending \ {key}
                /\ UNCHANGED <<pass, current, todo>>
  /\ UNCHANGED <<ir, resources, outputs, parsed>>

-------------------------------------------------------------------------------
EmissionEnded == pass \in {Panicked, Ended} /\ UNCHANGED vars

Next ==
  \/ NextPass \/ VisitResource \/ AlreadyParsed
  \/ RemoveBackendRefsDuplicates
  \/ EmitRegex \/ EmitRewrite \/ EmitRedirect
  \/ EmitPolicy \/ EmitMTLS \/ EmitBackendTLS
  \/ SortResource \/ CheckConvertExtensionFeatures
  \/ EmissionEnded

Spec == Init /\ [][Next]_vars
-------------------------------------------------------------------------------
(***************************************************************************)
(* Invariants                                                              *)
(***************************************************************************)
FieldsOfPolicy ==
  [SecurityPolicy       |-> {"basicAuth", "externalAuth", "ipRange", "cors"},
   BackendTrafficPolicy |-> {"rateLimit", "proxyBuffer", "timeOut", "retry", "affinity"},
   ClientTrafficPolicy  |-> {"mTLS"}]

Sections(key) == IF key.kind = "Gateway" THEN ir[key].listeners ELSE ir[key].rules

\* The passes keep the resources and the number of their rules; a policy sets
\* only what its kind can set, for a resource of its namespace and a section
\* of it; and a reference to a Backend names one that is there.
EmitterTypeOK ==
  /\ pass \in Panicked..Ended /\ DOMAIN resources = DOMAIN ir
  /\ pending \subseteq DOMAIN ir /\ current \in DOMAIN ir \union {Nothing}
  /\ \A key \in DOMAIN ir : Size(resources[key]) = Size(ir[key])
  /\ \A p \in DOMAIN policies :
       LET policy == policies[p]
       IN  /\ policy.target \in DOMAIN ir /\ policy.target.ns = p[2]
           /\ DOMAIN policy.spec \subseteq FieldsOfPolicy[p[1]]
           /\ policy.section \in {<<>>} \union {s.name : s \in ToSet(Sections(policy.target))}
  /\ \A key \in DOMAIN ir : key.kind # "Gateway" =>
       \A rule \in ToSet(resources[key].rules) : \A ref \in ToSet(rule.backends) :
         ref.kind = "Backend" => <<key.ns, ref.name>> \in DOMAIN backends

\* The IR has no feature at the index of a rule or listener that is not there.
InRange(key) == \A at \in DOMAIN ir[key].features : at[2] \in DOMAIN Sections(key)

\* It has no IR that another resource has too.
Unshared(key) ==
  \A other \in DOMAIN ir \ {key} : \A at \in DOMAIN ir[key].features :
    \A x \in DOMAIN ir[other].features : ir[key].features[at].id # ir[other].features[x].id

Covers(policy, key, n) == policy.target = key /\ policy.section \in {<<>>, Sections(key)[n].name}

\* "This consolidates redundant rule-level features into a single route-level
\* feature": merged or not, a policy sets for a rule, or a listener, exactly
\* what the features of that rule ask for, and nothing for one that did not ask.
\* Retries with an unsupported trigger leave an empty setting.
PoliciesMatchFeatures ==
  \A p \in DOMAIN policies :
    LET policy   == policies[p]
        key      == policy.target
        features == ir[key].features
    IN  InRange(key) =>
          \A n \in DOMAIN Sections(key) : \A f \in DOMAIN policy.spec :
            Covers(policy, key, n) =>
              /\ <<f, n>> \in DOMAIN features
              /\ LET fields == features[<<f, n>>].fields
                 IN  policy.spec[f] = IF Fails(f, fields, key.ns) THEN EmptyMap
                                      ELSE Setting(f, fields, key.ns, EmptyMap)

RuleFrom(key, n) == CHOOSE rule \in ToSet(resources[key].rules) : rule.from = n

FilterTypes(rule) == {filter.type : filter \in ToSet(rule.filters)}

NoRedirectAsked(key, fields) ==
  /\ "url" \notin DOMAIN fields
  /\ resources[key].parentRefs # <<>> /\ ~SslRedirects(fields, key.ns, resources[key])

Converted(key, f, n) ==
  CASE f \in OfRoutePolicies \union {"mTLS"} ->
         \E p \in DOMAIN policies :
           /\ Covers(policies[p], key, n)
           /\ f \in DOMAIN policies[p].spec /\ (f = "retry" => policies[p].spec[f] # EmptyMap)
    [] f = "regex"    -> \/ RuleFrom(key, n).path.type = "RegularExpression"
                         \/ "ExtensionRef" \in FilterTypes(RuleFrom(key, n))
    [] f = "rewrite"  -> FilterTypes(RuleFrom(key, n)) \cap {"URLRewrite", "ExtensionRef"} # {}
    [] f = "redirect" -> \/ "RequestRedirect" \in FilterTypes(RuleFrom(key, n))
                         \/ NoRedirectAsked(key, ir[key].features[<<f, n>>].fields)
    [] f = "backendTLS" -> \A ref \in ToSet(RuleFrom(key, n).backends) : ref.kind = "Backend"

\* "Emitter MUST call this method upon successful parsing": when the emission
\* has ended, every feature of every rule and listener has become a policy or a
\* filter that covers it, or a Backend, or it has been reported.  A GRPCRoute
\* that shares an IR with the HTTPRoute it was split from is left out: its IR
\* counts as parsed before the GRPCRoute is visited.
EveryFeatureConverted ==
  pass = Ended =>
    \A key \in {k \in DOMAIN ir : InRange(k) /\ Unshared(k)} : \A at \in DOMAIN ir[key].features :
      \/ Converted(key, at[1], at[2])
      \/ \E idx \in {at[2], RouteRuleAllIndex} : <<key, at[1], idx>> \in reported

\* What a reference leads to, with the settings of TLS.
Destination(ns, ref) ==
  IF ref.kind = "Backend"
  THEN LET backend == backends[<<ns, ref.name>>]
       IN  [kind |-> "Service", name |-> backend.service, port |-> backend.port, tls |-> backend.tls]
  ELSE [kind |-> ref.kind, name |-> ref.name, port |-> ref.port, tls |-> EmptyMap]

Traffic(refs, To(_)) ==
  [d \in {To(ref) : ref \in ToSet(refs)} |->
     SumOfWeights(refs, {n \in DOMAIN refs : To(refs[n]) = d /\ refs[n].weight # <<>>})]

\* Leaving out duplicates, and putting Backends in place of Services, neither
\* loses nor redirects traffic: a rule sends each service and port the weights
\* it was given, with the TLS settings of the rule's own feature.
RulesKeepTheirBackends ==
  pass = Ended =>
    \A key \in {k \in DOMAIN ir : k.kind # "Gateway" /\ InRange(k) /\ Unshared(k)} :
    \A n \in DOMAIN ir[key].rules :
      LET at  == <<"backendTLS", n>>
          tls == IF at \in DOMAIN ir[key].features THEN ir[key].features[at].fields ELSE EmptyMap
      IN  Traffic(RuleFrom(key, n).backends, LAMBDA ref : Destination(key.ns, ref))
            = Traffic(ir[key].rules[n].backends, LAMBDA ref : [Destination(key.ns, ref) EXCEPT !.tls = tls])

\* A Gateway that has a client certificate from a secret of another namespace
\* has a grant there for that secret.
SecretsGranted ==
  \A p \in DOMAIN policies : "mTLS" \in DOMAIN policies[p].spec =>
    \A secret \in ToSet(policies[p].spec["mTLS"]) :
      secret.namespace # p[2] =>
        \E g \in DOMAIN grants :
          /\ g[1] = secret.namespace
          /\ grants[g].fromNs = p[2] /\ grants[g].secret = secret.name

\* "Set HTTPRoute path to "/" since HTTPRouteFilter will handle the regex
\* matching": rules that match different requests still do.
RulesStayDistinct ==
  pass = Ended =>
    \A key \in {k \in DOMAIN ir : k.kind = "HTTPRoute"} : \A m, n \in DOMAIN ir[key].rules :
      LET before(x) == <<ir[key].rules[x].path, ir[key].rules[x].headers>>
          after(x)  == <<RuleFrom(key, x).path, RuleFrom(key, x).headers>>
      IN  before(m) # before(n) => after(m) # after(n)
===============================================================================
