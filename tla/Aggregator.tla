------------------------------ MODULE Aggregator ------------------------------
(***************************************************************************)
(* common.ToIR: from the Ingresses that were read to the provider IR, that *)
(* is HTTPRoutes with the source of every backend, and Gateways.           *)
(*                                                                         *)
(* The program is sequential.  Its nondeterminism is the order in which Go *)
(* iterates over maps and the order in which sort.Slice, which is not      *)
(* stable, leaves elements that compare equal.  Every loop of the source   *)
(* is a phase here, and every iteration of it one step; i and j are the    *)
(* indices of the loop (and of the loop inside it) that is running.        *)
(*                                                                         *)
(* A pointer to an Ingress is its index in ingressList, and a pointer to a *)
(* path of it is [ingress, rule, path]; rule = 0 points at the Ingress's   *)
(* default backend.                                                        *)
(***************************************************************************)
EXTENDS IngressApi

VARIABLES
  ingresses,        \* the map of Ingresses, by namespace and name
  ingressList,      \* OrderedIngressMap.List()
  phase, i, j,      \* the loop that is running and its indices
  ruleGroups,       \* [ruleGroupKey -> ingressRuleGroup]
  defaultBackends,  \* pointers to the Ingresses that have one
  pending,          \* keys of the map the running loop has still to visit
  current,          \* the key it is visiting
  matchKeys,        \* orderedIngressPathsByMatchKey.keys of the current group
  pathsByKey,       \* orderedIngressPathsByMatchKey.data of the current group
  route,            \* the HTTPRoute under construction
  rule,             \* the rule of it under construction, with its sources
  listeners,        \* listenersByNamespacedGateway
  httpRoutes,       \* routes built so far, in order
  gateways,         \* gatewaysByKey
  routeByKey,       \* ProviderIR.HTTPRoutes
  errors            \* what the loops have reported

groupVars == <<ruleGroups, defaultBackends>>
pathVars  == <<matchKeys, pathsByKey>>
buildVars == <<route, rule>>
outVars   == <<listeners, httpRoutes, gateways, routeByKey, errors>>
vars == <<ingresses, ingressList, phase, i, j, groupVars, pending, current,
          pathVars, buildVars, outVars>>

\* What a pointer points at.
PathAt(p) == ingressList[p.ingress].rules[p.rule].paths[p.path]

BackendAt(p) ==
  IF p.rule = 0 THEN ingressList[p.ingress].defaultBackend[1] ELSE PathAt(p).backend

-------------------------------------------------------------------------------
(***************************************************************************)
(* Reading and grouping                                                    *)
(***************************************************************************)
Init ==
  /\ ingresses \in Inputs
  /\ ingressList = <<>>
  /\ phase = "list" /\ i = 1 /\ j = 1
  /\ ruleGroups = EmptyMap /\ defaultBackends = <<>>
  /\ pending = {} /\ current = Nothing
  /\ matchKeys = <<>> /\ pathsByKey = EmptyMap
  /\ route = Nothing /\ rule = Nothing
  /\ listeners = EmptyMap /\ httpRoutes = <<>>
  /\ gateways = EmptyMap /\ routeByKey = EmptyMap
  /\ errors = {}

Goto(ph) == phase' = ph /\ i' = 1 /\ j' = 1

\* FromMap sorts the names it found by iterating over the map.
FromMap ==
  /\ phase = "list"
  /\ ingressList' \in SortedLists(ingresses)
  /\ Goto("aggregate")
  /\ UNCHANGED <<ingresses, groupVars, pending, current, pathVars, buildVars, outVars>>

\* addIngressRule: the first Ingress of a group names it, and every rule adds
\* all the TLS entries of its Ingress.
AddIngressRule ==
  /\ phase = "aggregate" /\ i <= Len(ingressList)
  /\ LET ing == ingressList[i]
     IN  /\ j <= Len(ing.rules)
         /\ LET key == GroupKey(ing, ing.rules[j].host)
                rg  == IF key \in DOMAIN ruleGroups
                       THEN ruleGroups[key]
                       ELSE [ns |-> ing.ns, name |-> ing.name, class |-> key.class,
                             host |-> key.host, tls |-> <<>>, rules |-> <<>>]
            IN  ruleGroups' = Put(ruleGroups, key,
                  [rg EXCEPT !.tls = @ \o ing.tls,
                             !.rules = Append(@, [ingress |-> i, rule |-> j])])
  /\ j' = j + 1
  /\ UNCHANGED <<ingresses, ingressList, phase, i, defaultBackends, pending,
                 current, pathVars, buildVars, outVars>>

\* The end of addIngress, after the rules of the Ingress.
AddDefaultBackend ==
  /\ phase = "aggregate" /\ i <= Len(ingressList)
  /\ j > Len(ingressList[i].rules)
  /\ defaultBackends' = IF ingressList[i].defaultBackend = <<>>
                        THEN defaultBackends
                        ELSE Append(defaultBackends, i)
  /\ i' = i + 1 /\ j' = 1
  /\ UNCHANGED <<ingresses, ingressList, phase, ruleGroups, pending, current,
                 pathVars, buildVars, outVars>>

SortRuleGroups ==
  /\ phase = "aggregate" /\ i > Len(ingressList)
  /\ pending' = DOMAIN ruleGroups
  /\ Goto("groups")
  /\ UNCHANGED <<ingresses, ingressList, groupVars, current, pathVars,
                 buildVars, outVars>>

(***************************************************************************)
(* toHTTPRoutesAndGateways: one HTTPRoute and one listener per group       *)
(***************************************************************************)
NextRuleGroup ==
  /\ phase = "groups"
  /\ \E k \in pending :
       /\ \A l \in pending : ~KeyPrecedes(l, k)
       /\ LET rg    == ruleGroups[k]
              gwKey == [ns |-> rg.ns, class |-> rg.class]
              old   == IF gwKey \in DOMAIN listeners THEN listeners[gwKey] ELSE <<>>
          IN  /\ listeners' = Put(listeners, gwKey,
                   Append(old, [host |-> ListenerHost(rg), certs |-> Secrets(rg.tls)]))
              /\ route' = [ns |-> rg.ns, name |-> RouteName(rg.name, rg.host),
                           class |-> rg.class, host |-> rg.host,
                           rules |-> <<>>, sources |-> <<>>]
       /\ current' = k /\ pending' = pending \ {k}
  /\ matchKeys' = <<>> /\ pathsByKey' = EmptyMap
  /\ Goto("paths")
  /\ UNCHANGED <<ingresses, ingressList, groupVars, rule, httpRoutes, gateways,
                 routeByKey, errors>>

\* groupIngressPathsByMatchKey: i runs over the rules of the group, j over the
\* paths of a rule.  A rule without an http section is dereferenced all the same.
GroupIngressPath ==
  /\ phase = "paths" /\ i <= Len(ruleGroups[current].rules)
  /\ LET r    == ruleGroups[current].rules[i]
         spec == ingressList[r.ingress].rules[r.rule]
         p    == [ingress |-> r.ingress, rule |-> r.rule, path |-> j]
         key  == PathMatchKey(PathAt(p))
     IN  \/ /\ ~spec.http
            /\ phase' = "panicked"
            /\ UNCHANGED <<i, j, pathVars>>
         \/ /\ spec.http /\ j <= Len(spec.paths)
            /\ IF key \in DOMAIN pathsByKey
               THEN /\ pathsByKey' = [pathsByKey EXCEPT ![key] = Append(@, p)]
                    /\ UNCHANGED matchKeys
               ELSE /\ pathsByKey' = Put(pathsByKey, key, <<p>>)
                    /\ matchKeys' = Append(matchKeys, key)
            /\ j' = j + 1
            /\ UNCHANGED <<phase, i>>
         \/ /\ spec.http /\ j > Len(spec.paths)
            /\ i' = i + 1 /\ j' = 1
            /\ UNCHANGED <<phase, pathVars>>
  /\ UNCHANGED <<ingresses, ingressList, groupVars, pending, current, buildVars,
                 outVars>>

PathsGrouped ==
  /\ phase = "paths" /\ i > Len(ruleGroups[current].rules)
  /\ Goto("rules")
  /\ UNCHANGED <<ingresses, ingressList, groupVars, pending, current, pathVars,
                 buildVars, outVars>>

\* toHTTPRoute, an iteration of its loop up to configureBackendRef: i runs over
\* the match keys.  An unknown path type reaches the default case, whose message
\* dereferences a match type that is still nil.
ToHTTPRouteRule ==
  /\ phase = "rules" /\ i <= Len(matchKeys)
  /\ LET key == matchKeys[i]
     IN  \/ /\ key.type = "other"
            /\ phase' = "panicked"
            /\ UNCHANGED <<i, j, rule, errors>>
         \/ /\ MatchFails(key)
            /\ errors' = errors \union {"pathType"}
            /\ i' = i + 1
            /\ UNCHANGED <<phase, j, rule>>
         \/ /\ key.type # "other" /\ ~MatchFails(key)
            /\ rule' = [name |-> i - 1, match |-> ToHTTPRouteMatch(key),
                        backendRefs |-> <<>>, sources |-> <<>>]
            /\ phase' = "backends" /\ j' = 1
            /\ UNCHANGED <<i, errors>>
  /\ UNCHANGED <<ingresses, ingressList, groupVars, pending, current, pathVars,
                 route, listeners, httpRoutes, gateways, routeByKey>>

WithBackendSourceFirst(r, ref, source) ==
  [r EXCEPT !.backendRefs = Append(@, ref), !.sources = <<source>> \o @]
WithNewBackendOnly(r, ref, source) ==
  IF \E n \in DOMAIN r.backendRefs : r.backendRefs[n] = ref THEN r
  ELSE [r EXCEPT !.backendRefs = Append(@, ref), !.sources = Append(@, source)]
WithBackend(r, ref, source) ==
  [r EXCEPT !.backendRefs = Append(@, ref), !.sources = Append(@, source)]

\* configureBackendRef: j runs over the paths that share the match key.
ConfigureBackendRef ==
  /\ phase = "backends" /\ j <= Len(pathsByKey[matchKeys[i]])
  /\ LET p == pathsByKey[matchKeys[i]][j]
     IN  IF Resolves(route.ns, BackendAt(p))
         THEN /\ rule' = WithBackend(rule, ToBackendRef(route.ns, BackendAt(p)), p)
              /\ UNCHANGED errors
         ELSE /\ errors' = errors \union {"portName"}
              /\ UNCHANGED rule
  /\ j' = j + 1
  /\ UNCHANGED <<ingresses, ingressList, phase, i, groupVars, pending, current,
                 pathVars, route, listeners, httpRoutes, gateways, routeByKey>>

WithRule(rt, r, sources) ==
  [rt EXCEPT !.rules = Append(@, r), !.sources = Append(@, sources)]

\* The rest of the iteration: the rule and its sources join the route.
AppendRule ==
  /\ phase = "backends" /\ j > Len(pathsByKey[matchKeys[i]])
  /\ route' = WithRule(route,
       [name |-> rule.name, match |-> rule.match, backendRefs |-> rule.backendRefs],
       rule.sources)
  /\ phase' = "rules" /\ i' = i + 1 /\ j' = 1
  /\ UNCHANGED <<ingresses, ingressList, groupVars, pending, current, pathVars,
                 rule, outVars>>

RouteBuilt ==
  /\ phase = "rules" /\ i > Len(matchKeys)
  /\ httpRoutes' = Append(httpRoutes, route)
  /\ Goto("groups")
  /\ UNCHANGED <<ingresses, ingressList, groupVars, pending, current, pathVars,
                 buildVars, listeners, gateways, routeByKey, errors>>

(***************************************************************************)
(* Default backends, Gateways and the maps of the IR                       *)
(***************************************************************************)
GroupsBuilt ==
  /\ phase = "groups" /\ pending = {}
  /\ Goto("defaults")
  /\ UNCHANGED <<ingresses, ingressList, groupVars, pending, current, pathVars,
                 buildVars, outVars>>

\* A route without a hostname, with one rule and one backend.  Its source is
\* recorded even when the backend does not resolve and there is no rule.
DefaultBackendRoute ==
  /\ phase = "defaults" /\ i <= Len(defaultBackends)
  /\ LET p   == [ingress |-> defaultBackends[i], rule |-> 0, path |-> 0]
         ing == ingressList[p.ingress]
         ok  == Resolves(ing.ns, BackendAt(p))
     IN  /\ httpRoutes' = Append(httpRoutes,
              [ns |-> ing.ns, name |-> DefaultRouteName(ing.name),
               class |-> GetIngressClass(ing), host |-> <<>>,
               rules |-> IF ok
                         THEN <<[name |-> 0, match |-> Nothing,
                                 backendRefs |-> <<ToBackendRef(ing.ns, BackendAt(p))>>]>>
                         ELSE <<>>,
               sources |-> << <<p>> >>])
         /\ errors' = IF ok THEN errors ELSE errors \union {"portName"}
  /\ i' = i + 1
  /\ UNCHANGED <<ingresses, ingressList, phase, j, groupVars, pending, current,
                 pathVars, buildVars, listeners, gateways, routeByKey>>

DefaultsBuilt ==
  /\ phase = "defaults" /\ i > Len(defaultBackends)
  /\ pending' = DOMAIN listeners
  /\ Goto("gateways")
  /\ UNCHANGED <<ingresses, ingressList, groupVars, current, pathVars, buildVars,
                 outVars>>

\* The loop over listenersByNamespacedGateway, a map: any order.  A class with
\* a "/" in it makes a key that does not split into two parts.
NextGateway ==
  /\ phase = "gateways"
  /\ \E k \in pending :
       /\ pending' = pending \ {k}
       /\ IF "/" \in {k.class[n] : n \in DOMAIN k.class}
          THEN /\ errors' = errors \union {"gatewayKey"}
               /\ UNCHANGED <<phase, j, current, gateways>>
          ELSE /\ gateways' = Put(gateways, k, <<>>)
               /\ current' = k
               /\ phase' = "listeners" /\ j' = 1
               /\ UNCHANGED errors
  /\ UNCHANGED <<ingresses, ingressList, i, groupVars, pathVars, buildVars,
                 listeners, httpRoutes, routeByKey>>

AddListener ==
  /\ phase = "listeners" /\ j <= Len(listeners[current])
  /\ gateways' = [gateways EXCEPT
       ![current] = @ \o GatewayListeners(listeners[current][j])]
  /\ j' = j + 1
  /\ UNCHANGED <<ingresses, ingressList, phase, i, groupVars, pending, current,
                 pathVars, buildVars, listeners, httpRoutes, routeByKey, errors>>

GatewayBuilt ==
  /\ phase = "listeners" /\ j > Len(listeners[current])
  /\ Goto("gateways")
  /\ UNCHANGED <<ingresses, ingressList, groupVars, pending, current, pathVars,
                 buildVars, outVars>>

\* Any error makes ToIR return an empty IR.
AfterGateways(errs) == IF errs = {} THEN "index" ELSE "failed"

GatewaysBuilt ==
  /\ phase = "gateways" /\ pending = {}
  /\ Goto(AfterGateways(errors))
  /\ UNCHANGED <<ingresses, ingressList, groupVars, pending, current, pathVars,
                 buildVars, outVars>>

\* routeByKey: a later route replaces an earlier one of the same name.
IndexRoute ==
  /\ phase = "index" /\ i <= Len(httpRoutes)
  /\ routeByKey' = Put(routeByKey,
       [ns |-> httpRoutes[i].ns, name |-> httpRoutes[i].name], httpRoutes[i])
  /\ i' = i + 1
  /\ UNCHANGED <<ingresses, ingressList, phase, j, groupVars, pending, current,
                 pathVars, buildVars, listeners, httpRoutes, gateways, errors>>

RoutesIndexed ==
  /\ phase = "index" /\ i > Len(httpRoutes)
  /\ Goto("done")
  /\ UNCHANGED <<ingresses, ingressList, groupVars, pending, current, pathVars,
                 buildVars, outVars>>

Ended == phase \in {"done", "failed", "panicked"}

Terminating == Ended /\ UNCHANGED vars

Convert ==
  \/ FromMap \/ AddIngressRule \/ AddDefaultBackend \/ SortRuleGroups
  \/ NextRuleGroup \/ GroupIngressPath \/ PathsGrouped
  \/ ToHTTPRouteRule \/ ConfigureBackendRef \/ AppendRule \/ RouteBuilt
  \/ GroupsBuilt \/ DefaultBackendRoute \/ DefaultsBuilt
  \/ NextGateway \/ AddListener \/ GatewayBuilt \/ GatewaysBuilt
  \/ IndexRoute \/ RoutesIndexed

Next == Convert \/ Terminating

Spec == Init /\ [][Next]_vars

-------------------------------------------------------------------------------
(***************************************************************************)
(* Invariants                                                              *)
(***************************************************************************)
Phases == {"list", "aggregate", "groups", "paths", "rules", "backends", "defaults",
           "gateways", "listeners", "index", "done", "failed", "panicked"}

Pointer    == [ingress : Nat, rule : Nat, path : Nat]
BackendRef == [name : STRING, port : Nat]
MatchKey   == [type : PathTypes, value : STRING]
Match      == [type : {"Prefix", "Exact"}, value : STRING] \union {Nothing}
Rule       == [name : Nat, match : Match, backendRefs : Seq(BackendRef)]
RuleWithSources ==
  [name : Nat, match : Match, backendRefs : Seq(BackendRef), sources : Seq(Pointer)]
RuleGroupKey == [ns : String, class : String, host : String]
RuleGroup ==
  [ns : String, name : String, class : String, host : String,
   tls   : Seq([hosts : Seq(String), secret : STRING]),
   rules : Seq([ingress : Nat, rule : Nat])]
GatewayKey == [ns : String, class : String]

\* The names of routes and listeners are whatever RouteName and ListenerName
\* make of their arguments.
IsRoute(rt) ==
  /\ rt = [ns |-> rt.ns, name |-> rt.name, class |-> rt.class, host |-> rt.host,
           rules |-> rt.rules, sources |-> rt.sources]
  /\ rt.ns \in String /\ rt.class \in String /\ rt.host \in String
  /\ rt.rules \in Seq(Rule) /\ rt.sources \in Seq(Seq(Pointer))
IsListener(l) ==
  /\ l = [name |-> l.name, host |-> l.host, port |-> l.port, certs |-> l.certs]
  /\ l.host \in String /\ l.port \in {80, 443} /\ l.certs \in Seq(STRING)

\* f is a map from some of K to V.
MapOf(f, K, V) == DOMAIN f \subseteq K /\ \A k \in DOMAIN f : f[k] \in V

IsSequence(s) == s \in Seq({s[n] : n \in DOMAIN s})

\* s is a sequence whose elements satisfy Is.
IsSeqOf(s, Is(_)) ==
  /\ IsSequence(s)
  /\ \A n \in DOMAIN s : Is(s[n])

\* Every variable has the type its Go counterpart has.
TypeOK ==
  /\ ingresses \subseteq Ingress
  /\ ingressList \in Seq(ingresses)
  /\ phase \in Phases /\ i \in Nat \ {0} /\ j \in Nat \ {0}
  /\ MapOf(ruleGroups, RuleGroupKey, RuleGroup)
  /\ defaultBackends \in Seq(Nat)
  /\ pending \subseteq RuleGroupKey \union GatewayKey
  /\ current \in RuleGroupKey \union GatewayKey \union {Nothing}
  /\ matchKeys \in Seq(MatchKey)
  /\ MapOf(pathsByKey, MatchKey, Seq(Pointer))
  /\ route = Nothing \/ IsRoute(route)
  /\ rule \in RuleWithSources \union {Nothing}
  /\ MapOf(listeners, GatewayKey, Seq([host : String, certs : Seq(STRING)]))
  /\ IsSeqOf(httpRoutes, IsRoute)
  /\ \A g \in DOMAIN gateways : g \in GatewayKey /\ IsSeqOf(gateways[g], IsListener)
  /\ \A key \in DOMAIN routeByKey :
       IsRoute(routeByKey[key]) /\ key.ns = routeByKey[key].ns
  /\ errors \subseteq {"pathType", "portName", "gatewayKey"}

\* Every path of every rule, and every default backend.
AllPlaces ==
  (UNION {UNION {[ingress : {n}, rule : {r}, path : DOMAIN ingressList[n].rules[r].paths] :
                   r \in DOMAIN ingressList[n].rules} : n \in DOMAIN ingressList})
    \union {[ingress |-> n, rule |-> 0, path |-> 0] :
              n \in {m \in DOMAIN ingressList : ingressList[m].defaultBackend # <<>>}}

\* The j-th backend of the i-th rule of rt is the conversion of its j-th source.
Aligned(rt) ==
  /\ Len(rt.sources) = Len(rt.rules)
  /\ \A x \in DOMAIN rt.rules :
       /\ Len(rt.sources[x]) = Len(rt.rules[x].backendRefs)
       /\ \A y \in DOMAIN rt.sources[x] :
            rt.rules[x].backendRefs[y] =
              ToBackendRef(rt.ns, BackendAt(rt.sources[x][y]))

\* RuleBackendSources[i][j] is the source of the j-th backend of the i-th rule:
\* every parser of annotations indexes the rules of a route by its sources, so
\* in the IR the two never disagree, whatever paths failed to resolve.
SourcesAligned ==
  \A key \in DOMAIN routeByKey : Aligned(routeByKey[key])

\* A rule matches what all of its sources match, and its sources belong to the
\* rule group of the route: same namespace, class and host.
RulesMatchSources ==
  \A key \in DOMAIN routeByKey : \A x \in DOMAIN routeByKey[key].rules :
    LET rt == routeByKey[key]
    IN  \A y \in DOMAIN rt.sources[x] :
          LET p   == rt.sources[x][y]
              ing == ingressList[p.ingress]
          IN  /\ ing.ns = rt.ns /\ GetIngressClass(ing) = rt.class
              /\ p.rule # 0 =>
                   /\ ing.rules[p.rule].host = rt.host
                   /\ ToHTTPRouteMatch(PathAt(p)) = rt.rules[x].match

\* Grouping by namespace, class and host and regrouping by match key neither
\* loses nor duplicates a path: each is the source of exactly one backend of
\* exactly one route that toHTTPRoutesAndGateways returns.
EveryPathOnce ==
  phase = "index" =>
    \A p \in AllPlaces :
      LET occurrences ==
            {o \in UNION {UNION {[n : {n}, x : {x}, y : DOMAIN httpRoutes[n].sources[x]] :
                                   x \in DOMAIN httpRoutes[n].sources} :
                            n \in DOMAIN httpRoutes} :
               httpRoutes[o.n].sources[o.x][o.y] = p}
      IN  Cardinality(occurrences) = 1

\* An Ingress of the gateway gw asks for TLS for host: a rule for that host, or
\* a rule without a host that lends its listener its only TLS host.
AsksForTLS(gw, host) ==
  \E m \in DOMAIN ingressList : \E r \in DOMAIN ingressList[m].rules :
    LET ing == ingressList[m]
        key == GroupKey(ing, ing.rules[r].host)
    IN  /\ [ns |-> key.ns, class |-> key.class] = gw
        /\ ing.tls # <<>>
        /\ \/ key.host = host
           \/ key.host = <<>> /\ host = ListenerHost(ruleGroups[key])

\* Every HTTPRoute that has a hostname finds on its parent Gateway a listener
\* for that hostname, and an HTTPS one exactly if some Ingress asks for it.
ListenersCoverRoutes ==
  phase = "done" =>
    \A key \in DOMAIN routeByKey :
      LET rt  == routeByKey[key]
          gw  == [ns |-> rt.ns, class |-> rt.class]
          has(port) == \E n \in DOMAIN gateways[gw] :
                         gateways[gw][n].host = rt.host /\ gateways[gw][n].port = port
      IN  rt.host # <<>> =>
            gw \in DOMAIN gateways /\ has(80) /\ (has(443) <=> AsksForTLS(gw, rt.host))

===============================================================================
