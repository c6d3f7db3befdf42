--------------------------- MODULE AggregatorProofs ---------------------------
(***************************************************************************)
(* Proofs about Aggregator, for every set of Ingresses, every service and  *)
(* every order of iteration.                                               *)
(***************************************************************************)
EXTENDS Aggregator, FiniteSetTheorems, TLAPS

(***************************************************************************)
(* The inductive invariant.  Pointers stay within the lists they point     *)
(* into, and each phase finds the keys it uses in the maps that earlier    *)
(* phases filled.                                                          *)
(***************************************************************************)
ValidPath(list, p) ==
  /\ p.ingress \in DOMAIN list
  /\ p.rule \in DOMAIN list[p.ingress].rules
  /\ p.path \in DOMAIN list[p.ingress].rules[p.rule].paths

\* Rule m of the list belongs to the group key.
InGroup(list, m, key) ==
  /\ m.ingress \in DOMAIN list
  /\ m.rule \in DOMAIN list[m.ingress].rules
  /\ GroupKey(list[m.ingress], list[m.ingress].rules[m.rule].host) = key

PathIn(list, p) == list[p.ingress].rules[p.rule].paths[p.path]

GroupsLinked ==
  \A k \in DOMAIN ruleGroups :
    LET rg == ruleGroups[k]
    IN  /\ k = [ns |-> rg.ns, class |-> rg.class, host |-> rg.host]
        /\ \A n \in DOMAIN rg.rules : InGroup(ingressList, rg.rules[n], k)

DefaultsLinked ==
  \A n \in DOMAIN defaultBackends :
    /\ defaultBackends[n] \in DOMAIN ingressList
    /\ ingressList[defaultBackends[n]].defaultBackend # <<>>

NothingGrouped == phase = "list" => ruleGroups = EmptyMap /\ defaultBackends = <<>>

Building == phase \in {"paths", "rules", "backends"}

PendingLinked ==
  /\ phase = "groups" \/ Building => pending \subseteq DOMAIN ruleGroups
  /\ phase \in {"gateways", "listeners"} => pending \subseteq DOMAIN listeners

PathsLinked ==
  Building =>
    /\ current \in DOMAIN ruleGroups
    /\ IsRoute(route)
    /\ current = [ns |-> route.ns, class |-> route.class, host |-> route.host]
    /\ \A n \in DOMAIN matchKeys : matchKeys[n] \in DOMAIN pathsByKey
    /\ \A k \in DOMAIN pathsByKey : \A n \in DOMAIN pathsByKey[k] :
         LET p == pathsByKey[k][n]
         IN  /\ ValidPath(ingressList, p)
             /\ InGroup(ingressList, p, current)
             /\ PathMatchKey(PathIn(ingressList, p)) = k

RuleLinked == phase = "backends" => i \in DOMAIN matchKeys /\ rule \in RuleWithSources

GatewayLinked ==
  phase = "listeners" => current \in DOMAIN listeners /\ current \in DOMAIN gateways

Linked ==
  /\ GroupsLinked /\ DefaultsLinked /\ NothingGrouped
  /\ PendingLinked /\ PathsLinked /\ RuleLinked /\ GatewayLinked

TypeInv == ingresses \in Inputs /\ TypeOK /\ Linked

-------------------------------------------------------------------------------
LEMMA InitTypeInv == Init => TypeInv
  <1> SUFFICES ASSUME Init PROVE TypeInv
    OBVIOUS
  <1>1. ingresses \subseteq Ingress
    BY InputsAssumption DEF Init
  <1>2. MapOf(ruleGroups, RuleGroupKey, RuleGroup)
    BY DEF Init, MapOf, EmptyMap
  <1>3. MapOf(pathsByKey, MatchKey, Seq(Pointer))
    BY DEF Init, MapOf, EmptyMap
  <1>4. MapOf(listeners, GatewayKey, Seq([host : String, certs : Seq(STRING)]))
    BY DEF Init, MapOf, EmptyMap
  <1>5. IsSeqOf(httpRoutes, IsRoute)
    BY DEF Init, IsSeqOf, IsSequence
  <1>6. /\ DOMAIN gateways = {} /\ DOMAIN routeByKey = {}
        /\ DOMAIN ruleGroups = {} /\ DOMAIN defaultBackends = {}
    BY DEF Init, EmptyMap
  <1>7. TypeOK
    BY <1>1, <1>2, <1>3, <1>4, <1>5, <1>6 DEF TypeOK, Init, Phases
  <1>8. Linked
    BY <1>6 DEF Linked, GroupsLinked, DefaultsLinked, NothingGrouped, PendingLinked,
             PathsLinked, RuleLinked, GatewayLinked, Building, Init
  <1> QED
    BY <1>7, <1>8 DEF TypeInv, Init

(***************************************************************************)
(* The data a valid pointer leads to.                                      *)
(***************************************************************************)
PathRecord == [type : PathTypes, value : STRING, backend : Backend]
RuleRecord == [host : String, http : BOOLEAN, paths : Seq(PathRecord)]
TLSRecord  == [hosts : Seq(String), secret : STRING]

LEMMA IngressFields ==
  ASSUME NEW ing \in Ingress
  PROVE  /\ ing.ns \in String /\ ing.name \in String
         /\ ing.tls \in Seq(TLSRecord) /\ ing.rules \in Seq(RuleRecord)
         /\ ing.defaultBackend \in Seq(Backend)
         /\ GetIngressClass(ing) \in String
  BY DEF Ingress, GetIngressClass, RuleRecord, PathRecord, TLSRecord

LEMMA ListedIngress ==
  ASSUME TypeOK, NEW n \in DOMAIN ingressList
  PROVE  ingressList[n] \in Ingress
  BY DEF TypeOK

LEMMA ListedRule ==
  ASSUME TypeOK, NEW n \in DOMAIN ingressList, NEW r \in DOMAIN ingressList[n].rules
  PROVE  /\ ingressList[n].rules[r] \in RuleRecord
         /\ GroupKey(ingressList[n], ingressList[n].rules[r].host) \in RuleGroupKey
  <1>1. ingressList[n] \in Ingress
    BY ListedIngress
  <1>2. ingressList[n].rules[r] \in RuleRecord
    BY <1>1, IngressFields
  <1>3. ingressList[n].rules[r].host \in String
    BY <1>2 DEF RuleRecord
  <1> QED
    BY <1>1, <1>2, <1>3, IngressFields DEF GroupKey, RuleGroupKey

LEMMA ValidPathFields ==
  ASSUME TypeOK, NEW p, ValidPath(ingressList, p)
  PROVE  /\ PathIn(ingressList, p) \in PathRecord
         /\ PathMatchKey(PathIn(ingressList, p)) \in MatchKey
  <1>1. ingressList[p.ingress].rules[p.rule] \in RuleRecord
    BY ListedRule DEF ValidPath
  <1>2. PathIn(ingressList, p) \in PathRecord
    BY <1>1 DEF ValidPath, PathIn, RuleRecord
  <1> QED
    BY <1>2 DEF PathRecord, PathMatchKey, MatchKey

LEMMA ToBackendRefType ==
  ASSUME NEW ns, NEW b \in Backend, Resolves(ns, b)
  PROVE  ToBackendRef(ns, b) \in BackendRef
  BY ServicePortsAssumption DEF Backend, Resolves, ResolvesWith, ToBackendRef, BackendRef, NoPort

LEMMA PutMap ==
  ASSUME NEW f, NEW K, NEW V, MapOf(f, K, V), NEW key \in K, NEW v \in V
  PROVE  MapOf(Put(f, key, v), K, V)
  BY DEF MapOf, Put

LEMMA OwnElements ==
  ASSUME NEW T, NEW t \in Seq(T)
  PROVE  IsSequence(t)
  BY DEF IsSequence

LEMMA Element ==
  ASSUME NEW T, NEW t \in Seq(T), NEW n \in Nat \ {0}, n <= Len(t)
  PROVE  n \in DOMAIN t /\ t[n] \in T
  OBVIOUS

\* A sequence over its own elements can be appended to and concatenated.
LEMMA AppendOwn ==
  ASSUME NEW s, IsSequence(s), NEW e, NEW t, t = Append(s, e)
  PROVE  /\ IsSequence(t)
         /\ DOMAIN t = DOMAIN s \union {Len(s) + 1}
         /\ Len(t) = Len(s) + 1
         /\ \A n \in DOMAIN s : t[n] = s[n]
         /\ t[Len(s) + 1] = e
  <1> DEFINE T == {s[n] : n \in DOMAIN s} \union {e}
  <1>1. s \in Seq(T) /\ e \in T
    BY DEF IsSequence
  <1>2. t \in Seq(T) /\ Len(t) = Len(s) + 1
    BY <1>1
  <1>3. /\ DOMAIN t = DOMAIN s \union {Len(s) + 1}
        /\ \A n \in DOMAIN s : t[n] = s[n]
        /\ t[Len(s) + 1] = e
    BY <1>1
  <1> QED
    BY <1>2, <1>3, OwnElements

LEMMA ConcatOwn ==
  ASSUME NEW s, IsSequence(s), NEW u, IsSequence(u),
         NEW t, t = s \o u
  PROVE  /\ IsSequence(t)
         /\ \A n \in DOMAIN t : \/ n \in DOMAIN s /\ t[n] = s[n]
                                \/ \E m \in DOMAIN u : t[n] = u[m]
  <1> DEFINE T == {s[n] : n \in DOMAIN s} \union {u[n] : n \in DOMAIN u}
  <1>1. s \in Seq(T) /\ u \in Seq(T)
    BY DEF IsSequence
  <1>2. t \in Seq(T) /\ Len(t) = Len(s) + Len(u)
    BY <1>1
  <1>3. \A n \in DOMAIN t : \/ n \in DOMAIN s /\ t[n] = s[n]
                            \/ \E m \in DOMAIN u : t[n] = u[m]
    <2> SUFFICES ASSUME NEW n \in DOMAIN t
                 PROVE  \/ n \in DOMAIN s /\ t[n] = s[n]
                        \/ \E m \in DOMAIN u : t[n] = u[m]
      OBVIOUS
    <2>1. n \in 1..(Len(s) + Len(u)) /\ Len(s) \in Nat /\ Len(u) \in Nat
      BY <1>2, <1>1
    <2>2. CASE n <= Len(s)
      BY <2>1, <2>2, <1>1
    <2>3. CASE n > Len(s)
      <3>1. n - Len(s) \in DOMAIN u /\ t[n] = u[n - Len(s)]
        BY <2>1, <2>3, <1>1
      <3> QED
        BY <3>1
    <2> QED
      BY <2>1, <2>2, <2>3
  <1>4. IsSequence(t)
    BY ONLY <1>2, OwnElements
  <1> QED
    BY <1>3, <1>4


-------------------------------------------------------------------------------
(***************************************************************************)
(* One lemma per action.                                                   *)
(***************************************************************************)
LEMMA FromMapTypeInv == TypeInv /\ FromMap => TypeInv'
  <1> SUFFICES ASSUME TypeInv, FromMap PROVE TypeInv'
    OBVIOUS
  <1> USE DEF TypeInv, FromMap, Goto, groupVars, pathVars, buildVars, outVars
  <1>1. Cardinality(ingresses) \in Nat
    BY InputsAssumption, FS_CardinalityType
  <1>2. ingressList' \in Seq(ingresses)
    BY <1>1 DEF SortedLists
  <1>3. TypeOK'
    BY <1>2 DEF TypeOK, Phases
  <1>4. DOMAIN ruleGroups' = {} /\ DOMAIN defaultBackends' = {}
    BY DEF Linked, NothingGrouped, EmptyMap
  <1>5. Linked'
    BY <1>4 DEF Linked, GroupsLinked, DefaultsLinked, NothingGrouped, PendingLinked,
                PathsLinked, RuleLinked, GatewayLinked, Building
  <1> QED
    BY <1>3, <1>5

LEMMA JoinGroup ==
  ASSUME NEW rg \in RuleGroup, NEW tls \in Seq(TLSRecord),
         NEW mem \in [ingress : Nat, rule : Nat],
         NEW new, new = [rg EXCEPT !.tls = @ \o tls, !.rules = Append(@, mem)]
  PROVE  /\ new \in RuleGroup
         /\ new.ns = rg.ns /\ new.class = rg.class /\ new.host = rg.host
         /\ new.rules = Append(rg.rules, mem)
  <1>1. new = [ns |-> rg.ns, name |-> rg.name, class |-> rg.class, host |-> rg.host,
               tls |-> rg.tls \o tls, rules |-> Append(rg.rules, mem)]
    BY DEF RuleGroup
  <1>2. /\ rg.tls \o tls \in Seq(TLSRecord)
        /\ Append(rg.rules, mem) \in Seq([ingress : Nat, rule : Nat])
    BY DEF RuleGroup, TLSRecord
  <1> QED
    BY <1>1, <1>2 DEF RuleGroup, TLSRecord

\* Appending a rule of the group keeps a list of rules of the group.
LEMMA RuleJoins ==
  ASSUME NEW list, NEW key, NEW S, NEW s \in Seq(S), NEW m \in S, InGroup(list, m, key),
         \A n \in DOMAIN s : InGroup(list, s[n], key), NEW t, t = Append(s, m)
  PROVE  \A n \in DOMAIN t : InGroup(list, t[n], key)
  <1> SUFFICES ASSUME NEW n \in DOMAIN t PROVE InGroup(list, t[n], key)
    OBVIOUS
  <1>1. n \in DOMAIN s \union {Len(s) + 1}
    OBVIOUS
  <1>2. CASE n \in DOMAIN s
    <2>1. t[n] = s[n]
      BY <1>2
    <2> QED
      BY <2>1, <1>2
  <1>3. CASE n = Len(s) + 1
    <2>1. t[n] = m
      BY <1>3
    <2> QED
      BY <2>1
  <1> QED
    BY <1>1, <1>2, <1>3

LEMMA AddIngressRuleTypeInv == TypeInv /\ AddIngressRule => TypeInv'
  <1> SUFFICES ASSUME TypeInv, AddIngressRule PROVE TypeInv'
    OBVIOUS
  <1> DEFINE ing == ingressList[i]
             key == GroupKey(ing, ing.rules[j].host)
             rg  == IF key \in DOMAIN ruleGroups
                    THEN ruleGroups[key]
                    ELSE [ns |-> ing.ns, name |-> ing.name, class |-> key.class,
                          host |-> key.host, tls |-> <<>>, rules |-> <<>>]
             mem == [ingress |-> i, rule |-> j]
             new == [rg EXCEPT !.tls = @ \o ing.tls, !.rules = Append(@, mem)]
  <1>1. /\ phase = "aggregate" /\ i <= Len(ingressList) /\ j <= Len(ing.rules)
        /\ ruleGroups' = Put(ruleGroups, key, new)
        /\ j' = j + 1
        /\ UNCHANGED <<ingresses, ingressList, phase, i, defaultBackends, pending,
                       current, matchKeys, pathsByKey, route, rule, listeners,
                       httpRoutes, gateways, routeByKey, errors>>
    BY DEF AddIngressRule, pathVars, buildVars, outVars
  <1>2. i \in Nat \ {0} /\ j \in Nat \ {0} /\ i \in DOMAIN ingressList /\ ing \in Ingress
    BY <1>1, ListedIngress DEF TypeInv, TypeOK
  <1>3. j \in DOMAIN ing.rules
    BY <1>1, <1>2, IngressFields
  <1>4. key \in RuleGroupKey
    BY <1>2, <1>3, ListedRule DEF TypeInv
  <1>5. /\ rg \in RuleGroup
        /\ key = [ns |-> rg.ns, class |-> rg.class, host |-> rg.host]
        /\ \A n \in DOMAIN rg.rules : InGroup(ingressList, rg.rules[n], key)
    <2>1. CASE key \in DOMAIN ruleGroups
      BY <2>1 DEF TypeInv, TypeOK, MapOf, Linked, GroupsLinked
    <2>2. CASE key \notin DOMAIN ruleGroups
      <3>1. rg = [ns |-> ing.ns, name |-> ing.name, class |-> key.class,
                  host |-> key.host, tls |-> <<>>, rules |-> <<>>]
        BY <2>2
      <3>2. key.class \in String /\ key.host \in String /\ key.ns = ing.ns
            /\ key = [ns |-> key.ns, class |-> key.class, host |-> key.host]
        BY <1>4 DEF RuleGroupKey, GroupKey
      <3>3. ing.ns \in String /\ ing.name \in String
        BY <1>2, IngressFields
      <3> HIDE DEF key, rg, ing
      <3>4. rg \in RuleGroup
        BY <3>1, <3>2, <3>3 DEF RuleGroup
      <3>5. rg.rules = <<>> /\ key = [ns |-> rg.ns, class |-> rg.class, host |-> rg.host]
        BY <3>1, <3>2
      <3> QED
        BY <3>4, <3>5
    <2> QED
      BY <2>1, <2>2
  <1>6. ing.tls \in Seq(TLSRecord) /\ mem \in [ingress : Nat, rule : Nat]
    BY <1>2, IngressFields
  <1>7. InGroup(ingressList, mem, key)
    BY <1>2, <1>3 DEF InGroup
  <1> HIDE DEF ing, key, rg, mem
  <1>8. /\ new \in RuleGroup
        /\ new.ns = rg.ns /\ new.class = rg.class /\ new.host = rg.host
        /\ new.rules = Append(rg.rules, mem)
    BY <1>5, <1>6, JoinGroup
  <1> HIDE DEF new
  <1>9. \A n \in DOMAIN new.rules : InGroup(ingressList, new.rules[n], key)
    <2>1. rg.rules \in Seq([ingress : Nat, rule : Nat])
      BY <1>5 DEF RuleGroup
    <2> QED
      BY ONLY <2>1, <1>5, <1>6, <1>7, <1>8, RuleJoins
  <1>10. MapOf(ruleGroups', RuleGroupKey, RuleGroup)
    BY <1>1, <1>4, <1>8, PutMap DEF TypeInv, TypeOK
  <1>11. TypeOK'
    BY <1>1, <1>2, <1>10 DEF TypeInv, TypeOK
  <1>12. GroupsLinked'
    <2>1. DOMAIN ruleGroups' = DOMAIN ruleGroups \union {key}
      BY <1>1 DEF Put
    <2>2. ruleGroups'[key] = new
      BY <1>1 DEF Put
    <2>3. \A k \in DOMAIN ruleGroups : k # key => ruleGroups'[k] = ruleGroups[k]
      BY <1>1 DEF Put
    <2>4. key = [ns |-> new.ns, class |-> new.class, host |-> new.host]
      BY <1>5, <1>8
    <2>5. GroupsLinked
      BY DEF TypeInv, Linked
    <2>6. SUFFICES ASSUME NEW k \in DOMAIN ruleGroups'
                   PROVE  /\ k = [ns |-> ruleGroups'[k].ns, class |-> ruleGroups'[k].class,
                                  host |-> ruleGroups'[k].host]
                          /\ \A n \in DOMAIN ruleGroups'[k].rules :
                               InGroup(ingressList, ruleGroups'[k].rules[n], k)
      BY <1>1 DEF GroupsLinked
    <2>7. CASE k = key
      BY <2>7, <2>2, <2>4, <1>9
    <2>8. CASE k # key
      BY <2>8, <2>1, <2>3, <2>5 DEF GroupsLinked
    <2> QED
      BY <2>7, <2>8
  <1>13. Linked'
    BY <1>1, <1>12 DEF TypeInv, Linked, DefaultsLinked, NothingGrouped, PendingLinked,
                PathsLinked, RuleLinked, GatewayLinked, Building
  <1> QED
    BY <1>1, <1>11, <1>13 DEF TypeInv

LEMMA AddDefaultBackendTypeInv == TypeInv /\ AddDefaultBackend => TypeInv'
  <1> SUFFICES ASSUME TypeInv, AddDefaultBackend PROVE TypeInv'
    OBVIOUS
  <1> USE DEF TypeInv, AddDefaultBackend, pathVars, buildVars, outVars
  <1>1. i \in DOMAIN ingressList
    BY DEF TypeOK
  <1>2. TypeOK'
    BY DEF TypeOK
  <1>3. DefaultsLinked'
    BY <1>1 DEF Linked, DefaultsLinked, TypeOK
  <1>4. Linked'
    BY <1>3 DEF Linked, GroupsLinked, NothingGrouped, PendingLinked, PathsLinked,
                RuleLinked, GatewayLinked, Building
  <1> QED
    BY <1>2, <1>4

LEMMA SortRuleGroupsTypeInv == TypeInv /\ SortRuleGroups => TypeInv'
  <1> SUFFICES ASSUME TypeInv, SortRuleGroups PROVE TypeInv'
    OBVIOUS
  <1>1. /\ phase' = "groups" /\ i' = 1 /\ j' = 1 /\ pending' = DOMAIN ruleGroups
        /\ UNCHANGED <<ingresses, ingressList, ruleGroups, defaultBackends, current,
                       matchKeys, pathsByKey, route, rule, listeners, httpRoutes,
                       gateways, routeByKey, errors>>
    BY DEF SortRuleGroups, Goto, groupVars, pathVars, buildVars, outVars
  <1>2. pending' \subseteq RuleGroupKey \union GatewayKey
    BY <1>1 DEF TypeInv, TypeOK, MapOf
  <1>3. TypeOK'
    BY <1>1, <1>2 DEF TypeInv, TypeOK, Phases
  <1>4. Linked'
    BY <1>1 DEF TypeInv, Linked, GroupsLinked, DefaultsLinked, NothingGrouped,
           PendingLinked, PathsLinked, RuleLinked, GatewayLinked, Building
  <1> QED
    BY <1>1, <1>3, <1>4 DEF TypeInv

LEMMA GroupListenerType ==
  ASSUME NEW rg \in RuleGroup
  PROVE  [host |-> ListenerHost(rg), certs |-> Secrets(rg.tls)]
           \in [host : String, certs : Seq(STRING)]
  <1>1. rg.host \in String /\ rg.tls \in Seq(TLSRecord)
    BY DEF RuleGroup, TLSRecord
  <1>2. Secrets(rg.tls) \in Seq(STRING)
    <2>1. \A n \in DOMAIN rg.tls : rg.tls[n].secret \in STRING
      <3>1. \A n \in DOMAIN rg.tls : rg.tls[n] \in TLSRecord
        BY <1>1
      <3> QED
        BY <3>1 DEF TLSRecord
    <2>2. DOMAIN rg.tls = 1..Len(rg.tls) /\ Len(rg.tls) \in Nat
      BY <1>1
    <2> QED
      BY <2>1, <2>2 DEF Secrets
  <1>3. ListenerHost(rg) \in String
    <2>1. CASE rg.host # <<>>
      BY <1>1, <2>1 DEF ListenerHost
    <2>2. CASE rg.host = <<>> /\ Len(rg.tls) = 1 /\ Len(rg.tls[1].hosts) = 1
      <3>1. rg.tls[1] \in TLSRecord
        BY <1>1, <2>2
      <3>2. rg.tls[1].hosts[1] \in String
        BY <3>1, <2>2 DEF TLSRecord
      <3> QED
        BY <2>2, <3>2 DEF ListenerHost
    <2>3. CASE rg.host = <<>> /\ ~(Len(rg.tls) = 1 /\ Len(rg.tls[1].hosts) = 1)
      BY <1>1, <2>3 DEF ListenerHost
    <2> QED
      BY <2>1, <2>2, <2>3
  <1> QED
    BY <1>2, <1>3

LEMMA NextRuleGroupTypeInv == TypeInv /\ NextRuleGroup => TypeInv'
  <1> SUFFICES ASSUME TypeInv, NextRuleGroup PROVE TypeInv'
    OBVIOUS
  <1> DEFINE rg(k)    == ruleGroups[k]
             gwKey(k) == [ns |-> rg(k).ns, class |-> rg(k).class]
             old(k)   == IF gwKey(k) \in DOMAIN listeners THEN listeners[gwKey(k)] ELSE <<>>
             host(k)  == [host |-> ListenerHost(rg(k)), certs |-> Secrets(rg(k).tls)]
             L        == [host : String, certs : Seq(STRING)]
  <1>1. PICK k \in pending :
          /\ listeners' = Put(listeners, gwKey(k), Append(old(k), host(k)))
          /\ route' = [ns |-> rg(k).ns, name |-> RouteName(rg(k).name, rg(k).host),
                       class |-> rg(k).class, host |-> rg(k).host,
                       rules |-> <<>>, sources |-> <<>>]
          /\ current' = k /\ pending' = pending \ {k}
    BY DEF NextRuleGroup
  <1>2. /\ phase = "groups" /\ phase' = "paths" /\ i' = 1 /\ j' = 1
        /\ matchKeys' = <<>> /\ pathsByKey' = EmptyMap
        /\ UNCHANGED <<ingresses, ingressList, ruleGroups, defaultBackends, rule,
                       httpRoutes, gateways, routeByKey, errors>>
    BY DEF NextRuleGroup, Goto, groupVars
  <1>3. k \in DOMAIN ruleGroups /\ k \in RuleGroupKey /\ rg(k) \in RuleGroup
    BY <1>1, <1>2 DEF TypeInv, Linked, PendingLinked, TypeOK, MapOf
  <1>4. k = [ns |-> rg(k).ns, class |-> rg(k).class, host |-> rg(k).host]
    BY <1>3 DEF TypeInv, Linked, GroupsLinked
  <1>5. gwKey(k) \in GatewayKey
    BY <1>3 DEF RuleGroup, GatewayKey
  <1>6. host(k) \in L
    BY <1>3, GroupListenerType
  <1>7. MapOf(listeners, GatewayKey, Seq(L))
    BY DEF TypeInv, TypeOK
  <1>8. old(k) \in Seq(L)
    <2> HIDE DEF gwKey, L
    <2> QED
      BY <1>7 DEF MapOf
  <1>9. IsRoute(route')
    BY <1>1, <1>3 DEF IsRoute, RuleGroup
  <1>10. current' = [ns |-> route'.ns, class |-> route'.class, host |-> route'.host]
    BY <1>1, <1>4
  <1>11. MapOf(listeners', GatewayKey, Seq(L))
    <2> HIDE DEF gwKey, old, host, L
    <2>1. Append(old(k), host(k)) \in Seq(L)
      BY <1>6, <1>8
    <2> QED
      BY <1>1, <1>5, <1>7, <2>1, PutMap
  <1>12. DOMAIN pathsByKey' = {} /\ DOMAIN matchKeys' = {}
    BY <1>2 DEF EmptyMap
  <1> HIDE DEF rg
  <1>13. MapOf(pathsByKey', MatchKey, Seq(Pointer))
    BY <1>12 DEF MapOf
  <1>14. matchKeys' \in Seq(MatchKey)
    BY <1>2
  <1>15. TypeOK'
    BY <1>1, <1>2, <1>3, <1>9, <1>11, <1>13, <1>14 DEF TypeInv, TypeOK, Phases
  <1>16. Linked'
    BY <1>1, <1>2, <1>3, <1>9, <1>10, <1>12
       DEF TypeInv, Linked, GroupsLinked, DefaultsLinked, NothingGrouped,
           PendingLinked, PathsLinked, RuleLinked, GatewayLinked, Building
  <1> QED
    BY <1>2, <1>15, <1>16 DEF TypeInv

LEMMA GroupIngressPathTypeInv == TypeInv /\ GroupIngressPath => TypeInv'
  <1> SUFFICES ASSUME TypeInv, GroupIngressPath PROVE TypeInv'
    OBVIOUS
  <1> DEFINE r    == ruleGroups[current].rules[i]
             spec == ingressList[r.ingress].rules[r.rule]
             p    == [ingress |-> r.ingress, rule |-> r.rule, path |-> j]
             key  == PathMatchKey(PathAt(p))
  <1>1. /\ phase = "paths" /\ i <= Len(ruleGroups[current].rules)
        /\ UNCHANGED <<ingresses, ingressList, ruleGroups, defaultBackends, pending,
                       current, route, rule, listeners, httpRoutes, gateways,
                       routeByKey, errors>>
    BY DEF GroupIngressPath, groupVars, buildVars, outVars
  <1>2. CASE phase' = "panicked" /\ UNCHANGED <<i, j, matchKeys, pathsByKey>>
    <2>1. TypeOK'
      BY <1>1, <1>2 DEF TypeInv, TypeOK, Phases
    <2>2. Linked'
      BY <1>1, <1>2 DEF TypeInv, Linked, GroupsLinked, DefaultsLinked, NothingGrouped,
           PendingLinked, PathsLinked, RuleLinked, GatewayLinked, Building
    <2> QED
      BY <1>1, <2>1, <2>2 DEF TypeInv
  <1>3. CASE /\ j <= Len(spec.paths)
             /\ IF key \in DOMAIN pathsByKey
                THEN /\ pathsByKey' = [pathsByKey EXCEPT ![key] = Append(@, p)]
                     /\ UNCHANGED matchKeys
                ELSE /\ pathsByKey' = Put(pathsByKey, key, <<p>>)
                     /\ matchKeys' = Append(matchKeys, key)
             /\ j' = j + 1 /\ UNCHANGED <<phase, i>>
    <2>1. i \in Nat \ {0} /\ j \in Nat \ {0}
      BY DEF TypeInv, TypeOK
    <2>2. current \in DOMAIN ruleGroups
      BY <1>1 DEF TypeInv, Linked, PathsLinked, Building
    <2>3. ruleGroups[current].rules \in Seq([ingress : Nat, rule : Nat])
      BY <2>2 DEF TypeInv, TypeOK, MapOf, RuleGroup
    <2>4. i \in DOMAIN ruleGroups[current].rules /\ r \in [ingress : Nat, rule : Nat]
      BY <1>1, <2>1, <2>3, Element
    <2>5. InGroup(ingressList, r, current)
      BY <2>2, <2>4 DEF TypeInv, Linked, GroupsLinked
    <2>6. spec.paths \in Seq(PathRecord)
      BY <2>5, ListedRule DEF TypeInv, InGroup, RuleRecord
    <2>7. p \in Pointer /\ InGroup(ingressList, p, current)
      BY <2>1, <2>4, <2>5 DEF Pointer, InGroup
    <2>8. ValidPath(ingressList, p)
      <3>1. j \in DOMAIN spec.paths
        <4>1. j <= Len(spec.paths)
          BY <1>3
        <4> QED
          BY ONLY <2>1, <2>6, <4>1, Element
      <3> QED
        BY <2>5, <3>1 DEF ValidPath, InGroup
    <2>9. key \in MatchKey /\ key = PathMatchKey(PathIn(ingressList, p))
      BY <2>8, ValidPathFields DEF TypeInv, PathAt, PathIn
    <2> DEFINE old == IF key \in DOMAIN pathsByKey THEN pathsByKey[key] ELSE <<>>
    <2> HIDE DEF key, p
    <2>10. MapOf(pathsByKey, MatchKey, Seq(Pointer)) /\ matchKeys \in Seq(MatchKey)
      BY DEF TypeInv, TypeOK
    <2>11. /\ DOMAIN pathsByKey' = DOMAIN pathsByKey \union {key}
           /\ pathsByKey'[key] = Append(old, p)
           /\ \A k \in DOMAIN pathsByKey : k # key => pathsByKey'[k] = pathsByKey[k]
      <3>1. CASE key \in DOMAIN pathsByKey
        BY <1>3, <3>1
      <3>2. CASE key \notin DOMAIN pathsByKey
        <4>1. Append(old, p) = <<p>>
          BY <3>2
        <4>2. pathsByKey' = Put(pathsByKey, key, <<p>>)
          BY <1>3, <3>2
        <4> QED
          BY <3>2, <4>1, <4>2 DEF Put
      <3> QED
        BY <3>1, <3>2
    <2>12. old \in Seq(Pointer) /\ Append(old, p) \in Seq(Pointer)
      BY <2>7, <2>10 DEF MapOf
    <2>13. MapOf(pathsByKey', MatchKey, Seq(Pointer))
      BY <2>9, <2>10, <2>11, <2>12 DEF MapOf
    <2>14. matchKeys' \in Seq(MatchKey)
      BY <1>3, <2>9, <2>10
    <2>15. TypeOK'
      BY <1>1, <1>3, <2>1, <2>13, <2>14 DEF TypeInv, TypeOK
    <2>16. \A n \in DOMAIN matchKeys' : matchKeys'[n] \in DOMAIN pathsByKey'
      <3>1. \A n \in DOMAIN matchKeys : matchKeys[n] \in DOMAIN pathsByKey
        BY <1>1 DEF TypeInv, Linked, PathsLinked, Building
      <3>2. \A n \in DOMAIN matchKeys' : \/ n \in DOMAIN matchKeys /\ matchKeys'[n] = matchKeys[n]
                                        \/ matchKeys'[n] = key
        BY <1>3, <2>9, <2>10
      <3> QED
        BY <3>1, <3>2, <2>11
    <2> DEFINE Ok(q, k) == /\ ValidPath(ingressList, q)
                           /\ InGroup(ingressList, q, current)
                           /\ PathMatchKey(PathIn(ingressList, q)) = k
    <2>17. \A k \in DOMAIN pathsByKey' : \A n \in DOMAIN pathsByKey'[k] : Ok(pathsByKey'[k][n], k)
      <3>1. \A k \in DOMAIN pathsByKey : \A n \in DOMAIN pathsByKey[k] : Ok(pathsByKey[k][n], k)
        BY <1>1 DEF TypeInv, Linked, PathsLinked, Building
      <3>2. Ok(p, key)
        BY <2>7, <2>8, <2>9
      <3> HIDE DEF Ok
      <3>3. \A n \in DOMAIN old : Ok(old[n], key)
        BY <3>1
      <3> HIDE DEF old
      <3>4. \A n \in DOMAIN Append(old, p) : Ok(Append(old, p)[n], key)
        BY <2>7, <2>12, <3>2, <3>3
      <3> QED
        BY <2>11, <3>1, <3>4
    <2>18. PathsLinked'
      BY <1>1, <2>16, <2>17 DEF TypeInv, Linked, PathsLinked, Building
    <2>19. Linked'
      BY <1>1, <1>3, <2>18 DEF TypeInv, Linked, GroupsLinked, DefaultsLinked,
           NothingGrouped, PendingLinked, RuleLinked, GatewayLinked, Building
    <2> QED
      BY <1>1, <2>15, <2>19 DEF TypeInv
  <1>4. CASE i' = i + 1 /\ j' = 1 /\ UNCHANGED <<phase, matchKeys, pathsByKey>>
    <2>1. TypeOK'
      BY <1>1, <1>4 DEF TypeInv, TypeOK
    <2>2. Linked'
      BY <1>1, <1>4 DEF TypeInv, Linked, GroupsLinked, DefaultsLinked, NothingGrouped,
           PendingLinked, PathsLinked, RuleLinked, GatewayLinked, Building
    <2> QED
      BY <1>1, <2>1, <2>2 DEF TypeInv
  <1> QED
    BY <1>2, <1>3, <1>4 DEF GroupIngressPath, pathVars

LEMMA PathsGroupedTypeInv == TypeInv /\ PathsGrouped => TypeInv'
  <1> SUFFICES ASSUME TypeInv, PathsGrouped PROVE TypeInv'
    OBVIOUS
  <1>1. /\ phase = "paths" /\ phase' = "rules" /\ i' = 1 /\ j' = 1
        /\ UNCHANGED <<ingresses, ingressList, ruleGroups, defaultBackends, pending,
                       current, matchKeys, pathsByKey, route, rule, listeners,
                       httpRoutes, gateways, routeByKey, errors>>
    BY DEF PathsGrouped, Goto, groupVars, pathVars, buildVars, outVars
  <1>2. TypeOK'
    BY <1>1 DEF TypeInv, TypeOK, Phases
  <1>3. Linked'
    BY <1>1 DEF TypeInv, Linked, GroupsLinked, DefaultsLinked, NothingGrouped,
           PendingLinked, PathsLinked, RuleLinked, GatewayLinked, Building
  <1> QED
    BY <1>1, <1>2, <1>3 DEF TypeInv

LEMMA ToHTTPRouteRuleTypeInv == TypeInv /\ ToHTTPRouteRule => TypeInv'
  <1> SUFFICES ASSUME TypeInv, ToHTTPRouteRule PROVE TypeInv'
    OBVIOUS
  <1> DEFINE key == matchKeys[i]
  <1>1. /\ phase = "rules" /\ i <= Len(matchKeys)
        /\ UNCHANGED <<ingresses, ingressList, ruleGroups, defaultBackends, pending,
                       current, matchKeys, pathsByKey, route, listeners, httpRoutes,
                       gateways, routeByKey>>
    BY DEF ToHTTPRouteRule, groupVars, pathVars
  <1>2. i \in Nat \ {0} /\ i \in DOMAIN matchKeys /\ key \in MatchKey
    BY <1>1, Element DEF TypeInv, TypeOK
  <1>3. CASE phase' = "panicked" /\ UNCHANGED <<i, j, rule, errors>>
    <2>1. TypeOK'
      BY <1>1, <1>3 DEF TypeInv, TypeOK, Phases
    <2>2. Linked'
      BY <1>1, <1>3 DEF TypeInv, Linked, GroupsLinked, DefaultsLinked, NothingGrouped,
           PendingLinked, PathsLinked, RuleLinked, GatewayLinked, Building
    <2> QED
      BY <1>1, <2>1, <2>2 DEF TypeInv
  <1>4. CASE /\ errors' = errors \union {"pathType"} /\ i' = i + 1
             /\ UNCHANGED <<phase, j, rule>>
    <2>1. TypeOK'
      BY <1>1, <1>4 DEF TypeInv, TypeOK
    <2>2. Linked'
      BY <1>1, <1>4 DEF TypeInv, Linked, GroupsLinked, DefaultsLinked, NothingGrouped,
           PendingLinked, PathsLinked, RuleLinked, GatewayLinked, Building
    <2> QED
      BY <1>1, <2>1, <2>2 DEF TypeInv
  <1>5. CASE /\ rule' = [name |-> i - 1, match |-> ToHTTPRouteMatch(key),
                        backendRefs |-> <<>>, sources |-> <<>>]
             /\ phase' = "backends" /\ j' = 1 /\ UNCHANGED <<i, errors>>
    <2>1. ToHTTPRouteMatch(key) \in Match
      BY <1>2 DEF ToHTTPRouteMatch, Match, MatchKey
    <2>2. rule' \in RuleWithSources
      BY <1>2, <1>5, <2>1 DEF RuleWithSources
    <2>3. TypeOK'
      BY <1>1, <1>5, <2>2 DEF TypeInv, TypeOK, Phases
    <2>4. Linked'
      BY <1>1, <1>2, <1>5, <2>2 DEF TypeInv, Linked, GroupsLinked, DefaultsLinked,
           NothingGrouped, PendingLinked, PathsLinked, RuleLinked, GatewayLinked, Building
    <2> QED
      BY <1>1, <2>3, <2>4 DEF TypeInv
  <1> QED
    BY <1>3, <1>4, <1>5 DEF ToHTTPRouteRule

\* The backend that configureBackendRef is looking at.
LEMMA CurrentBackend ==
  ASSUME TypeInv, phase = "backends", j <= Len(pathsByKey[matchKeys[i]])
  PROVE  LET p == pathsByKey[matchKeys[i]][j]
         IN  /\ p \in Pointer
             /\ ValidPath(ingressList, p) /\ InGroup(ingressList, p, current)
             /\ PathMatchKey(PathIn(ingressList, p)) = matchKeys[i]
             /\ p.rule # 0 /\ BackendAt(p) \in Backend
  <1> DEFINE p == pathsByKey[matchKeys[i]][j]
  <1>1. matchKeys[i] \in DOMAIN pathsByKey
    BY DEF TypeInv, Linked, PathsLinked, RuleLinked, Building
  <1>2. pathsByKey[matchKeys[i]] \in Seq(Pointer)
    BY <1>1 DEF TypeInv, TypeOK, MapOf
  <1>3. j \in DOMAIN pathsByKey[matchKeys[i]] /\ p \in Pointer
    BY <1>2, Element DEF TypeInv, TypeOK
  <1>4. /\ ValidPath(ingressList, p) /\ InGroup(ingressList, p, current)
        /\ PathMatchKey(PathIn(ingressList, p)) = matchKeys[i]
    BY <1>1, <1>3 DEF TypeInv, Linked, PathsLinked, Building
  <1>5. ingressList[p.ingress].rules \in Seq(RuleRecord)
    BY <1>4, ListedIngress, IngressFields DEF TypeInv, InGroup
  <1>6. p.rule # 0
    <2>1. p.rule \in DOMAIN ingressList[p.ingress].rules
      BY <1>4 DEF InGroup
    <2> HIDE DEF p
    <2> QED
      BY <1>5, <2>1
  <1>7. BackendAt(p) \in Backend
    BY <1>4, <1>6, ValidPathFields DEF TypeInv, BackendAt, PathAt, PathIn, PathRecord
  <1> QED
    BY <1>3, <1>4, <1>6, <1>7

LEMMA JoinRule ==
  ASSUME NEW r \in RuleWithSources, NEW ref \in BackendRef, NEW p \in Pointer,
         NEW new, new = WithBackend(r, ref, p)
  PROVE  /\ new \in RuleWithSources
         /\ new.name = r.name /\ new.match = r.match
         /\ new.backendRefs = Append(r.backendRefs, ref)
         /\ new.sources = Append(r.sources, p)
  <1>1. new = [name |-> r.name, match |-> r.match,
               backendRefs |-> Append(r.backendRefs, ref),
               sources |-> Append(r.sources, p)]
    BY DEF RuleWithSources, WithBackend
  <1>2. /\ r.name \in Nat /\ r.match \in Match
        /\ r.backendRefs \in Seq(BackendRef) /\ r.sources \in Seq(Pointer)
    BY DEF RuleWithSources
  <1>3. /\ Append(r.backendRefs, ref) \in Seq(BackendRef)
        /\ Append(r.sources, p) \in Seq(Pointer)
    BY <1>2
  <1> QED
    BY <1>1, <1>2, <1>3 DEF RuleWithSources

LEMMA ConfigureBackendRefTypeInv == TypeInv /\ ConfigureBackendRef => TypeInv'
  <1> SUFFICES ASSUME TypeInv, ConfigureBackendRef PROVE TypeInv'
    OBVIOUS
  <1> DEFINE p == pathsByKey[matchKeys[i]][j]
  <1>1. /\ phase = "backends" /\ j <= Len(pathsByKey[matchKeys[i]]) /\ j' = j + 1
        /\ UNCHANGED <<ingresses, ingressList, phase, i, ruleGroups, defaultBackends,
                       pending, current, matchKeys, pathsByKey, route, listeners,
                       httpRoutes, gateways, routeByKey>>
    BY DEF ConfigureBackendRef, groupVars, pathVars
  <1>2. p \in Pointer /\ BackendAt(p) \in Backend
    BY <1>1, CurrentBackend
  <1>3. rule \in RuleWithSources
    BY <1>1 DEF TypeInv, Linked, RuleLinked
  <1>4. rule' \in RuleWithSources /\ errors' \subseteq {"pathType", "portName", "gatewayKey"}
    <2>1. CASE Resolves(route.ns, BackendAt(p))
      <3>1. ToBackendRef(route.ns, BackendAt(p)) \in BackendRef
        BY <1>2, <2>1, ToBackendRefType
      <3>2. /\ rule' = WithBackend(rule, ToBackendRef(route.ns, BackendAt(p)), p)
            /\ errors' = errors
        BY <2>1 DEF ConfigureBackendRef
      <3>3. rule' \in RuleWithSources
        BY <1>2, <1>3, <3>1, <3>2, JoinRule
      <3> QED
        BY <3>2, <3>3 DEF TypeInv, TypeOK
    <2>2. CASE ~Resolves(route.ns, BackendAt(p))
      <3>1. rule' = rule /\ errors' = errors \union {"portName"}
        BY <2>2 DEF ConfigureBackendRef
      <3> QED
        BY <1>3, <3>1 DEF TypeInv, TypeOK
    <2> QED
      BY <2>1, <2>2
  <1>5. TypeOK'
    BY <1>1, <1>4 DEF TypeInv, TypeOK
  <1>6. Linked'
    BY <1>1, <1>4 DEF TypeInv, Linked, GroupsLinked, DefaultsLinked, NothingGrouped,
           PendingLinked, PathsLinked, RuleLinked, GatewayLinked, Building
  <1> QED
    BY <1>1, <1>5, <1>6 DEF TypeInv

LEMMA ExtendRoute ==
  ASSUME NEW rt, IsRoute(rt), NEW r \in Rule, NEW sources \in Seq(Pointer),
         NEW new, new = WithRule(rt, r, sources)
  PROVE  /\ IsRoute(new)
         /\ new.ns = rt.ns /\ new.name = rt.name
         /\ new.class = rt.class /\ new.host = rt.host
         /\ new.rules = Append(rt.rules, r) /\ new.sources = Append(rt.sources, sources)
  <1>1. rt = [ns |-> rt.ns, name |-> rt.name, class |-> rt.class, host |-> rt.host,
              rules |-> rt.rules, sources |-> rt.sources]
    BY DEF IsRoute
  <1>2. DOMAIN rt = {"ns", "name", "class", "host", "rules", "sources"}
    BY <1>1
  <1>3. new = [ns |-> rt.ns, name |-> rt.name, class |-> rt.class, host |-> rt.host,
               rules |-> Append(rt.rules, r), sources |-> Append(rt.sources, sources)]
    BY <1>2 DEF WithRule
  <1>4. rt.rules \in Seq(Rule) /\ rt.sources \in Seq(Seq(Pointer))
    BY DEF IsRoute
  <1>5. Append(rt.rules, r) \in Seq(Rule) /\ Append(rt.sources, sources) \in Seq(Seq(Pointer))
    BY <1>4
  <1> QED
    BY <1>3, <1>5 DEF IsRoute

LEMMA AppendRuleTypeInv == TypeInv /\ AppendRule => TypeInv'
  <1> SUFFICES ASSUME TypeInv, AppendRule PROVE TypeInv'
    OBVIOUS
  <1> DEFINE r == [name |-> rule.name, match |-> rule.match,
                   backendRefs |-> rule.backendRefs]
  <1>1. /\ phase = "backends" /\ phase' = "rules" /\ i' = i + 1 /\ j' = 1
        /\ route' = WithRule(route, r, rule.sources)
        /\ UNCHANGED <<ingresses, ingressList, ruleGroups, defaultBackends, pending,
                       current, matchKeys, pathsByKey, rule, listeners, httpRoutes,
                       gateways, routeByKey, errors>>
    BY DEF AppendRule, groupVars, pathVars, outVars
  <1>2. rule \in RuleWithSources
    BY <1>1 DEF TypeInv, Linked, RuleLinked
  <1>3. r \in Rule /\ rule.sources \in Seq(Pointer)
    BY <1>2 DEF RuleWithSources, Rule
  <1>4. IsRoute(route)
    BY <1>1 DEF TypeInv, Linked, PathsLinked, Building
  <1> HIDE DEF r
  <1>5. /\ IsRoute(route')
        /\ route'.ns = route.ns /\ route'.class = route.class /\ route'.host = route.host
    BY <1>1, <1>3, <1>4, ExtendRoute
  <1>6. TypeOK'
    BY <1>1, <1>5 DEF TypeInv, TypeOK, Phases
  <1>7. Linked'
    BY <1>1, <1>5 DEF TypeInv, Linked, GroupsLinked, DefaultsLinked, NothingGrouped,
           PendingLinked, PathsLinked, RuleLinked, GatewayLinked, Building
  <1> QED
    BY <1>1, <1>6, <1>7 DEF TypeInv

\* httpRoutes stays a sequence of routes when one is appended.
LEMMA AppendRoute ==
  ASSUME NEW s, IsSeqOf(s, IsRoute), NEW rt, IsRoute(rt), NEW t, t = Append(s, rt)
  PROVE  IsSeqOf(t, IsRoute)
  <1>1. IsSequence(s) /\ \A n \in DOMAIN s : IsRoute(s[n])
    BY DEF IsSeqOf
  <1>2. /\ IsSequence(t)
        /\ DOMAIN t = DOMAIN s \union {Len(s) + 1}
        /\ \A n \in DOMAIN s : t[n] = s[n]
        /\ t[Len(s) + 1] = rt
    <2>1. IsSequence(t)
      BY <1>1, AppendOwn
    <2>2. DOMAIN t = DOMAIN s \union {Len(s) + 1}
      BY <1>1, AppendOwn
    <2>3. (\A n \in DOMAIN s : t[n] = s[n]) /\ t[Len(s) + 1] = rt
      BY <1>1, AppendOwn
    <2> QED
      BY <2>1, <2>2, <2>3
  <1>3. \A n \in DOMAIN t : IsRoute(t[n])
    BY <1>1, <1>2
  <1> QED
    BY <1>2, <1>3 DEF IsSeqOf

LEMMA RouteBuiltTypeInv == TypeInv /\ RouteBuilt => TypeInv'
  <1> SUFFICES ASSUME TypeInv, RouteBuilt PROVE TypeInv'
    OBVIOUS
  <1>1. /\ phase = "rules" /\ phase' = "groups" /\ i' = 1 /\ j' = 1
        /\ httpRoutes' = Append(httpRoutes, route)
        /\ UNCHANGED <<ingresses, ingressList, ruleGroups, defaultBackends, pending,
                       current, matchKeys, pathsByKey, route, rule, listeners,
                       gateways, routeByKey, errors>>
    BY DEF RouteBuilt, Goto, groupVars, pathVars, buildVars
  <1>2. IsRoute(route) /\ IsSeqOf(httpRoutes, IsRoute)
    BY <1>1 DEF TypeInv, TypeOK, Linked, PathsLinked, Building
  <1>3. IsSeqOf(httpRoutes, IsRoute)'
    BY <1>1, <1>2, AppendRoute
  <1>4. TypeOK'
    BY <1>1, <1>3 DEF TypeInv, TypeOK, Phases
  <1>5. Linked'
    BY <1>1 DEF TypeInv, Linked, GroupsLinked, DefaultsLinked, NothingGrouped,
           PendingLinked, PathsLinked, RuleLinked, GatewayLinked, Building
  <1> QED
    BY <1>1, <1>4, <1>5 DEF TypeInv

LEMMA GroupsBuiltTypeInv == TypeInv /\ GroupsBuilt => TypeInv'
  <1> SUFFICES ASSUME TypeInv, GroupsBuilt PROVE TypeInv'
    OBVIOUS
  <1>1. /\ phase = "groups" /\ phase' = "defaults" /\ i' = 1 /\ j' = 1
        /\ UNCHANGED <<ingresses, ingressList, ruleGroups, defaultBackends, pending,
                       current, matchKeys, pathsByKey, route, rule, listeners,
                       httpRoutes, gateways, routeByKey, errors>>
    BY DEF GroupsBuilt, Goto, groupVars, pathVars, buildVars, outVars
  <1>2. TypeOK'
    BY <1>1 DEF TypeInv, TypeOK, Phases
  <1>3. Linked'
    BY <1>1 DEF TypeInv, Linked, GroupsLinked, DefaultsLinked, NothingGrouped,
           PendingLinked, PathsLinked, RuleLinked, GatewayLinked, Building
  <1> QED
    BY <1>1, <1>2, <1>3 DEF TypeInv

\* The default backend a pointer of defaultBackends leads to.
LEMMA CurrentDefault ==
  ASSUME TypeInv, i <= Len(defaultBackends)
  PROVE  LET p == [ingress |-> defaultBackends[i], rule |-> 0, path |-> 0]
         IN  /\ p \in Pointer /\ p.ingress \in DOMAIN ingressList
             /\ ingressList[p.ingress] \in Ingress
             /\ BackendAt(p) \in Backend
  <1>1. defaultBackends \in Seq(Nat) /\ i \in Nat \ {0} /\ ingressList \in Seq(ingresses)
    BY DEF TypeInv, TypeOK
  <1>2. i \in DOMAIN defaultBackends /\ defaultBackends[i] \in Nat
    BY <1>1, Element
  <1>3. /\ defaultBackends[i] \in DOMAIN ingressList
        /\ ingressList[defaultBackends[i]].defaultBackend # <<>>
    BY <1>2 DEF TypeInv, Linked, DefaultsLinked
  <1>4. /\ ingressList[defaultBackends[i]] \in Ingress
        /\ ingressList[defaultBackends[i]].defaultBackend \in Seq(Backend)
    BY <1>3, ListedIngress, IngressFields DEF TypeInv
  <1>5. ingressList[defaultBackends[i]].defaultBackend[1] \in Backend
    BY <1>3, <1>4
  <1>6. [ingress |-> defaultBackends[i], rule |-> 0, path |-> 0] \in Pointer
    BY <1>2 DEF Pointer
  <1> QED
    BY <1>3, <1>4, <1>5, <1>6 DEF BackendAt

LEMMA DefaultBackendRouteTypeInv == TypeInv /\ DefaultBackendRoute => TypeInv'
  <1> SUFFICES ASSUME TypeInv, DefaultBackendRoute PROVE TypeInv'
    OBVIOUS
  <1> DEFINE p    == [ingress |-> defaultBackends[i], rule |-> 0, path |-> 0]
             ing  == ingressList[p.ingress]
             ok   == Resolves(ing.ns, BackendAt(p))
             ref  == ToBackendRef(ing.ns, BackendAt(p))
             rs   == IF ok
                     THEN <<[name |-> 0, match |-> Nothing, backendRefs |-> <<ref>>]>>
                     ELSE <<>>
             rt   == [ns |-> ing.ns, name |-> DefaultRouteName(ing.name),
                      class |-> GetIngressClass(ing), host |-> <<>>,
                      rules |-> rs, sources |-> << <<p>> >>]
  <1>1. /\ phase = "defaults" /\ i <= Len(defaultBackends) /\ i' = i + 1
        /\ httpRoutes' = Append(httpRoutes, rt)
        /\ errors' = IF ok THEN errors ELSE errors \union {"portName"}
        /\ UNCHANGED <<ingresses, ingressList, phase, j, ruleGroups, defaultBackends,
                       pending, current, matchKeys, pathsByKey, route, rule, listeners,
                       gateways, routeByKey>>
    BY DEF DefaultBackendRoute, groupVars, pathVars, buildVars
  <1>2. p \in Pointer /\ ing \in Ingress /\ BackendAt(p) \in Backend
    BY <1>1, CurrentDefault
  <1> HIDE DEF p, ing
  <1>3. rs \in Seq(Rule)
    <2>1. CASE ok
      <3>1. ref \in BackendRef
        BY <1>2, <2>1, ToBackendRefType
      <3>2. [name |-> 0, match |-> Nothing, backendRefs |-> <<ref>>] \in Rule
        BY <3>1 DEF Rule, Match
      <3> QED
        BY <2>1, <3>2
    <2>2. CASE ~ok
      BY <2>2
    <2> QED
      BY <2>1, <2>2
  <1>4. << <<p>> >> \in Seq(Seq(Pointer))
    BY <1>2
  <1>5. ing.ns \in String /\ GetIngressClass(ing) \in String /\ <<>> \in String
    BY <1>2, IngressFields DEF String
  <1> HIDE DEF rs
  <1>6. IsRoute(rt)
    BY <1>3, <1>4, <1>5 DEF IsRoute
  <1>7. IsSeqOf(httpRoutes, IsRoute)
    BY DEF TypeInv, TypeOK
  <1> HIDE DEF rt
  <1>8. IsSeqOf(httpRoutes, IsRoute)'
    BY <1>1, <1>6, <1>7, AppendRoute
  <1>9. TypeOK'
    BY <1>1, <1>8 DEF TypeInv, TypeOK
  <1>10. Linked'
    BY <1>1 DEF TypeInv, Linked, GroupsLinked, DefaultsLinked, NothingGrouped,
           PendingLinked, PathsLinked, RuleLinked, GatewayLinked, Building
  <1> QED
    BY <1>1, <1>9, <1>10 DEF TypeInv

LEMMA DefaultsBuiltTypeInv == TypeInv /\ DefaultsBuilt => TypeInv'
  <1> SUFFICES ASSUME TypeInv, DefaultsBuilt PROVE TypeInv'
    OBVIOUS
  <1>1. /\ phase = "defaults" /\ phase' = "gateways" /\ i' = 1 /\ j' = 1
        /\ pending' = DOMAIN listeners
        /\ UNCHANGED <<ingresses, ingressList, ruleGroups, defaultBackends, current,
                       matchKeys, pathsByKey, route, rule, listeners, httpRoutes,
                       gateways, routeByKey, errors>>
    BY DEF DefaultsBuilt, Goto, groupVars, pathVars, buildVars, outVars
  <1>2. pending' \subseteq RuleGroupKey \union GatewayKey
    BY <1>1 DEF TypeInv, TypeOK, MapOf
  <1>3. TypeOK'
    BY <1>1, <1>2 DEF TypeInv, TypeOK, Phases
  <1>4. Linked'
    BY <1>1 DEF TypeInv, Linked, GroupsLinked, DefaultsLinked, NothingGrouped,
           PendingLinked, PathsLinked, RuleLinked, GatewayLinked, Building
  <1> QED
    BY <1>1, <1>3, <1>4 DEF TypeInv

LEMMA NextGatewayTypeInv == TypeInv /\ NextGateway => TypeInv'
  <1> SUFFICES ASSUME TypeInv, NextGateway PROVE TypeInv'
    OBVIOUS
  <1>1. PICK k \in pending :
          /\ pending' = pending \ {k}
          /\ \/ /\ errors' = errors \union {"gatewayKey"}
                /\ UNCHANGED <<phase, j, current, gateways>>
             \/ /\ gateways' = Put(gateways, k, <<>>)
                /\ current' = k /\ phase' = "listeners" /\ j' = 1
                /\ UNCHANGED errors
    BY DEF NextGateway
  <1>2. /\ phase = "gateways"
        /\ UNCHANGED <<ingresses, ingressList, i, ruleGroups, defaultBackends, matchKeys,
                       pathsByKey, route, rule, listeners, httpRoutes, routeByKey>>
    BY DEF NextGateway, groupVars, pathVars, buildVars
  <1>3. k \in DOMAIN listeners /\ k \in GatewayKey
    BY <1>1, <1>2 DEF TypeInv, Linked, PendingLinked, TypeOK, MapOf
  <1>4. CASE /\ errors' = errors \union {"gatewayKey"}
             /\ UNCHANGED <<phase, j, current, gateways>>
    <2>1. TypeOK'
      BY <1>1, <1>2, <1>4 DEF TypeInv, TypeOK
    <2>2. Linked'
      BY <1>1, <1>2, <1>4 DEF TypeInv, Linked, GroupsLinked, DefaultsLinked,
           NothingGrouped, PendingLinked, PathsLinked, RuleLinked, GatewayLinked, Building
    <2> QED
      BY <1>2, <2>1, <2>2 DEF TypeInv
  <1>5. CASE /\ gateways' = Put(gateways, k, <<>>)
             /\ current' = k /\ phase' = "listeners" /\ j' = 1 /\ UNCHANGED errors
    <2>1. /\ DOMAIN gateways' = DOMAIN gateways \union {k} /\ gateways'[k] = <<>>
          /\ \A g \in DOMAIN gateways : g # k => gateways'[g] = gateways[g]
      BY <1>5 DEF Put
    <2>2. IsSeqOf(<<>>, IsListener)
      BY DEF IsSeqOf, IsSequence
    <2>3. \A g \in DOMAIN gateways' : g \in GatewayKey /\ IsSeqOf(gateways'[g], IsListener)
      <3> SUFFICES ASSUME NEW g \in DOMAIN gateways'
                   PROVE  g \in GatewayKey /\ IsSeqOf(gateways'[g], IsListener)
        OBVIOUS
      <3>1. CASE g = k
        BY <1>3, <2>1, <2>2, <3>1
      <3>2. CASE g # k
        BY <2>1, <3>2 DEF TypeInv, TypeOK
      <3> QED
        BY <3>1, <3>2
    <2>4. TypeOK'
      BY <1>1, <1>2, <1>3, <1>5, <2>3 DEF TypeInv, TypeOK, Phases
    <2>5. Linked'
      BY <1>1, <1>2, <1>3, <1>5, <2>1 DEF TypeInv, Linked, GroupsLinked, DefaultsLinked,
           NothingGrouped, PendingLinked, PathsLinked, RuleLinked, GatewayLinked, Building
    <2> QED
      BY <1>2, <2>4, <2>5 DEF TypeInv
  <1> QED
    BY <1>1, <1>4, <1>5

LEMMA GatewayListenersType ==
  ASSUME NEW l \in [host : String, certs : Seq(STRING)]
  PROVE  IsSeqOf(GatewayListeners(l), IsListener)
  <1> DEFINE http  == [name |-> ListenerName(l.host, "http"), host |-> l.host,
                       port |-> 80, certs |-> <<>>]
             https == [name |-> ListenerName(l.host, "https"), host |-> l.host,
                       port |-> 443, certs |-> l.certs]
             rest  == IF l.certs = <<>> THEN <<>> ELSE <<https>>
             all   == <<http>> \o rest
  <1>1. IsListener(http) /\ IsListener(https)
    BY DEF IsListener
  <1>2. GatewayListeners(l) = all
    BY DEF GatewayListeners
  <1> HIDE DEF http, https
  <1>3. IsSequence(<<http>>) /\ \A n \in DOMAIN <<http>> : IsListener(<<http>>[n])
    BY <1>1 DEF IsSequence
  <1>4. IsSequence(rest) /\ \A n \in DOMAIN rest : IsListener(rest[n])
    <2>1. CASE l.certs = <<>>
      BY <2>1 DEF IsSequence
    <2>2. CASE l.certs # <<>>
      BY <1>1, <2>2 DEF IsSequence
    <2> QED
      BY <2>1, <2>2
  <1> DEFINE first == <<http>>
  <1> HIDE DEF first, rest
  <1>5. /\ IsSequence(all)
        /\ \A n \in DOMAIN all : \/ n \in DOMAIN first /\ all[n] = first[n]
                                 \/ \E m \in DOMAIN rest : all[n] = rest[m]
    <2>1. all = first \o rest /\ IsSequence(first)
      BY <1>3 DEF first
    <2> QED
      <3>1. IsSequence(all)
        BY <1>4, <2>1, ConcatOwn
      <3>2. \A n \in DOMAIN all : \/ n \in DOMAIN first /\ all[n] = first[n]
                                 \/ \E m \in DOMAIN rest : all[n] = rest[m]
        BY <1>4, <2>1, ConcatOwn
      <3> QED
        BY <3>1, <3>2
  <1> HIDE DEF all
  <1>6. \A n \in DOMAIN all : IsListener(all[n])
    BY <1>3, <1>4, <1>5 DEF first
  <1>7. IsSeqOf(all, IsListener)
    BY <1>5, <1>6 DEF IsSeqOf
  <1> QED
    BY <1>2, <1>7

\* A Gateway's listeners stay a sequence of listeners when more are added.
LEMMA ConcatListeners ==
  ASSUME NEW s, IsSeqOf(s, IsListener), NEW u, IsSeqOf(u, IsListener), NEW t, t = s \o u
  PROVE  IsSeqOf(t, IsListener)
  <1>1. /\ IsSequence(s) /\ \A n \in DOMAIN s : IsListener(s[n])
        /\ IsSequence(u) /\ \A n \in DOMAIN u : IsListener(u[n])
    BY DEF IsSeqOf
  <1>2. /\ IsSequence(t)
        /\ \A n \in DOMAIN t : \/ n \in DOMAIN s /\ t[n] = s[n]
                               \/ \E m \in DOMAIN u : t[n] = u[m]
    <2>1. IsSequence(t)
      BY <1>1, ConcatOwn
    <2>2. \A n \in DOMAIN t : \/ n \in DOMAIN s /\ t[n] = s[n]
                             \/ \E m \in DOMAIN u : t[n] = u[m]
      BY <1>1, ConcatOwn
    <2> QED
      BY <2>1, <2>2
  <1>3. \A n \in DOMAIN t : IsListener(t[n])
    BY <1>1, <1>2
  <1> QED
    BY <1>2, <1>3 DEF IsSeqOf

LEMMA AddListenerTypeInv == TypeInv /\ AddListener => TypeInv'
  <1> SUFFICES ASSUME TypeInv, AddListener PROVE TypeInv'
    OBVIOUS
  <1> DEFINE more == GatewayListeners(listeners[current][j])
             L    == [host : String, certs : Seq(STRING)]
  <1>1. /\ phase = "listeners" /\ j <= Len(listeners[current]) /\ j' = j + 1
        /\ gateways' = [gateways EXCEPT ![current] = gateways[current] \o more]
        /\ UNCHANGED <<ingresses, ingressList, phase, i, ruleGroups, defaultBackends,
                       pending, current, matchKeys, pathsByKey, route, rule, listeners,
                       httpRoutes, routeByKey, errors>>
    BY DEF AddListener, groupVars, pathVars, buildVars
  <1>2. current \in DOMAIN listeners /\ current \in DOMAIN gateways
    BY <1>1 DEF TypeInv, Linked, GatewayLinked
  <1>3. listeners[current] \in Seq(L)
    BY <1>2 DEF TypeInv, TypeOK, MapOf
  <1>4. listeners[current][j] \in L
    <2> HIDE DEF L
    <2> QED
      BY <1>1, <1>3, Element DEF TypeInv, TypeOK
  <1>5. IsSeqOf(more, IsListener)
    BY <1>4, GatewayListenersType
  <1>6. IsSeqOf(gateways[current], IsListener)
    BY <1>2 DEF TypeInv, TypeOK
  <1> HIDE DEF more
  <1>7. /\ DOMAIN gateways' = DOMAIN gateways
        /\ gateways'[current] = gateways[current] \o more
        /\ \A g \in DOMAIN gateways : g # current => gateways'[g] = gateways[g]
    BY <1>1, <1>2
  <1>8. IsSeqOf(gateways'[current], IsListener)
    BY <1>5, <1>6, <1>7, ConcatListeners
  <1>9. \A g \in DOMAIN gateways' : g \in GatewayKey /\ IsSeqOf(gateways'[g], IsListener)
    <2> SUFFICES ASSUME NEW g \in DOMAIN gateways'
                 PROVE  g \in GatewayKey /\ IsSeqOf(gateways'[g], IsListener)
      OBVIOUS
    <2>1. g \in GatewayKey /\ IsSeqOf(gateways[g], IsListener)
      BY <1>7 DEF TypeInv, TypeOK
    <2> QED
      BY <1>7, <1>8, <2>1
  <1>10. TypeOK'
    BY <1>1, <1>9 DEF TypeInv, TypeOK
  <1>11. Linked'
    BY <1>1, <1>7 DEF TypeInv, Linked, GroupsLinked, DefaultsLinked, NothingGrouped,
           PendingLinked, PathsLinked, RuleLinked, GatewayLinked, Building
  <1> QED
    BY <1>1, <1>10, <1>11 DEF TypeInv

LEMMA GatewayBuiltTypeInv == TypeInv /\ GatewayBuilt => TypeInv'
  <1> SUFFICES ASSUME TypeInv, GatewayBuilt PROVE TypeInv'
    OBVIOUS
  <1>1. /\ phase = "listeners" /\ phase' = "gateways" /\ i' = 1 /\ j' = 1
        /\ UNCHANGED <<ingresses, ingressList, ruleGroups, defaultBackends, pending,
                       current, matchKeys, pathsByKey, route, rule, listeners,
                       httpRoutes, gateways, routeByKey, errors>>
    BY DEF GatewayBuilt, Goto, groupVars, pathVars, buildVars, outVars
  <1>2. TypeOK'
    BY <1>1 DEF TypeInv, TypeOK, Phases
  <1>3. Linked'
    BY <1>1 DEF TypeInv, Linked, GroupsLinked, DefaultsLinked, NothingGrouped,
           PendingLinked, PathsLinked, RuleLinked, GatewayLinked, Building
  <1> QED
    BY <1>1, <1>2, <1>3 DEF TypeInv

LEMMA GatewaysBuiltTypeInv == TypeInv /\ GatewaysBuilt => TypeInv'
  <1> SUFFICES ASSUME TypeInv, GatewaysBuilt PROVE TypeInv'
    OBVIOUS
  <1>1. /\ phase = "gateways" /\ phase' \in {"index", "failed"} /\ i' = 1 /\ j' = 1
        /\ UNCHANGED <<ingresses, ingressList, ruleGroups, defaultBackends, pending,
                       current, matchKeys, pathsByKey, route, rule, listeners,
                       httpRoutes, gateways, routeByKey, errors>>
    BY DEF GatewaysBuilt, AfterGateways, Goto, groupVars, pathVars, buildVars, outVars
  <1>2. TypeOK'
    BY <1>1 DEF TypeInv, TypeOK, Phases
  <1>3. Linked'
    BY <1>1 DEF TypeInv, Linked, GroupsLinked, DefaultsLinked, NothingGrouped,
           PendingLinked, PathsLinked, RuleLinked, GatewayLinked, Building
  <1> QED
    BY <1>1, <1>2, <1>3 DEF TypeInv

LEMMA IndexRouteTypeInv == TypeInv /\ IndexRoute => TypeInv'
  <1> SUFFICES ASSUME TypeInv, IndexRoute PROVE TypeInv'
    OBVIOUS
  <1> DEFINE rt  == httpRoutes[i]
             key == [ns |-> rt.ns, name |-> rt.name]
  <1>1. /\ phase = "index" /\ i <= Len(httpRoutes) /\ i' = i + 1
        /\ routeByKey' = Put(routeByKey, key, rt)
        /\ UNCHANGED <<ingresses, ingressList, phase, j, ruleGroups, defaultBackends,
                       pending, current, matchKeys, pathsByKey, route, rule, listeners,
                       httpRoutes, gateways, errors>>
    BY DEF IndexRoute, groupVars, pathVars, buildVars
  <1>2. i \in DOMAIN httpRoutes /\ IsRoute(rt)
    <2>1. i \in Nat \ {0} /\ IsSeqOf(httpRoutes, IsRoute)
      BY DEF TypeInv, TypeOK
    <2>2. /\ httpRoutes \in Seq({httpRoutes[n] : n \in DOMAIN httpRoutes})
          /\ \A n \in DOMAIN httpRoutes : IsRoute(httpRoutes[n])
      BY <2>1 DEF IsSeqOf, IsSequence
    <2>3. i \in DOMAIN httpRoutes
      BY <1>1, <2>1, <2>2, Element
    <2> QED
      BY <2>2, <2>3
  <1>3. key.ns = rt.ns
    OBVIOUS
  <1> HIDE DEF rt, key
  <1>4. \A k \in DOMAIN routeByKey' : IsRoute(routeByKey'[k]) /\ k.ns = routeByKey'[k].ns
    BY <1>1, <1>2, <1>3 DEF TypeInv, TypeOK, Put
  <1>5. TypeOK'
    BY <1>1, <1>4 DEF TypeInv, TypeOK
  <1>6. Linked'
    BY <1>1 DEF TypeInv, Linked, GroupsLinked, DefaultsLinked, NothingGrouped,
           PendingLinked, PathsLinked, RuleLinked, GatewayLinked, Building
  <1> QED
    BY <1>1, <1>5, <1>6 DEF TypeInv

LEMMA RoutesIndexedTypeInv == TypeInv /\ RoutesIndexed => TypeInv'
  <1> SUFFICES ASSUME TypeInv, RoutesIndexed PROVE TypeInv'
    OBVIOUS
  <1>1. /\ phase = "index" /\ phase' = "done" /\ i' = 1 /\ j' = 1
        /\ UNCHANGED <<ingresses, ingressList, ruleGroups, defaultBackends, pending,
                       current, matchKeys, pathsByKey, route, rule, listeners,
                       httpRoutes, gateways, routeByKey, errors>>
    BY DEF RoutesIndexed, Goto, groupVars, pathVars, buildVars, outVars
  <1>2. TypeOK'
    BY <1>1 DEF TypeInv, TypeOK, Phases
  <1>3. Linked'
    BY <1>1 DEF TypeInv, Linked, GroupsLinked, DefaultsLinked, NothingGrouped,
           PendingLinked, PathsLinked, RuleLinked, GatewayLinked, Building
  <1> QED
    BY <1>1, <1>2, <1>3 DEF TypeInv

LEMMA StutterTypeInv == TypeInv /\ UNCHANGED vars => TypeInv'
  <1> SUFFICES ASSUME TypeInv, UNCHANGED vars PROVE TypeInv'
    OBVIOUS
  <1>1. UNCHANGED <<ingresses, ingressList, phase, i, j, ruleGroups, defaultBackends,
                    pending, current, matchKeys, pathsByKey, route, rule, listeners,
                    httpRoutes, gateways, routeByKey, errors>>
    BY DEF vars, groupVars, pathVars, buildVars, outVars
  <1>2. TypeOK'
    BY <1>1 DEF TypeInv, TypeOK
  <1>3. Linked'
    BY <1>1 DEF TypeInv, Linked, GroupsLinked, DefaultsLinked, NothingGrouped,
           PendingLinked, PathsLinked, RuleLinked, GatewayLinked, Building
  <1> QED
    BY <1>1, <1>2, <1>3 DEF TypeInv

LEMMA NextTypeInv == TypeInv /\ [Next]_vars => TypeInv'
  BY FromMapTypeInv, AddIngressRuleTypeInv, AddDefaultBackendTypeInv,
     SortRuleGroupsTypeInv, NextRuleGroupTypeInv, GroupIngressPathTypeInv,
     PathsGroupedTypeInv, ToHTTPRouteRuleTypeInv, ConfigureBackendRefTypeInv,
     AppendRuleTypeInv, RouteBuiltTypeInv, GroupsBuiltTypeInv,
     DefaultBackendRouteTypeInv, DefaultsBuiltTypeInv, NextGatewayTypeInv,
     AddListenerTypeInv, GatewayBuiltTypeInv, GatewaysBuiltTypeInv,
     IndexRouteTypeInv, RoutesIndexedTypeInv, StutterTypeInv
  DEF Next, Convert, Terminating

LEMMA TypeInvariance == Spec => []TypeInv
  BY InitTypeInv, NextTypeInv, PTL DEF Spec

\* Every variable keeps its type: no index leaves the list it indexes and no
\* map is read at a key that an earlier loop did not put there.
THEOREM TypeCorrect == Spec => []TypeOK
  <1>1. TypeInv => TypeOK
    BY DEF TypeInv
  <1> QED
    BY <1>1, TypeInvariance, PTL

(***************************************************************************)
(* The strengthening of SourcesAligned and RulesMatchSources.  Both talk   *)
(* about the finished IR only; the invariant follows a route from its      *)
(* first rule on.  A default backend that does not resolve leaves a route  *)
(* with a source and no rule, which is why finished routes are sound only  *)
(* while no error has been reported.                                       *)
(***************************************************************************)
BackendIn(list, p) ==
  IF p.rule = 0 THEN list[p.ingress].defaultBackend[1] ELSE PathIn(list, p).backend

SourceFits(list, rt, match, p) ==
  /\ list[p.ingress].ns = rt.ns /\ GetIngressClass(list[p.ingress]) = rt.class
  /\ p.rule # 0 => /\ list[p.ingress].rules[p.rule].host = rt.host
                   /\ ToHTTPRouteMatch(PathIn(list, p)) = match

RuleFits(list, rt, r, sources) ==
  /\ Len(sources) = Len(r.backendRefs)
  /\ \A y \in DOMAIN sources :
       /\ r.backendRefs[y] = ToBackendRef(rt.ns, BackendIn(list, sources[y]))
       /\ SourceFits(list, rt, r.match, sources[y])

Sound(list, rt) ==
  /\ Len(rt.sources) = Len(rt.rules)
  /\ \A x \in DOMAIN rt.rules : RuleFits(list, rt, rt.rules[x], rt.sources[x])

NothingBuilt ==
  phase \in {"list", "aggregate"} => httpRoutes = <<>> /\ routeByKey = EmptyMap

RouteSound == Building => Sound(ingressList, route)

RuleSound ==
  phase = "backends" =>
    /\ rule.match = ToHTTPRouteMatch(matchKeys[i])
    /\ RuleFits(ingressList, route, rule, rule.sources)

RoutesSound ==
  errors = {} => \A n \in DOMAIN httpRoutes : Sound(ingressList, httpRoutes[n])

NoErrors == phase \in {"index", "done"} => errors = {}

IndexSound ==
  \A key \in DOMAIN routeByKey : Sound(ingressList, routeByKey[key])

SourcesInv ==
  NothingBuilt /\ RouteSound /\ RuleSound /\ RoutesSound /\ NoErrors /\ IndexSound

LEMMA InitSourcesInv == Init => SourcesInv
  <1> SUFFICES ASSUME Init PROVE SourcesInv
    OBVIOUS
  <1>1. DOMAIN routeByKey = {} /\ DOMAIN httpRoutes = {} /\ phase = "list"
        /\ httpRoutes = <<>> /\ routeByKey = EmptyMap
    BY DEF Init, EmptyMap
  <1> QED
    BY <1>1 DEF SourcesInv, NothingBuilt, RouteSound, RuleSound, RoutesSound, NoErrors,
                IndexSound, Building

\* A rule that fits one route fits every route of the same group.
LEMMA SameGroup ==
  ASSUME NEW list, NEW rt, NEW new, NEW r, NEW sources,
         new.ns = rt.ns, new.class = rt.class, new.host = rt.host,
         RuleFits(list, rt, r, sources)
  PROVE  RuleFits(list, new, r, sources)
  BY DEF RuleFits, SourceFits

-------------------------------------------------------------------------------
(***************************************************************************)
(* The actions that build routes.                                          *)
(***************************************************************************)
LEMMA FromMapSources == TypeInv /\ SourcesInv /\ FromMap => SourcesInv'
  <1> SUFFICES ASSUME TypeInv, SourcesInv, FromMap PROVE SourcesInv'
    OBVIOUS
  <1>1. phase = "list" /\ phase' = "aggregate" /\ UNCHANGED <<httpRoutes, routeByKey, errors>>
    BY DEF FromMap, Goto, outVars
  <1>2. /\ httpRoutes' = <<>> /\ DOMAIN httpRoutes' = {}
        /\ routeByKey' = EmptyMap /\ DOMAIN routeByKey' = {}
    BY <1>1 DEF SourcesInv, NothingBuilt, EmptyMap
  <1> QED
    BY <1>1, <1>2 DEF SourcesInv, NothingBuilt, RouteSound, RuleSound, RoutesSound,
                      NoErrors, IndexSound, Building

LEMMA NextRuleGroupSources == TypeInv /\ SourcesInv /\ NextRuleGroup => SourcesInv'
  <1> SUFFICES ASSUME TypeInv, SourcesInv, NextRuleGroup PROVE SourcesInv'
    OBVIOUS
  <1>1. phase = "groups" /\ phase' = "paths"
        /\ UNCHANGED <<ingressList, httpRoutes, routeByKey, errors>>
    BY DEF NextRuleGroup, Goto
  <1>2. route'.rules = <<>> /\ route'.sources = <<>>
    BY DEF NextRuleGroup
  <1>3. Sound(ingressList, route')
    BY <1>2 DEF Sound
  <1> QED
    BY <1>1, <1>3 DEF SourcesInv, NothingBuilt, RouteSound, RuleSound, RoutesSound,
                      NoErrors, IndexSound, Building

LEMMA ToHTTPRouteRuleSources == TypeInv /\ SourcesInv /\ ToHTTPRouteRule => SourcesInv'
  <1> SUFFICES ASSUME TypeInv, SourcesInv, ToHTTPRouteRule PROVE SourcesInv'
    OBVIOUS
  <1>1. /\ phase = "rules" /\ phase' \in {"rules", "backends", "panicked"}
        /\ UNCHANGED <<ingressList, matchKeys, route, httpRoutes, routeByKey>>
        /\ errors' = {} => errors = {}
    BY DEF ToHTTPRouteRule, pathVars
  <1>2. phase' = "backends" =>
          /\ rule' = [name |-> i - 1, match |-> ToHTTPRouteMatch(matchKeys[i]),
                      backendRefs |-> <<>>, sources |-> <<>>]
          /\ i' = i
    BY <1>1 DEF ToHTTPRouteRule
  <1>3. RuleSound'
    BY <1>1, <1>2 DEF RuleSound, RuleFits
  <1> QED
    BY <1>1, <1>3 DEF SourcesInv, NothingBuilt, RouteSound, RoutesSound, NoErrors,
                      IndexSound, Building

LEMMA ConfigureBackendRefSources ==
  TypeInv /\ SourcesInv /\ ConfigureBackendRef => SourcesInv'
  <1> SUFFICES ASSUME TypeInv, SourcesInv, ConfigureBackendRef PROVE SourcesInv'
    OBVIOUS
  <1> DEFINE p   == pathsByKey[matchKeys[i]][j]
             ref == ToBackendRef(route.ns, BackendAt(p))
  <1>1. /\ phase = "backends" /\ phase' = phase /\ j <= Len(pathsByKey[matchKeys[i]])
        /\ UNCHANGED <<ingressList, i, matchKeys, route, httpRoutes, routeByKey>>
        /\ errors' = {} => errors = {}
    BY DEF ConfigureBackendRef, pathVars
  <1>2. /\ p \in Pointer /\ InGroup(ingressList, p, current)
        /\ PathMatchKey(PathIn(ingressList, p)) = matchKeys[i]
        /\ p.rule # 0 /\ BackendAt(p) \in Backend
    BY <1>1, CurrentBackend
  <1>3. rule \in RuleWithSources
    BY <1>1 DEF TypeInv, Linked, RuleLinked
  <1>4. /\ rule.match = ToHTTPRouteMatch(matchKeys[i])
        /\ RuleFits(ingressList, route, rule, rule.sources)
    BY <1>1 DEF SourcesInv, RuleSound
  <1>5. SourceFits(ingressList, route, rule.match, p)
    <2>1. current = [ns |-> route.ns, class |-> route.class, host |-> route.host]
      BY <1>1 DEF TypeInv, Linked, PathsLinked, Building
    <2>2. GroupKey(ingressList[p.ingress], ingressList[p.ingress].rules[p.rule].host) = current
      BY <1>2 DEF InGroup
    <2> HIDE DEF p
    <2>3. /\ ingressList[p.ingress].ns = route.ns
          /\ GetIngressClass(ingressList[p.ingress]) = route.class
          /\ ingressList[p.ingress].rules[p.rule].host = route.host
      BY <2>1, <2>2 DEF GroupKey
    <2> QED
      BY <1>2, <1>4, <2>3 DEF SourceFits, ToHTTPRouteMatch, PathMatchKey
  <1>6. BackendAt(p) = BackendIn(ingressList, p)
    BY DEF BackendAt, BackendIn, PathAt, PathIn
  <1>7. rule'.match = rule.match /\ RuleFits(ingressList, route, rule', rule'.sources)
    <2>1. CASE Resolves(route.ns, BackendAt(p))
      <3>1. ref \in BackendRef
        BY <1>2, <2>1, ToBackendRefType
      <3>2. rule' = WithBackend(rule, ref, p)
        BY <2>1 DEF ConfigureBackendRef
      <3> DEFINE refs    == rule.backendRefs
                 sources == rule.sources
      <3>3. ref = ToBackendRef(route.ns, BackendIn(ingressList, p))
        BY <1>6
      <3> HIDE DEF p, ref
      <3>4. /\ rule'.match = rule.match
            /\ rule'.backendRefs = Append(refs, ref) /\ rule'.sources = Append(sources, p)
        BY <1>2, <1>3, <3>1, <3>2, JoinRule
      <3>5. refs \in Seq(BackendRef) /\ sources \in Seq(Pointer)
        BY <1>3 DEF RuleWithSources
      <3>6. /\ Len(sources) = Len(refs)
            /\ \A y \in DOMAIN sources :
                 /\ refs[y] = ToBackendRef(route.ns, BackendIn(ingressList, sources[y]))
                 /\ SourceFits(ingressList, route, rule.match, sources[y])
        BY <1>4 DEF RuleFits
      <3> HIDE DEF refs, sources
      <3>7. Len(Append(sources, p)) = Len(Append(refs, ref))
        BY <1>2, <3>1, <3>5, <3>6
      <3>8. \A y \in DOMAIN Append(sources, p) :
              \/ /\ y \in DOMAIN sources
                 /\ Append(sources, p)[y] = sources[y] /\ Append(refs, ref)[y] = refs[y]
              \/ Append(sources, p)[y] = p /\ Append(refs, ref)[y] = ref
        BY <1>2, <3>1, <3>5, <3>6
      <3>9. \A y \in DOMAIN Append(sources, p) :
              /\ Append(refs, ref)[y] =
                   ToBackendRef(route.ns, BackendIn(ingressList, Append(sources, p)[y]))
              /\ SourceFits(ingressList, route, rule.match, Append(sources, p)[y])
        BY <1>5, <3>3, <3>6, <3>8
      <3> QED
        BY <3>4, <3>7, <3>9 DEF RuleFits
    <2>2. CASE ~Resolves(route.ns, BackendAt(p))
      <3>1. rule' = rule
        BY <2>2 DEF ConfigureBackendRef
      <3> QED
        BY <1>4, <3>1
    <2> QED
      BY <2>1, <2>2
  <1>8. RuleSound'
    BY <1>1, <1>4, <1>7 DEF RuleSound
  <1> QED
    BY <1>1, <1>8 DEF SourcesInv, NothingBuilt, RouteSound, RoutesSound, NoErrors,
                      IndexSound, Building

LEMMA AppendRuleSources == TypeInv /\ SourcesInv /\ AppendRule => SourcesInv'
  <1> SUFFICES ASSUME TypeInv, SourcesInv, AppendRule PROVE SourcesInv'
    OBVIOUS
  <1> DEFINE r == [name |-> rule.name, match |-> rule.match,
                   backendRefs |-> rule.backendRefs]
  <1>1. /\ phase = "backends" /\ phase' = "rules"
        /\ route' = WithRule(route, r, rule.sources)
        /\ UNCHANGED <<ingressList, httpRoutes, routeByKey, errors>>
    BY DEF AppendRule, outVars
  <1>2. rule \in RuleWithSources /\ IsRoute(route)
    BY <1>1 DEF TypeInv, Linked, RuleLinked, PathsLinked, Building
  <1>3. r \in Rule /\ rule.sources \in Seq(Pointer)
    BY <1>2 DEF RuleWithSources, Rule
  <1>4. RuleFits(ingressList, route, r, rule.sources)
    BY <1>1 DEF SourcesInv, RuleSound, RuleFits
  <1>5. /\ Len(route.sources) = Len(route.rules)
        /\ \A x \in DOMAIN route.rules :
             RuleFits(ingressList, route, route.rules[x], route.sources[x])
    BY <1>1 DEF SourcesInv, RouteSound, Building, Sound
  <1>6. route.rules \in Seq(Rule) /\ route.sources \in Seq(Seq(Pointer))
    BY <1>2 DEF IsRoute
  <1> DEFINE src == rule.sources
  <1> HIDE DEF r, src
  <1>7. /\ route'.ns = route.ns /\ route'.class = route.class /\ route'.host = route.host
        /\ route'.rules = Append(route.rules, r)
        /\ route'.sources = Append(route.sources, src)
    BY <1>1, <1>2, <1>3, ExtendRoute DEF src
  <1>8. Len(route'.sources) = Len(route'.rules)
    BY <1>3, <1>5, <1>6, <1>7 DEF src
  <1>9. \A x \in DOMAIN route'.rules :
          \/ /\ x \in DOMAIN route.rules
             /\ route'.rules[x] = route.rules[x] /\ route'.sources[x] = route.sources[x]
          \/ route'.rules[x] = r /\ route'.sources[x] = src
    <2>1. \A x \in DOMAIN Append(route.rules, r) :
            \/ /\ x \in DOMAIN route.rules
               /\ Append(route.rules, r)[x] = route.rules[x]
               /\ Append(route.sources, src)[x] = route.sources[x]
            \/ Append(route.rules, r)[x] = r /\ Append(route.sources, src)[x] = src
      BY <1>3, <1>5, <1>6 DEF src
    <2> QED
      BY <1>7, <2>1
  <1>10. \A x \in DOMAIN route'.rules :
           RuleFits(ingressList, route, route'.rules[x], route'.sources[x])
    BY <1>4, <1>5, <1>9 DEF src
  <1>11. \A x \in DOMAIN route'.rules :
           RuleFits(ingressList, route', route'.rules[x], route'.sources[x])
    BY <1>7, <1>10, SameGroup
  <1>12. Sound(ingressList, route')
    BY <1>8, <1>11 DEF Sound
  <1> QED
    BY <1>1, <1>12 DEF SourcesInv, NothingBuilt, RouteSound, RuleSound, RoutesSound,
                       NoErrors, IndexSound, Building

\* A list of routes stays sound when a sound route is appended.
LEMMA AppendSound ==
  ASSUME NEW list, NEW s, IsSeqOf(s, IsRoute),
         \A n \in DOMAIN s : Sound(list, s[n]), NEW rt, Sound(list, rt)
  PROVE  \A n \in DOMAIN Append(s, rt) : Sound(list, Append(s, rt)[n])
  <1>1. IsSequence(s)
    BY DEF IsSeqOf
  <1> DEFINE t == Append(s, rt)
  <1>2. DOMAIN t = DOMAIN s \union {Len(s) + 1}
    BY <1>1, AppendOwn
  <1>3. (\A n \in DOMAIN s : t[n] = s[n]) /\ t[Len(s) + 1] = rt
    BY <1>1, AppendOwn
  <1> HIDE DEF t
  <1>4. \A n \in DOMAIN t : Sound(list, t[n])
    BY <1>2, <1>3
  <1> QED
    BY <1>4 DEF t

LEMMA RouteBuiltSources == TypeInv /\ SourcesInv /\ RouteBuilt => SourcesInv'
  <1> SUFFICES ASSUME TypeInv, SourcesInv, RouteBuilt PROVE SourcesInv'
    OBVIOUS
  <1>1. /\ phase = "rules" /\ phase' = "groups" /\ httpRoutes' = Append(httpRoutes, route)
        /\ UNCHANGED <<ingressList, routeByKey, errors>>
    BY DEF RouteBuilt, Goto
  <1>2. Sound(ingressList, route) /\ IsSeqOf(httpRoutes, IsRoute)
    BY <1>1 DEF SourcesInv, RouteSound, Building, TypeInv, TypeOK
  <1>3. ASSUME errors = {} PROVE \A n \in DOMAIN httpRoutes' : Sound(ingressList, httpRoutes'[n])
    <2>1. \A n \in DOMAIN httpRoutes : Sound(ingressList, httpRoutes[n])
      BY <1>3 DEF SourcesInv, RoutesSound
    <2> QED
      BY <1>1, <1>2, <2>1, AppendSound
  <1> QED
    BY <1>1, <1>3 DEF SourcesInv, NothingBuilt, RouteSound, RuleSound, RoutesSound,
                      NoErrors, IndexSound, Building

LEMMA DefaultBackendRouteSources ==
  TypeInv /\ SourcesInv /\ DefaultBackendRoute => SourcesInv'
  <1> SUFFICES ASSUME TypeInv, SourcesInv, DefaultBackendRoute PROVE SourcesInv'
    OBVIOUS
  <1> DEFINE p   == [ingress |-> defaultBackends[i], rule |-> 0, path |-> 0]
             ing == ingressList[p.ingress]
             ok  == Resolves(ing.ns, BackendAt(p))
             ref == ToBackendRef(ing.ns, BackendAt(p))
             rs  == IF ok
                    THEN <<[name |-> 0, match |-> Nothing, backendRefs |-> <<ref>>]>>
                    ELSE <<>>
             rt  == [ns |-> ing.ns, name |-> DefaultRouteName(ing.name),
                     class |-> GetIngressClass(ing), host |-> <<>>,
                     rules |-> rs, sources |-> << <<p>> >>]
  <1>1. /\ phase = "defaults" /\ phase' = phase /\ httpRoutes' = Append(httpRoutes, rt)
        /\ errors' = IF ok THEN errors ELSE errors \union {"portName"}
        /\ UNCHANGED <<ingressList, routeByKey>>
    BY DEF DefaultBackendRoute
  <1>2. IsSeqOf(httpRoutes, IsRoute)
    BY DEF TypeInv, TypeOK
  <1>3. ASSUME ok PROVE Sound(ingressList, rt)
    <2> DEFINE r == [name |-> 0, match |-> Nothing, backendRefs |-> <<ref>>]
    <2>1. BackendAt(p) = BackendIn(ingressList, p)
      BY DEF BackendAt, BackendIn
    <2>2. SourceFits(ingressList, rt, Nothing, p)
      BY DEF SourceFits
    <2>3. ref = ToBackendRef(rt.ns, BackendIn(ingressList, p))
      BY <2>1
    <2>4. rt.rules = <<r>> /\ rt.sources = << <<p>> >>
      BY <1>3
    <2> HIDE DEF rt, ref, p
    <2>5. RuleFits(ingressList, rt, r, <<p>>)
      BY <2>2, <2>3 DEF RuleFits
    <2> HIDE DEF r
    <2> QED
      BY <2>4, <2>5 DEF Sound
  <1> HIDE DEF rt
  <1>4. ASSUME errors' = {} PROVE \A n \in DOMAIN httpRoutes' : Sound(ingressList, httpRoutes'[n])
    <2>1. ok /\ errors = {}
      BY <1>1, <1>4
    <2>2. \A n \in DOMAIN httpRoutes : Sound(ingressList, httpRoutes[n])
      BY <2>1 DEF SourcesInv, RoutesSound
    <2>3. Sound(ingressList, rt)
      BY <1>3, <2>1
    <2> HIDE DEF ok
    <2> QED
      BY <1>1, <1>2, <2>2, <2>3, AppendSound
  <1> QED
    BY <1>1, <1>4 DEF SourcesInv, NothingBuilt, RouteSound, RuleSound, RoutesSound,
                      NoErrors, IndexSound, Building

LEMMA IndexRouteSources == TypeInv /\ SourcesInv /\ IndexRoute => SourcesInv'
  <1> SUFFICES ASSUME TypeInv, SourcesInv, IndexRoute PROVE SourcesInv'
    OBVIOUS
  <1> DEFINE key == [ns |-> httpRoutes[i].ns, name |-> httpRoutes[i].name]
  <1>1. /\ phase = "index" /\ phase' = phase /\ i <= Len(httpRoutes)
        /\ routeByKey' = Put(routeByKey, key, httpRoutes[i])
        /\ UNCHANGED <<ingressList, httpRoutes, errors>>
    BY DEF IndexRoute
  <1>2. i \in DOMAIN httpRoutes
    BY <1>1, Element DEF TypeInv, TypeOK, IsSeqOf, IsSequence
  <1>3. Sound(ingressList, httpRoutes[i])
    BY <1>1, <1>2 DEF SourcesInv, NoErrors, RoutesSound
  <1> HIDE DEF key
  <1>4. \A k \in DOMAIN routeByKey' : Sound(ingressList, routeByKey'[k])
    BY <1>1, <1>3 DEF SourcesInv, IndexSound, Put
  <1> QED
    BY <1>1, <1>4 DEF SourcesInv, NothingBuilt, RouteSound, RuleSound, RoutesSound,
                      NoErrors, IndexSound, Building

-------------------------------------------------------------------------------
(***************************************************************************)
(* The actions that leave routes alone.                                    *)
(***************************************************************************)
LEMMA QuietSources ==
  ASSUME SourcesInv,
         UNCHANGED <<ingressList, httpRoutes, routeByKey>>,
         Building' => Building /\ UNCHANGED route,
         phase' = "backends" => phase = "backends" /\ UNCHANGED <<i, matchKeys, rule>>,
         phase' \in {"list", "aggregate"} => phase \in {"list", "aggregate"},
         errors \subseteq errors',
         phase' \in {"index", "done"} => errors' = {}
  PROVE  SourcesInv'
  <1>1. NothingBuilt' /\ RouteSound' /\ NoErrors'
    BY DEF SourcesInv, NothingBuilt, RouteSound, NoErrors, Building
  <1>2. RuleSound'
    BY DEF SourcesInv, RuleSound, Building
  <1>3. RoutesSound' /\ IndexSound'
    BY DEF SourcesInv, RoutesSound, IndexSound
  <1> QED
    BY <1>1, <1>2, <1>3 DEF SourcesInv

LEMMA NextSources == TypeInv /\ SourcesInv /\ [Next]_vars => SourcesInv'
  <1> SUFFICES ASSUME TypeInv, SourcesInv, [Next]_vars PROVE SourcesInv'
    OBVIOUS
  <1> USE DEF groupVars, pathVars, buildVars, outVars
  <1>1. CASE \/ AddIngressRule \/ AddDefaultBackend \/ SortRuleGroups
    BY <1>1, QuietSources DEF AddIngressRule, AddDefaultBackend, SortRuleGroups, Goto, Building
  <1>2. CASE \/ PathsGrouped \/ GroupsBuilt \/ DefaultsBuilt \/ GatewayBuilt
    BY <1>2, QuietSources DEF PathsGrouped, GroupsBuilt, DefaultsBuilt, GatewayBuilt, Goto,
                              Building
  <1>3. CASE GroupIngressPath
    BY <1>3, QuietSources DEF GroupIngressPath, Building
  <1>4. CASE NextGateway
    BY <1>4, QuietSources DEF NextGateway, Building
  <1>5. CASE AddListener
    BY <1>5, QuietSources DEF AddListener, Building
  <1>6. CASE GatewaysBuilt
    BY <1>6, QuietSources DEF GatewaysBuilt, AfterGateways, Goto, Building
  <1>7. CASE RoutesIndexed
    BY <1>7, QuietSources DEF RoutesIndexed, Goto, Building, SourcesInv, NoErrors
  <1>8. CASE UNCHANGED vars
    BY <1>8, QuietSources DEF vars, Building, SourcesInv, NoErrors
  <1> QED
    BY <1>1, <1>2, <1>3, <1>4, <1>5, <1>6, <1>7, <1>8, FromMapSources,
       NextRuleGroupSources, ToHTTPRouteRuleSources, ConfigureBackendRefSources,
       AppendRuleSources, RouteBuiltSources, DefaultBackendRouteSources, IndexRouteSources
    DEF Next, Convert, Terminating

LEMMA SourcesInvariance == Spec => []SourcesInv
  BY InitSourcesInv, NextSources, TypeInvariance, PTL DEF Spec

\* RuleBackendSources[i][j] is the source of the j-th backend of the i-th rule
\* of every HTTPRoute of the IR, for every set of Ingresses and every order of
\* iteration: annotations that a parser reads through the sources are those of
\* the Ingress the backend came from.
THEOREM SourcesStayAligned == Spec => []SourcesAligned
  <1>1. SourcesInv => SourcesAligned
    BY DEF SourcesInv, IndexSound, Sound, RuleFits, SourcesAligned, Aligned,
           BackendAt, BackendIn, PathAt, PathIn
  <1> QED
    BY <1>1, SourcesInvariance, PTL

\* The sources of a rule belong to the namespace, class and host of its route
\* and match what the rule matches, whatever Ingresses share a rule group.
THEOREM RulesKeepMatching == Spec => []RulesMatchSources
  <1>1. SourcesInv /\ TypeInv => RulesMatchSources
    BY DEF SourcesInv, IndexSound, Sound, RuleFits, SourceFits, RulesMatchSources,
           PathAt, PathIn
  <1> QED
    BY <1>1, SourcesInvariance, TypeInvariance, PTL

-------------------------------------------------------------------------------
(***************************************************************************)
(* The strengthening of EveryPathOnce.  A path is handed on from list to   *)
(* list: from its rule to the group of the rule, from the group to the     *)
(* paths of its match key, from these to the sources of a rule of the      *)
(* group's route.  Each list has it exactly when the loop that fills the   *)
(* list has been there, and has it once.                                   *)
(***************************************************************************)
InSeq(s, e)  == \E n \in DOMAIN s : s[n] = e
NoRepeats(s) == \A n, m \in DOMAIN s : s[n] = s[m] => n = m

HasSource(sources, p) == \E x \in DOMAIN sources : InSeq(sources[x], p)
HasRoute(routes, p)   == \E n \in DOMAIN routes : HasSource(routes[n].sources, p)

\* No source occurs twice in the rules of a route, or in the routes.
SourcesOnce(sources) ==
  /\ \A x \in DOMAIN sources : NoRepeats(sources[x])
  /\ \A x, z \in DOMAIN sources : \A y \in DOMAIN sources[x] :
       InSeq(sources[z], sources[x][y]) => x = z
RoutesOnce(routes) ==
  /\ \A n \in DOMAIN routes : SourcesOnce(routes[n].sources)
  /\ \A n, m \in DOMAIN routes : \A x \in DOMAIN routes[n].sources :
       \A y \in DOMAIN routes[n].sources[x] :
         HasSource(routes[m].sources, routes[n].sources[x][y]) => n = m

\* Rule r of Ingress m is in its group; the loop over Ingresses has passed it.
KeyOf(list, m, r) == GroupKey(list[m], list[m].rules[r].host)
Grouped(m, r) ==
  LET k == KeyOf(ingressList, m, r)
  IN  k \in DOMAIN ruleGroups /\ InSeq(ruleGroups[k].rules, [ingress |-> m, rule |-> r])
Passed(m, r) == phase = "aggregate" => m < i \/ (m = i /\ r < j)

GroupsOnce ==
  /\ \A k \in DOMAIN ruleGroups : \A n \in DOMAIN ruleGroups[k].rules :
       Passed(ruleGroups[k].rules[n].ingress, ruleGroups[k].rules[n].rule)
  /\ \A k \in DOMAIN ruleGroups : NoRepeats(ruleGroups[k].rules)
  /\ \A m \in DOMAIN ingressList : \A r \in DOMAIN ingressList[m].rules :
       phase # "list" /\ Passed(m, r) => Grouped(m, r)

DefaultsOnce ==
  /\ phase = "aggregate" => \A n \in DOMAIN defaultBackends : defaultBackends[n] < i
  /\ NoRepeats(defaultBackends)
  /\ \A m \in DOMAIN ingressList :
       /\ phase # "list" /\ (phase = "aggregate" => m < i)
       /\ ingressList[m].defaultBackend # <<>>
       => InSeq(defaultBackends, m)

\* The loops over the current group have visited p, and it is under its key.
Visited(p) ==
  phase = "paths" =>
    \E n \in DOMAIN ruleGroups[current].rules :
      /\ ruleGroups[current].rules[n] = [ingress |-> p.ingress, rule |-> p.rule]
      /\ n < i \/ (n = i /\ p.path < j)
UnderKey(p) ==
  LET key == PathMatchKey(PathAt(p))
  IN  key \in DOMAIN pathsByKey /\ InSeq(pathsByKey[key], p)

PathsOnce ==
  Building =>
    /\ NoRepeats(matchKeys)
    /\ \A key \in DOMAIN pathsByKey :
         /\ InSeq(matchKeys, key) /\ NoRepeats(pathsByKey[key])
         /\ \A n \in DOMAIN pathsByKey[key] : Visited(pathsByKey[key][n])
    /\ \A p \in AllPlaces :
         /\ p.rule # 0 /\ KeyOf(ingressList, p.ingress, p.rule) = current
         /\ Visited(p)
         => UnderKey(p)

\* Without errors the route takes over all paths of the keys it has passed.
RouteTakesAll ==
  errors = {} =>
    /\ phase = "paths" => route.sources = <<>>
    /\ phase \in {"rules", "backends"} =>
         /\ Len(route.sources) = i - 1
         /\ \A x \in DOMAIN route.sources :
              x \in DOMAIN matchKeys /\ route.sources[x] = pathsByKey[matchKeys[x]]
    /\ phase = "backends" =>
         /\ Len(rule.sources) = j - 1
         /\ \A y \in DOMAIN rule.sources :
              /\ y \in DOMAIN pathsByKey[matchKeys[i]]
              /\ rule.sources[y] = pathsByKey[matchKeys[i]][y]

\* The route that p belongs to has been built.
Finished(p) ==
  IF p.rule = 0
  THEN /\ phase # "groups" /\ ~Building
       /\ phase = "defaults" =>
            \E n \in DOMAIN defaultBackends : n < i /\ defaultBackends[n] = p.ingress
  ELSE /\ phase = "groups" \/ Building =>
            KeyOf(ingressList, p.ingress, p.rule) \notin pending
       /\ Building => KeyOf(ingressList, p.ingress, p.rule) # current

RoutesComplete ==
  errors = {} /\ phase \notin {"list", "aggregate", "panicked"} =>
    /\ RoutesOnce(httpRoutes)
    /\ \A p \in AllPlaces : Finished(p) => HasRoute(httpRoutes, p)
    /\ \A n \in DOMAIN httpRoutes : \A x \in DOMAIN httpRoutes[n].sources :
         \A y \in DOMAIN httpRoutes[n].sources[x] :
           /\ httpRoutes[n].sources[x][y] \in AllPlaces
           /\ Finished(httpRoutes[n].sources[x][y])

CurrentTaken == Building => current \notin pending

OnceInv ==
  /\ GroupsOnce /\ DefaultsOnce /\ PathsOnce
  /\ RouteTakesAll /\ RoutesComplete /\ CurrentTaken
LEMMA SeqElement ==
  ASSUME NEW T, NEW t \in Seq(T), NEW n \in DOMAIN t
  PROVE  t[n] \in T
  OBVIOUS

LEMMA AppendInSeq ==
  ASSUME NEW s, IsSequence(s), NEW e, NEW t, t = Append(s, e)
  PROVE  \A x : InSeq(t, x) <=> InSeq(s, x) \/ x = e
  BY AppendOwn DEF InSeq

LEMMA AppendNoRepeats ==
  ASSUME NEW s, IsSequence(s), NoRepeats(s), NEW e, ~InSeq(s, e), NEW t, t = Append(s, e)
  PROVE  NoRepeats(t)
  <1>1. /\ DOMAIN t = DOMAIN s \union {Len(s) + 1}
        /\ \A n \in DOMAIN s : t[n] = s[n]
        /\ t[Len(s) + 1] = e
    BY AppendOwn
  <1> QED
    BY <1>1 DEF NoRepeats, InSeq

LEMMA InitOnceInv == Init => OnceInv
  <1> SUFFICES ASSUME Init PROVE OnceInv
    OBVIOUS
  <1>1. /\ phase = "list" /\ DOMAIN ruleGroups = {} /\ DOMAIN defaultBackends = {}
        /\ DOMAIN ingressList = {}
    BY DEF Init, EmptyMap
  <1>2. GroupsOnce /\ DefaultsOnce
    BY <1>1 DEF GroupsOnce, DefaultsOnce, NoRepeats
  <1>3. PathsOnce /\ RouteTakesAll /\ RoutesComplete /\ CurrentTaken
    BY <1>1 DEF PathsOnce, RouteTakesAll, RoutesComplete, CurrentTaken, Building
  <1> QED
    BY <1>2, <1>3 DEF OnceInv

-------------------------------------------------------------------------------
(***************************************************************************)
(* Every rule joins its group once, and every default backend its list.    *)
(***************************************************************************)
LEMMA AddIngressRuleEffect ==
  ASSUME TypeInv, AddIngressRule, NEW key, key = KeyOf(ingressList, i, j)
  PROVE  /\ i \in DOMAIN ingressList /\ j \in DOMAIN ingressList[i].rules
         /\ DOMAIN ruleGroups' = DOMAIN ruleGroups \union {key}
         /\ \A k \in DOMAIN ruleGroups : k # key => ruleGroups'[k] = ruleGroups[k]
         /\ \E old : /\ IsSequence(old)
                     /\ IF key \in DOMAIN ruleGroups THEN old = ruleGroups[key].rules
                                                     ELSE old = <<>>
                     /\ ruleGroups'[key].rules = Append(old, [ingress |-> i, rule |-> j])
  <1> DEFINE ing == ingressList[i]
             rg  == IF key \in DOMAIN ruleGroups
                    THEN ruleGroups[key]
                    ELSE [ns |-> ing.ns, name |-> ing.name, class |-> key.class,
                          host |-> key.host, tls |-> <<>>, rules |-> <<>>]
             mem == [ingress |-> i, rule |-> j]
  <1>0. PICK new : new = [rg EXCEPT !.tls = @ \o ing.tls, !.rules = Append(@, mem)]
    OBVIOUS
  <1>1. /\ phase = "aggregate" /\ i <= Len(ingressList) /\ j <= Len(ing.rules)
        /\ ruleGroups' = Put(ruleGroups, key, new)
    BY <1>0 DEF AddIngressRule, KeyOf
  <1>2. i \in Nat \ {0} /\ j \in Nat \ {0} /\ i \in DOMAIN ingressList /\ ing \in Ingress
    BY <1>1, ListedIngress DEF TypeInv, TypeOK
  <1>3. j \in DOMAIN ing.rules
    BY <1>1, <1>2, IngressFields
  <1>4. key \in RuleGroupKey
    BY <1>2, <1>3, ListedRule DEF TypeInv, KeyOf
  <1>5. rg \in RuleGroup
    <2>1. CASE key \in DOMAIN ruleGroups
      BY <2>1 DEF TypeInv, TypeOK, MapOf
    <2>2. CASE key \notin DOMAIN ruleGroups
      <3>1. rg = [ns |-> ing.ns, name |-> ing.name, class |-> key.class,
                  host |-> key.host, tls |-> <<>>, rules |-> <<>>]
        BY <2>2
      <3>2. key.class \in String /\ key.host \in String
        BY <1>4 DEF RuleGroupKey
      <3>3. ing.ns \in String /\ ing.name \in String
        BY <1>2, IngressFields
      <3> HIDE DEF rg, ing
      <3> QED
        BY <3>1, <3>2, <3>3 DEF RuleGroup
    <2> QED
      BY <2>1, <2>2
  <1>6. ing.tls \in Seq(TLSRecord) /\ mem \in [ingress : Nat, rule : Nat]
    BY <1>2, IngressFields
  <1>7. IF key \in DOMAIN ruleGroups THEN rg.rules = ruleGroups[key].rules
                                     ELSE rg.rules = <<>>
    OBVIOUS
  <1> HIDE DEF ing, rg, mem
  <1>8. new.rules = Append(rg.rules, mem)
    BY <1>0, <1>5 DEF RuleGroup
  <1>9. IsSequence(rg.rules)
    BY <1>5, OwnElements DEF RuleGroup
  <1>10. /\ DOMAIN ruleGroups' = DOMAIN ruleGroups \union {key}
         /\ ruleGroups'[key] = new
         /\ \A k \in DOMAIN ruleGroups : k # key => ruleGroups'[k] = ruleGroups[k]
    BY <1>1 DEF Put
  <1> QED
    BY <1>2, <1>3, <1>7, <1>8, <1>9, <1>10 DEF ing, mem

LEMMA AddIngressRuleGroups == TypeInv /\ OnceInv /\ AddIngressRule => GroupsOnce'
  <1> SUFFICES ASSUME TypeInv, OnceInv, AddIngressRule PROVE GroupsOnce'
    OBVIOUS
  <1>1. PICK key : key = KeyOf(ingressList, i, j)
    OBVIOUS
  <1>2. /\ i \in DOMAIN ingressList /\ j \in DOMAIN ingressList[i].rules
        /\ DOMAIN ruleGroups' = DOMAIN ruleGroups \union {key}
        /\ \A k \in DOMAIN ruleGroups : k # key => ruleGroups'[k] = ruleGroups[k]
    BY <1>1, AddIngressRuleEffect
  <1>3. PICK old : /\ IsSequence(old)
                   /\ IF key \in DOMAIN ruleGroups THEN old = ruleGroups[key].rules
                                                   ELSE old = <<>>
                   /\ ruleGroups'[key].rules = Append(old, [ingress |-> i, rule |-> j])
    BY <1>1, AddIngressRuleEffect
  <1>4. /\ phase = "aggregate" /\ phase' = phase /\ i' = i /\ j' = j + 1
        /\ ingressList' = ingressList /\ i \in Nat /\ j \in Nat
    BY DEF AddIngressRule, TypeInv, TypeOK
  <1>5. GroupsOnce
    BY DEF OnceInv
  <1> DEFINE mem == [ingress |-> i, rule |-> j]
  <1>6. /\ NoRepeats(old)
        /\ \A n \in DOMAIN old : old[n].ingress < i \/ (old[n].ingress = i /\ old[n].rule < j)
    <2>1. CASE key \in DOMAIN ruleGroups
      BY <1>3, <1>4, <1>5, <2>1 DEF GroupsOnce, Passed
    <2>2. CASE key \notin DOMAIN ruleGroups
      BY <1>3, <2>2 DEF NoRepeats
    <2> QED
      BY <2>1, <2>2
  <1>7. ~InSeq(old, mem)
    BY <1>4, <1>6 DEF InSeq
  <1>0. ruleGroups'[key].rules = Append(old, mem)
    BY <1>3
  <1> HIDE DEF mem
  <1>8. NoRepeats(ruleGroups'[key].rules)
    BY <1>0, <1>3, <1>6, <1>7, AppendNoRepeats
  <1>9. \A x : InSeq(ruleGroups'[key].rules, x) <=> InSeq(old, x) \/ x = mem
    BY <1>0, <1>3, AppendInSeq
  <1>10. \A k \in DOMAIN ruleGroups' : NoRepeats(ruleGroups'[k].rules)
    BY <1>2, <1>5, <1>8 DEF GroupsOnce
  <1>11. \A k \in DOMAIN ruleGroups' : \A n \in DOMAIN ruleGroups'[k].rules :
           ruleGroups'[k].rules[n].ingress < i
             \/ (ruleGroups'[k].rules[n].ingress = i /\ ruleGroups'[k].rules[n].rule < j + 1)
    <2> SUFFICES ASSUME NEW k \in DOMAIN ruleGroups', NEW n \in DOMAIN ruleGroups'[k].rules,
                        NEW q, q = ruleGroups'[k].rules[n]
                 PROVE  q.ingress < i \/ (q.ingress = i /\ q.rule < j + 1)
      OBVIOUS
    <2>1. q.rule \in Nat
      <3>1. ruleGroups'[k].rules \in Seq([ingress : Nat, rule : Nat])
        BY AddIngressRuleTypeInv DEF TypeInv, TypeOK, MapOf, RuleGroup
      <3>2. q \in [ingress : Nat, rule : Nat]
        BY <3>1, SeqElement
      <3> QED
        BY <3>2
    <2>2. q.ingress < i \/ (q.ingress = i /\ (q.rule < j \/ q.rule = j))
      <3>1. CASE k = key
        <4>1. InSeq(old, q) \/ q = mem
          BY <1>9, <3>1 DEF InSeq
        <4>2. \A x : InSeq(old, x) => x.ingress < i \/ (x.ingress = i /\ x.rule < j)
          BY <1>6 DEF InSeq
        <4>3. mem.ingress = i /\ mem.rule = j
          BY DEF mem
        <4> QED
          BY <4>1, <4>2, <4>3
      <3>2. CASE k # key
        BY <1>2, <1>4, <1>5, <3>2 DEF GroupsOnce, Passed
      <3> QED
        BY <3>1, <3>2
    <2> QED
      BY <1>4, <2>1, <2>2
  <1>12. ASSUME NEW m \in DOMAIN ingressList, NEW r \in DOMAIN ingressList[m].rules,
                Passed(m, r)'
         PROVE  Grouped(m, r)'
    <2>1. m \in Nat /\ r \in Nat
      <3>1. ingressList[m].rules \in Seq(RuleRecord)
        BY ListedIngress, IngressFields DEF TypeInv
      <3> QED
        BY <3>1 DEF TypeInv, TypeOK
    <2>2. Passed(m, r) \/ (m = i /\ r = j)
      BY <1>4, <1>12, <2>1 DEF Passed
    <2>3. CASE Passed(m, r)
      <3>1. Grouped(m, r)
        BY <1>4, <1>5, <2>3 DEF GroupsOnce
      <3> DEFINE k == KeyOf(ingressList, m, r)
      <3>2. k \in DOMAIN ruleGroups /\ InSeq(ruleGroups[k].rules, [ingress |-> m, rule |-> r])
        BY <3>1 DEF Grouped
      <3> HIDE DEF k
      <3>3. InSeq(ruleGroups'[k].rules, [ingress |-> m, rule |-> r])
        BY <1>2, <1>3, <1>9, <3>2
      <3> QED
        BY <1>2, <1>4, <3>2, <3>3 DEF Grouped, KeyOf, k
    <2>4. CASE m = i /\ r = j
      <3>1. InSeq(ruleGroups'[key].rules, [ingress |-> m, rule |-> r])
        BY <1>9, <2>4 DEF mem
      <3>2. key = KeyOf(ingressList, m, r)' /\ key \in DOMAIN ruleGroups'
        BY <1>1, <1>2, <1>4, <2>4 DEF KeyOf
      <3> QED
        BY <3>1, <3>2 DEF Grouped
    <2> QED
      BY <2>2, <2>3, <2>4
  <1> QED
    BY <1>4, <1>10, <1>11, <1>12 DEF GroupsOnce, Passed
\* The numbers of an Ingress and of a rule are positive.
LEMMA RuleNumbers ==
  ASSUME TypeInv, NEW m \in DOMAIN ingressList
  PROVE  /\ m \in Nat /\ m > 0 /\ m <= Len(ingressList) /\ Len(ingressList) \in Nat
         /\ Len(ingressList[m].rules) \in Nat
         /\ \A r \in DOMAIN ingressList[m].rules :
              r \in Nat /\ r > 0 /\ r <= Len(ingressList[m].rules)
  <1>1. ingressList \in Seq(ingresses)
    BY DEF TypeInv, TypeOK
  <1>2. ingressList[m].rules \in Seq(RuleRecord)
    BY ListedIngress, IngressFields DEF TypeInv
  <1>3. m \in Nat /\ m > 0 /\ m <= Len(ingressList) /\ Len(ingressList) \in Nat
    BY <1>1
  <1> DEFINE rs == ingressList[m].rules
  <1> HIDE DEF rs
  <1>4. rs \in Seq(RuleRecord)
    BY <1>2 DEF rs
  <1>5. Len(rs) \in Nat /\ \A r \in DOMAIN rs : r \in Nat /\ r > 0 /\ r <= Len(rs)
    BY <1>4
  <1> QED
    BY <1>3, <1>5 DEF rs

LEMMA FromMapGroups == TypeInv /\ OnceInv /\ FromMap => GroupsOnce' /\ DefaultsOnce'
  <1> SUFFICES ASSUME TypeInv, OnceInv, FromMap PROVE GroupsOnce' /\ DefaultsOnce'
    OBVIOUS
  <1>1. /\ phase = "list" /\ phase' = "aggregate" /\ i' = 1 /\ j' = 1
        /\ ruleGroups' = ruleGroups /\ defaultBackends' = defaultBackends
    BY DEF FromMap, Goto, groupVars
  <1>2. DOMAIN ruleGroups' = {} /\ DOMAIN defaultBackends' = {}
    BY <1>1 DEF TypeInv, Linked, NothingGrouped, EmptyMap
  <1>3. \A m \in DOMAIN ingressList' : \A r \in DOMAIN ingressList'[m].rules :
          m \in Nat /\ m > 0 /\ r \in Nat /\ r > 0
    <2> SUFFICES ASSUME NEW m \in DOMAIN ingressList', NEW rs, rs = ingressList'[m].rules,
                        NEW r \in DOMAIN rs
                 PROVE  m \in Nat /\ m > 0 /\ r \in Nat /\ r > 0
      OBVIOUS
    <2>1. ingressList' \in Seq(ingresses') /\ ingresses' \subseteq Ingress
      BY FromMapTypeInv DEF TypeInv, TypeOK
    <2>2. m \in Nat /\ m > 0 /\ ingressList'[m] \in Ingress
      BY <2>1
    <2>3. rs \in Seq(RuleRecord)
      BY <2>2, IngressFields
    <2> QED
      BY <2>2, <2>3
  <1>4. \A m \in DOMAIN ingressList' : m \in Nat /\ m > 0
    <2>1. ingressList' \in Seq(ingresses')
      BY FromMapTypeInv DEF TypeInv, TypeOK
    <2> QED
      BY <2>1
  <1>5. GroupsOnce'
    BY <1>1, <1>2, <1>3 DEF GroupsOnce, Passed
  <1>6. DefaultsOnce'
    BY <1>1, <1>2, <1>4 DEF DefaultsOnce, NoRepeats
  <1> QED
    BY <1>5, <1>6

LEMMA AddIngressRuleDefaults == TypeInv /\ OnceInv /\ AddIngressRule => DefaultsOnce'
  BY DEF AddIngressRule, OnceInv, DefaultsOnce

LEMMA AddDefaultBackendGroups ==
  TypeInv /\ OnceInv /\ AddDefaultBackend => GroupsOnce' /\ DefaultsOnce'
  <1> SUFFICES ASSUME TypeInv, OnceInv, AddDefaultBackend PROVE GroupsOnce' /\ DefaultsOnce'
    OBVIOUS
  <1>1. /\ phase = "aggregate" /\ phase' = phase /\ i <= Len(ingressList)
        /\ j > Len(ingressList[i].rules) /\ i' = i + 1 /\ j' = 1
        /\ ingressList' = ingressList /\ ruleGroups' = ruleGroups
        /\ defaultBackends' = IF ingressList[i].defaultBackend = <<>>
                              THEN defaultBackends ELSE Append(defaultBackends, i)
    BY DEF AddDefaultBackend
  <1>2. /\ i \in Nat \ {0} /\ j \in Nat \ {0} /\ i \in DOMAIN ingressList
        /\ defaultBackends \in Seq(Nat) /\ IsSequence(defaultBackends)
    BY <1>1, OwnElements DEF TypeInv, TypeOK
  <1>3. \A m \in DOMAIN ingressList : \A r \in DOMAIN ingressList[m].rules :
          Passed(m, r)' => Passed(m, r)
    <2> SUFFICES ASSUME NEW m \in DOMAIN ingressList, NEW r \in DOMAIN ingressList[m].rules,
                        Passed(m, r)'
                 PROVE  Passed(m, r)
      OBVIOUS
    <2>1. m \in Nat /\ r \in Nat /\ r > 0 /\ r <= Len(ingressList[m].rules)
          /\ Len(ingressList[m].rules) \in Nat
      BY RuleNumbers
    <2>2. m < i + 1
      BY <1>1, <1>2, <2>1 DEF Passed
    <2>3. CASE m < i
      BY <2>3 DEF Passed
    <2>4. CASE m = i
      <3>1. r < j
        BY <1>1, <1>2, <2>1, <2>4
      <3> QED
        BY <2>4, <3>1 DEF Passed
    <2> QED
      BY <1>2, <2>1, <2>2, <2>3, <2>4
  <1>4. \A k \in DOMAIN ruleGroups : \A n \in DOMAIN ruleGroups[k].rules :
          ruleGroups[k].rules[n].ingress < i + 1
    <2> SUFFICES ASSUME NEW k \in DOMAIN ruleGroups, NEW n \in DOMAIN ruleGroups[k].rules,
                        NEW m, m = ruleGroups[k].rules[n].ingress
                 PROVE  m < i + 1
      OBVIOUS
    <2>1. m < i \/ m = i
      BY <1>1 DEF OnceInv, GroupsOnce, Passed
    <2>2. m \in Nat
      BY RuleNumbers DEF TypeInv, Linked, GroupsLinked, InGroup
    <2> QED
      BY <1>2, <2>1, <2>2
  <1>5. GroupsOnce'
    <2>1. \A m \in DOMAIN ingressList : \A r \in DOMAIN ingressList[m].rules :
            Grouped(m, r) => Grouped(m, r)'
      BY <1>1 DEF Grouped, KeyOf
    <2>2. GroupsOnce
      BY DEF OnceInv
    <2> QED
      BY <1>1, <1>3, <1>4, <2>1, <2>2 DEF GroupsOnce, Passed
  <1>6. /\ \A n \in DOMAIN defaultBackends : defaultBackends[n] < i
        /\ NoRepeats(defaultBackends)
        /\ \A m \in DOMAIN ingressList :
             m < i /\ ingressList[m].defaultBackend # <<>> => InSeq(defaultBackends, m)
    BY <1>1 DEF OnceInv, DefaultsOnce
  <1>7. \A m \in DOMAIN ingressList : m < i + 1 => m < i \/ m = i
    BY <1>2, RuleNumbers
  <1>8. \A n \in DOMAIN defaultBackends : defaultBackends[n] < i + 1
    BY <1>2, <1>6
  <1>9. CASE ingressList[i].defaultBackend = <<>>
    BY <1>1, <1>5, <1>6, <1>7, <1>8, <1>9 DEF DefaultsOnce
  <1>10. CASE ingressList[i].defaultBackend # <<>>
    <2>1. defaultBackends' = Append(defaultBackends, i)
      BY <1>1, <1>10
    <2>2. ~InSeq(defaultBackends, i)
      BY <1>2, <1>6 DEF InSeq
    <2>3. \A x : InSeq(defaultBackends', x) <=> InSeq(defaultBackends, x) \/ x = i
      BY <1>2, <2>1, AppendInSeq
    <2>4. NoRepeats(defaultBackends')
      BY <1>2, <1>6, <2>1, <2>2, AppendNoRepeats
    <2>5. \A n \in DOMAIN defaultBackends' : defaultBackends'[n] < i + 1
      <3>1. \A n \in DOMAIN defaultBackends' : InSeq(defaultBackends', defaultBackends'[n])
        BY DEF InSeq
      <3>2. \A x : InSeq(defaultBackends, x) => x < i + 1
        BY <1>8 DEF InSeq
      <3>3. i < i + 1
        BY <1>2
      <3> QED
        BY <2>3, <3>1, <3>2, <3>3
    <2>6. DefaultsOnce'
      BY <1>1, <1>6, <1>7, <2>3, <2>4, <2>5 DEF DefaultsOnce
    <2> QED
      BY <1>5, <2>6
  <1> QED
    BY <1>9, <1>10

LEMMA SortRuleGroupsGroups ==
  TypeInv /\ OnceInv /\ SortRuleGroups => GroupsOnce' /\ DefaultsOnce'
  <1> SUFFICES ASSUME TypeInv, OnceInv, SortRuleGroups PROVE GroupsOnce' /\ DefaultsOnce'
    OBVIOUS
  <1>1. /\ phase = "aggregate" /\ phase' = "groups" /\ i > Len(ingressList)
        /\ ingressList' = ingressList /\ ruleGroups' = ruleGroups
        /\ defaultBackends' = defaultBackends /\ i \in Nat
    BY DEF SortRuleGroups, Goto, groupVars, TypeInv, TypeOK
  <1>2. \A m \in DOMAIN ingressList : m < i
    BY <1>1, RuleNumbers
  <1>3. GroupsOnce'
    <2>1. \A m \in DOMAIN ingressList : \A r \in DOMAIN ingressList[m].rules : Grouped(m, r)
      BY <1>1, <1>2 DEF OnceInv, GroupsOnce, Passed
    <2>2. \A m \in DOMAIN ingressList : \A r \in DOMAIN ingressList[m].rules : Grouped(m, r)'
      BY <1>1, <2>1 DEF Grouped, KeyOf
    <2>3. \A k \in DOMAIN ruleGroups : NoRepeats(ruleGroups[k].rules)
      BY DEF OnceInv, GroupsOnce
    <2> QED
      BY <1>1, <2>2, <2>3 DEF GroupsOnce, Passed
  <1>4. DefaultsOnce'
    BY <1>1, <1>2 DEF OnceInv, DefaultsOnce
  <1> QED
    BY <1>3, <1>4

\* The later loops leave groups and default backends alone.
LEMMA QuietGroups ==
  ASSUME OnceInv, UNCHANGED <<ingressList, ruleGroups, defaultBackends>>,
         phase' # "aggregate", phase' # "list", phase # "aggregate", phase # "list"
  PROVE  GroupsOnce' /\ DefaultsOnce'
  <1>1. GroupsOnce'
    <2>1. \A m \in DOMAIN ingressList : \A r \in DOMAIN ingressList[m].rules :
            Grouped(m, r) => Grouped(m, r)'
      BY DEF Grouped, KeyOf
    <2> QED
      BY <2>1 DEF OnceInv, GroupsOnce, Passed
  <1>2. DefaultsOnce'
    BY DEF OnceInv, DefaultsOnce
  <1> QED
    BY <1>1, <1>2
-------------------------------------------------------------------------------
(***************************************************************************)
(* Every path of the group comes under its match key once.                 *)
(***************************************************************************)
LEMMA PointerFacts ==
  ASSUME TypeInv, NEW p \in AllPlaces
  PROVE  /\ p = [ingress |-> p.ingress, rule |-> p.rule, path |-> p.path]
         /\ p.ingress \in DOMAIN ingressList
         /\ IF p.rule = 0 THEN p.path = 0 /\ ingressList[p.ingress].defaultBackend # <<>>
            ELSE ValidPath(ingressList, p)
  <1> DEFINE Paths    == UNION {UNION {[ingress : {n}, rule : {r},
                                        path : DOMAIN ingressList[n].rules[r].paths] :
                                  r \in DOMAIN ingressList[n].rules} :
                           n \in DOMAIN ingressList}
             Defaults == {[ingress |-> n, rule |-> 0, path |-> 0] :
                            n \in {m \in DOMAIN ingressList :
                                    ingressList[m].defaultBackend # <<>>}}
  <1>0. AllPlaces = Paths \union Defaults
    BY DEF AllPlaces
  <1>1. CASE p \in Defaults
    <2>1. PICK n \in DOMAIN ingressList : /\ p = [ingress |-> n, rule |-> 0, path |-> 0]
                                          /\ ingressList[n].defaultBackend # <<>>
      BY <1>1
    <2> QED
      BY <2>1
  <1>2. CASE p \in Paths
    <2>1. PICK n \in DOMAIN ingressList :
            p \in UNION {[ingress : {n}, rule : {r}, path : DOMAIN ingressList[n].rules[r].paths] :
                           r \in DOMAIN ingressList[n].rules}
      BY <1>2
    <2>2. PICK r \in DOMAIN ingressList[n].rules :
            p \in [ingress : {n}, rule : {r}, path : DOMAIN ingressList[n].rules[r].paths]
      BY <2>1
    <2>3. p.ingress = n /\ p.rule = r /\ p.path \in DOMAIN ingressList[n].rules[r].paths
      BY <2>2
    <2>4. p = [ingress |-> p.ingress, rule |-> p.rule, path |-> p.path]
      BY <2>2
    <2>5. p.rule # 0
      BY <2>3, RuleNumbers
    <2>6. ValidPath(ingressList, p)
      BY <2>1, <2>2, <2>3 DEF ValidPath
    <2> QED
      BY <2>1, <2>3, <2>4, <2>5, <2>6
  <1> HIDE DEF Paths, Defaults
  <1> QED
    BY <1>0, <1>1, <1>2

LEMMA PathIsPlace ==
  ASSUME NEW p \in Pointer, ValidPath(ingressList, p)
  PROVE  p \in AllPlaces
  <1> DEFINE Of(n, r) == [ingress : {n}, rule : {r},
                          path : DOMAIN ingressList[n].rules[r].paths]
             In(n)    == UNION {Of(n, r) : r \in DOMAIN ingressList[n].rules}
  <1>1. p \in Of(p.ingress, p.rule)
    BY DEF Pointer, ValidPath
  <1>2. p.ingress \in DOMAIN ingressList
        /\ p.rule \in DOMAIN ingressList[p.ingress].rules
    BY DEF ValidPath
  <1> HIDE DEF Of
  <1>3. p \in In(p.ingress)
    BY <1>1, <1>2
  <1> HIDE DEF In
  <1>4. p \in UNION {In(n) : n \in DOMAIN ingressList}
    BY <1>2, <1>3
  <1> QED
    BY <1>4 DEF AllPlaces, In, Of

\* The number of a path is positive.
LEMMA PathNumbers ==
  ASSUME TypeInv, NEW p, ValidPath(ingressList, p)
  PROVE  /\ p.path \in Nat /\ p.path > 0
         /\ p.path <= Len(ingressList[p.ingress].rules[p.rule].paths)
         /\ Len(ingressList[p.ingress].rules[p.rule].paths) \in Nat
         /\ p.rule # 0
  <1>1. ingressList[p.ingress].rules[p.rule] \in RuleRecord
    BY ListedRule DEF TypeInv, ValidPath
  <1>2. PICK ps : ps = ingressList[p.ingress].rules[p.rule].paths
    OBVIOUS
  <1>3. ps \in Seq(PathRecord) /\ p.path \in DOMAIN ps
    BY <1>1, <1>2 DEF RuleRecord, ValidPath
  <1>4. p.path \in Nat /\ p.path > 0 /\ p.path <= Len(ps) /\ Len(ps) \in Nat
    BY <1>3
  <1>5. p.rule # 0
    BY RuleNumbers DEF ValidPath
  <1> QED
    BY <1>2, <1>4, <1>5

LEMMA NextRuleGroupPaths == TypeInv /\ NextRuleGroup => PathsOnce'
  <1> SUFFICES ASSUME TypeInv, NextRuleGroup PROVE PathsOnce'
    OBVIOUS
  <1>1. /\ phase' = "paths" /\ i' = 1 /\ j' = 1
        /\ matchKeys' = <<>> /\ DOMAIN pathsByKey' = {}
        /\ ingressList' = ingressList /\ ruleGroups' = ruleGroups
    BY DEF NextRuleGroup, Goto, groupVars, EmptyMap
  <1>2. NoRepeats(matchKeys')
    BY <1>1 DEF NoRepeats
  <1>3. \A p \in AllPlaces : p.rule # 0 => ~Visited(p)'
    <2> SUFFICES ASSUME NEW p \in AllPlaces, p.rule # 0, Visited(p)' PROVE FALSE
      OBVIOUS
    <2>1. p.path \in Nat /\ p.path > 0
      BY PointerFacts, PathNumbers
    <2>2. TypeInv' /\ current' \in DOMAIN ruleGroups'
      BY <1>1, NextRuleGroupTypeInv DEF TypeInv, Linked, PathsLinked, Building
    <2>3. PICK rs : rs = ruleGroups'[current'].rules
      OBVIOUS
    <2>4. rs \in Seq([ingress : Nat, rule : Nat])
      BY <2>2, <2>3 DEF TypeInv, TypeOK, MapOf, RuleGroup
    <2>5. PICK n \in DOMAIN rs : n < 1 \/ (n = 1 /\ p.path < 1)
      BY <1>1, <2>3 DEF Visited
    <2>6. n \in Nat /\ n > 0
      BY <2>4, <2>5
    <2> QED
      BY <2>1, <2>5, <2>6
  <1>4. AllPlaces' = AllPlaces
    BY <1>1 DEF AllPlaces
  <1> QED
    BY <1>1, <1>2, <1>3, <1>4 DEF PathsOnce

LEMMA PathsGroupedPaths == TypeInv /\ OnceInv /\ PathsGrouped => PathsOnce'
  <1> SUFFICES ASSUME TypeInv, OnceInv, PathsGrouped PROVE PathsOnce'
    OBVIOUS
  <1>1. /\ phase = "paths" /\ phase' = "rules" /\ i > Len(ruleGroups[current].rules)
        /\ UNCHANGED <<ingressList, ruleGroups, current, matchKeys, pathsByKey>>
    BY DEF PathsGrouped, Goto, groupVars, pathVars
  <1>2. PathsOnce
    BY DEF OnceInv
  <1>3. \A p \in AllPlaces :
          p.rule # 0 /\ KeyOf(ingressList, p.ingress, p.rule) = current => Visited(p)
    <2> SUFFICES ASSUME NEW p \in AllPlaces, p.rule # 0,
                        KeyOf(ingressList, p.ingress, p.rule) = current
                 PROVE  Visited(p)
      OBVIOUS
    <2>1. ValidPath(ingressList, p)
      BY PointerFacts
    <2>2. Grouped(p.ingress, p.rule)
      BY <1>1, <2>1 DEF OnceInv, GroupsOnce, Passed, ValidPath
    <2>3. current \in DOMAIN ruleGroups
      BY <2>2 DEF Grouped
    <2>4. PICK rs : rs = ruleGroups[current].rules
      OBVIOUS
    <2>5. rs \in Seq([ingress : Nat, rule : Nat])
      BY <2>3, <2>4 DEF TypeInv, TypeOK, MapOf, RuleGroup
    <2>6. PICK n \in DOMAIN rs : rs[n] = [ingress |-> p.ingress, rule |-> p.rule]
      BY <2>2, <2>4 DEF Grouped, InSeq
    <2>7. n <= Len(rs) /\ Len(rs) \in Nat /\ n \in Nat /\ i \in Nat
      BY <2>5, <2>6 DEF TypeInv, TypeOK
    <2>8. n < i
      BY <1>1, <2>4, <2>7
    <2> QED
      BY <2>4, <2>6, <2>8 DEF Visited
  <1>4. AllPlaces' = AllPlaces
    BY <1>1 DEF AllPlaces
  <1>5. \A p : UnderKey(p) => UnderKey(p)'
    BY <1>1 DEF UnderKey, PathAt
  <1> QED
    BY <1>1, <1>2, <1>3, <1>4, <1>5 DEF PathsOnce, Visited, Building, KeyOf
\* The path that is grouped joins the list of its key, and a new key the keys.
LEMMA GroupIngressPathEffect ==
  ASSUME TypeInv, GroupIngressPath, j' = j + 1, UNCHANGED <<phase, i>>,
         NEW p, p = [ingress |-> ruleGroups[current].rules[i].ingress,
                     rule |-> ruleGroups[current].rules[i].rule, path |-> j],
         NEW key, key = PathMatchKey(PathAt(p))
  PROVE  /\ ValidPath(ingressList, p)
         /\ DOMAIN pathsByKey' = DOMAIN pathsByKey \union {key}
         /\ \A k \in DOMAIN pathsByKey : k # key => pathsByKey'[k] = pathsByKey[k]
         /\ matchKeys' = IF key \in DOMAIN pathsByKey THEN matchKeys ELSE Append(matchKeys, key)
         /\ \E old : /\ IsSequence(old)
                     /\ IF key \in DOMAIN pathsByKey THEN old = pathsByKey[key]
                                                     ELSE old = <<>>
                     /\ pathsByKey'[key] = Append(old, p)
  <1> DEFINE r    == ruleGroups[current].rules[i]
             spec == ingressList[r.ingress].rules[r.rule]
  <1>1. phase = "paths" /\ i <= Len(ruleGroups[current].rules)
    BY DEF GroupIngressPath
  <1>2. i \in Nat \ {0} /\ j \in Nat \ {0}
    BY DEF TypeInv, TypeOK
  <1>3. /\ j <= Len(spec.paths)
        /\ IF key \in DOMAIN pathsByKey
           THEN /\ pathsByKey' = [pathsByKey EXCEPT ![key] = Append(@, p)]
                /\ UNCHANGED matchKeys
           ELSE /\ pathsByKey' = Put(pathsByKey, key, <<p>>)
                /\ matchKeys' = Append(matchKeys, key)
    <2>1. i' # i + 1 /\ phase' # "panicked"
      BY <1>1, <1>2
    <2> QED
      BY <2>1 DEF GroupIngressPath
  <1>4. current \in DOMAIN ruleGroups
    BY <1>1 DEF TypeInv, Linked, PathsLinked, Building
  <1>5. ruleGroups[current].rules \in Seq([ingress : Nat, rule : Nat])
    BY <1>4 DEF TypeInv, TypeOK, MapOf, RuleGroup
  <1>6. i \in DOMAIN ruleGroups[current].rules /\ r \in [ingress : Nat, rule : Nat]
    BY <1>1, <1>2, <1>5, Element
  <1>7. InGroup(ingressList, r, current)
    BY <1>4, <1>6 DEF TypeInv, Linked, GroupsLinked
  <1>8. spec.paths \in Seq(PathRecord)
    BY <1>7, ListedRule DEF TypeInv, InGroup, RuleRecord
  <1>9. j \in DOMAIN spec.paths
    <2>1. j <= Len(spec.paths)
      BY <1>3
    <2> QED
      BY ONLY <1>2, <1>8, <2>1, Element
  <1>10. ValidPath(ingressList, p)
    BY <1>7, <1>9 DEF ValidPath, InGroup
  <1>11. \A k \in DOMAIN pathsByKey : IsSequence(pathsByKey[k])
    BY OwnElements DEF TypeInv, TypeOK, MapOf
  <1>12. CASE key \in DOMAIN pathsByKey
    BY <1>3, <1>10, <1>11, <1>12
  <1>13. CASE key \notin DOMAIN pathsByKey
    <2>1. Append(<<>>, p) = <<p>> /\ IsSequence(<<>>)
      BY DEF IsSequence
    <2>2. pathsByKey' = Put(pathsByKey, key, <<p>>)
      BY <1>3, <1>13
    <2> QED
      BY <1>3, <1>10, <1>13, <2>1, <2>2 DEF Put
  <1> QED
    BY <1>12, <1>13

\* A path that is grouped was not visited before, and is all that is visited.
LEMMA NewlyVisited ==
  ASSUME TypeInv, OnceInv, phase = "paths", i <= Len(ruleGroups[current].rules),
         NEW p, p = [ingress |-> ruleGroups[current].rules[i].ingress,
                     rule |-> ruleGroups[current].rules[i].rule, path |-> j],
         UNCHANGED <<phase, i, ruleGroups, current>>, j' = j + 1
  PROVE  /\ ~Visited(p) /\ Visited(p)'
         /\ \A q : Visited(q) /\ q.path \in Nat => Visited(q)'
         /\ \A q : Visited(q)' /\ q.path \in Nat
                     /\ q = [ingress |-> q.ingress, rule |-> q.rule, path |-> q.path] =>
                   Visited(q) \/ q = p
  <1>1. PICK rs : rs = ruleGroups[current].rules
    OBVIOUS
  <1>2. current \in DOMAIN ruleGroups
    BY DEF TypeInv, Linked, PathsLinked, Building
  <1>3. rs \in Seq([ingress : Nat, rule : Nat]) /\ NoRepeats(rs)
    BY <1>1, <1>2 DEF TypeInv, TypeOK, MapOf, RuleGroup, OnceInv, GroupsOnce
  <1>4. i \in Nat \ {0} /\ j \in Nat \ {0}
    BY DEF TypeInv, TypeOK
  <1>5. i \in DOMAIN rs /\ rs[i] \in [ingress : Nat, rule : Nat]
    BY <1>1, <1>3, <1>4, Element
  <1>6. rs[i] = [ingress |-> p.ingress, rule |-> p.rule] /\ p.path = j
    BY <1>1, <1>5
  <1>7. \A q : Visited(q) <=>
                 \E n \in DOMAIN rs : /\ rs[n] = [ingress |-> q.ingress, rule |-> q.rule]
                                      /\ n < i \/ (n = i /\ q.path < j)
    BY <1>1 DEF Visited
  <1>8. \A q : Visited(q)' <=>
                 \E n \in DOMAIN rs : /\ rs[n] = [ingress |-> q.ingress, rule |-> q.rule]
                                      /\ n < i \/ (n = i /\ q.path < j + 1)
    BY <1>1 DEF Visited
  <1>9. Visited(p)'
    BY <1>4, <1>5, <1>6, <1>8
  <1>10. ~Visited(p)
    <2> SUFFICES ASSUME Visited(p) PROVE FALSE
      OBVIOUS
    <2>1. PICK n \in DOMAIN rs : /\ rs[n] = [ingress |-> p.ingress, rule |-> p.rule]
                                 /\ n < i \/ (n = i /\ p.path < j)
      BY <1>7
    <2>2. n = i
      BY <1>3, <1>5, <1>6, <2>1 DEF NoRepeats
    <2> QED
      BY <1>4, <1>6, <2>1, <2>2
  <1>11. ASSUME NEW q, Visited(q), q.path \in Nat PROVE Visited(q)'
    <2>1. PICK n \in DOMAIN rs : /\ rs[n] = [ingress |-> q.ingress, rule |-> q.rule]
                                 /\ n < i \/ (n = i /\ q.path < j)
      BY <1>7, <1>11
    <2>2. n < i \/ (n = i /\ q.path < j + 1)
      BY <1>4, <1>11, <2>1
    <2> QED
      BY <1>8, <2>1, <2>2
  <1>12. ASSUME NEW q, Visited(q)', q.path \in Nat,
                q = [ingress |-> q.ingress, rule |-> q.rule, path |-> q.path]
         PROVE  Visited(q) \/ q = p
    <2>1. PICK n \in DOMAIN rs : /\ rs[n] = [ingress |-> q.ingress, rule |-> q.rule]
                                 /\ n < i \/ (n = i /\ q.path < j + 1)
      BY <1>8, <1>12
    <2>2. CASE n < i \/ (n = i /\ q.path < j)
      BY <1>7, <2>1, <2>2
    <2>3. CASE n = i /\ q.path = j
      <3>1. q.ingress = p.ingress /\ q.rule = p.rule /\ q.path = p.path
        BY <1>6, <2>1, <2>3
      <3>2. p = [ingress |-> p.ingress, rule |-> p.rule, path |-> p.path]
        OBVIOUS
      <3> QED
        BY <1>12, <3>1, <3>2
    <2> QED
      BY <1>4, <1>12, <2>1, <2>2, <2>3
  <1> QED
    BY <1>9, <1>10, <1>11, <1>12
LEMMA JoinPaths ==
  ASSUME TypeInv, OnceInv, GroupIngressPath, j' = j + 1, UNCHANGED <<phase, i>>
  PROVE  PathsOnce'
  <1>1. PICK p : p = [ingress |-> ruleGroups[current].rules[i].ingress,
                      rule |-> ruleGroups[current].rules[i].rule, path |-> j]
    OBVIOUS
  <1>2. PICK key : key = PathMatchKey(PathAt(p))
    OBVIOUS
  <1>3. /\ phase = "paths" /\ i <= Len(ruleGroups[current].rules)
        /\ UNCHANGED <<ingressList, ruleGroups, current>>
    BY DEF GroupIngressPath, groupVars
  <1>4. /\ ValidPath(ingressList, p)
        /\ DOMAIN pathsByKey' = DOMAIN pathsByKey \union {key}
        /\ \A k \in DOMAIN pathsByKey : k # key => pathsByKey'[k] = pathsByKey[k]
        /\ matchKeys' = IF key \in DOMAIN pathsByKey THEN matchKeys ELSE Append(matchKeys, key)
    BY <1>1, <1>2, GroupIngressPathEffect
  <1>5. PICK old : /\ IsSequence(old)
                   /\ IF key \in DOMAIN pathsByKey THEN old = pathsByKey[key]
                                                   ELSE old = <<>>
                   /\ pathsByKey'[key] = Append(old, p)
    BY <1>1, <1>2, GroupIngressPathEffect
  <1>6. /\ ~Visited(p) /\ Visited(p)'
        /\ \A q : Visited(q) /\ q.path \in Nat => Visited(q)'
        /\ \A q : Visited(q)' /\ q.path \in Nat
                    /\ q = [ingress |-> q.ingress, rule |-> q.rule, path |-> q.path] =>
                  Visited(q) \/ q = p
    BY <1>1, <1>3, NewlyVisited
  <1>7. /\ NoRepeats(matchKeys)
        /\ \A k \in DOMAIN pathsByKey :
             /\ InSeq(matchKeys, k) /\ NoRepeats(pathsByKey[k])
             /\ \A n \in DOMAIN pathsByKey[k] : Visited(pathsByKey[k][n])
        /\ \A q \in AllPlaces :
             /\ q.rule # 0 /\ KeyOf(ingressList, q.ingress, q.rule) = current
             /\ Visited(q)
             => UnderKey(q)
    BY <1>3 DEF OnceInv, PathsOnce, Building
  <1>8. IsSequence(matchKeys) /\ \A n \in DOMAIN matchKeys : matchKeys[n] \in DOMAIN pathsByKey
    BY <1>3, OwnElements DEF TypeInv, TypeOK, Linked, PathsLinked, Building
  <1>9. \A k \in DOMAIN pathsByKey : \A n \in DOMAIN pathsByKey[k] : pathsByKey[k][n].path \in Nat
    <2> SUFFICES ASSUME NEW k \in DOMAIN pathsByKey, NEW n \in DOMAIN pathsByKey[k]
                 PROVE  pathsByKey[k][n].path \in Nat
      OBVIOUS
    <2>1. pathsByKey[k] \in Seq(Pointer)
      BY DEF TypeInv, TypeOK, MapOf
    <2>2. pathsByKey[k][n] \in Pointer
      BY <2>1, SeqElement
    <2> QED
      BY <2>2 DEF Pointer
  <1> HIDE <1>1, <1>2
  <1>10. NoRepeats(matchKeys') /\ \A k \in DOMAIN pathsByKey' : InSeq(matchKeys', k)
    <2>1. CASE key \in DOMAIN pathsByKey
      BY <1>4, <1>7, <2>1
    <2>2. CASE key \notin DOMAIN pathsByKey
      <3>1. ~InSeq(matchKeys, key)
        BY <1>8, <2>2 DEF InSeq
      <3>2. matchKeys' = Append(matchKeys, key)
        BY <1>4, <2>2
      <3>3. NoRepeats(matchKeys')
        BY <1>7, <1>8, <3>1, <3>2, AppendNoRepeats
      <3>4. \A x : InSeq(matchKeys', x) <=> InSeq(matchKeys, x) \/ x = key
        BY <1>8, <3>2, AppendInSeq
      <3> QED
        BY <1>4, <1>7, <3>3, <3>4
    <2> QED
      BY <2>1, <2>2
  <1>11. /\ NoRepeats(old) /\ ~InSeq(old, p)
         /\ \A x : InSeq(old, x) => Visited(x)'
    <2>1. CASE key \in DOMAIN pathsByKey
      BY <1>5, <1>6, <1>7, <1>9, <2>1 DEF InSeq
    <2>2. CASE key \notin DOMAIN pathsByKey
      BY <1>5, <2>2 DEF NoRepeats, InSeq
    <2> QED
      BY <2>1, <2>2
  <1>12. NoRepeats(pathsByKey'[key])
    BY <1>5, <1>11, AppendNoRepeats
  <1>13. \A x : InSeq(pathsByKey'[key], x) <=> InSeq(old, x) \/ x = p
    BY <1>5, AppendInSeq
  <1>14. ASSUME NEW k \in DOMAIN pathsByKey'
         PROVE  /\ NoRepeats(pathsByKey'[k])
                /\ \A x : InSeq(pathsByKey'[k], x) => Visited(x)'
    <2>1. CASE k = key
      BY <1>6, <1>11, <1>12, <1>13, <2>1
    <2>2. CASE k # key
      BY <1>4, <1>6, <1>7, <1>9, <2>2 DEF InSeq
    <2> QED
      BY <2>1, <2>2
  <1>15. \A x, k : k \in DOMAIN pathsByKey /\ InSeq(pathsByKey[k], x) =>
                     k \in DOMAIN pathsByKey' /\ InSeq(pathsByKey'[k], x)
    BY <1>4, <1>5, <1>13
  <1>16. \A q : UnderKey(q) => UnderKey(q)'
    <2> SUFFICES ASSUME NEW q, UnderKey(q), NEW k, k = PathMatchKey(PathAt(q))
                 PROVE  UnderKey(q)'
      OBVIOUS
    <2>1. k \in DOMAIN pathsByKey' /\ InSeq(pathsByKey'[k], q)
      BY <1>15 DEF UnderKey
    <2>2. k = PathMatchKey(PathAt(q))'
      BY <1>3 DEF PathAt
    <2> QED
      BY <2>1, <2>2 DEF UnderKey
  <1>17. UnderKey(p)'
    <2>1. key = PathMatchKey(PathAt(p))'
      BY <1>2, <1>3 DEF PathAt
    <2>2. key \in DOMAIN pathsByKey' /\ InSeq(pathsByKey'[key], p)
      BY <1>4, <1>13
    <2> QED
      BY <2>1, <2>2 DEF UnderKey
  <1>18. AllPlaces' = AllPlaces
    BY <1>3 DEF AllPlaces
  <1>19. \A q \in AllPlaces :
           /\ q.rule # 0 /\ KeyOf(ingressList, q.ingress, q.rule) = current /\ Visited(q)'
           => UnderKey(q)'
    <2> SUFFICES ASSUME NEW q \in AllPlaces, q.rule # 0, Visited(q)',
                        KeyOf(ingressList, q.ingress, q.rule) = current
                 PROVE  UnderKey(q)'
      OBVIOUS
    <2>1. /\ q = [ingress |-> q.ingress, rule |-> q.rule, path |-> q.path]
          /\ ValidPath(ingressList, q)
      BY PointerFacts
    <2>2. q.path \in Nat
      BY <2>1, PathNumbers
    <2>3. Visited(q) \/ q = p
      BY <1>6, <2>1, <2>2
    <2> QED
      BY <1>7, <1>16, <1>17, <2>3
  <1>20. \A k \in DOMAIN pathsByKey' : \A n \in DOMAIN pathsByKey'[k] :
           InSeq(pathsByKey'[k], pathsByKey'[k][n])
    BY DEF InSeq
  <1>21. (\A k \in DOMAIN pathsByKey : \A n \in DOMAIN pathsByKey[k] : Visited(pathsByKey[k][n]))'
    <2> SUFFICES ASSUME NEW k \in DOMAIN pathsByKey', NEW n \in DOMAIN pathsByKey'[k],
                        NEW q, q = pathsByKey'[k][n]
                 PROVE  Visited(q)'
      BY DEF Visited
    <2> QED
      BY <1>14, <1>20
  <1> QED
    BY <1>3, <1>10, <1>14, <1>18, <1>19, <1>21 DEF PathsOnce, KeyOf
\* After the last path of a rule all of its paths have been visited.
LEMMA NextRulePaths ==
  ASSUME TypeInv, OnceInv, GroupIngressPath, i' = i + 1, phase' = phase
  PROVE  PathsOnce'
  <1>1. PICK r : r = ruleGroups[current].rules[i]
    OBVIOUS
  <1>2. i \in Nat \ {0} /\ j \in Nat \ {0} /\ phase = "paths"
    BY DEF GroupIngressPath, TypeInv, TypeOK
  <1>3. /\ j > Len(ingressList[r.ingress].rules[r.rule].paths) /\ j' = 1
        /\ i <= Len(ruleGroups[current].rules)
        /\ UNCHANGED <<ingressList, ruleGroups, current, matchKeys, pathsByKey>>
    <2>1. i' # i /\ phase' # "panicked"
      BY <1>2
    <2> QED
      BY <1>1, <2>1 DEF GroupIngressPath, groupVars, pathVars
  <1>4. PICK rs : rs = ruleGroups[current].rules
    OBVIOUS
  <1>5. current \in DOMAIN ruleGroups
    BY <1>2 DEF TypeInv, Linked, PathsLinked, Building
  <1>6. rs \in Seq([ingress : Nat, rule : Nat])
    BY <1>4, <1>5 DEF TypeInv, TypeOK, MapOf, RuleGroup
  <1>7. \A n \in DOMAIN rs : n \in Nat
    BY <1>6
  <1>8. \A q : Visited(q) <=>
                 \E n \in DOMAIN rs : /\ rs[n] = [ingress |-> q.ingress, rule |-> q.rule]
                                      /\ n < i \/ (n = i /\ q.path < j)
    BY <1>2, <1>4 DEF Visited
  <1>9. \A q : Visited(q)' <=>
                 \E n \in DOMAIN rs : /\ rs[n] = [ingress |-> q.ingress, rule |-> q.rule]
                                      /\ n < i + 1 \/ (n = i + 1 /\ q.path < 1)
    BY <1>2, <1>3, <1>4 DEF Visited
  <1>10. \A q : Visited(q) => Visited(q)'
    <2>1. \A n \in DOMAIN rs : (n < i \/ n = i) => n < i + 1
      BY <1>2, <1>7
    <2> QED
      BY <1>8, <1>9, <2>1
  <1>11. \A q \in AllPlaces : q.rule # 0 /\ Visited(q)' => Visited(q)
    <2> SUFFICES ASSUME NEW q \in AllPlaces, q.rule # 0, Visited(q)' PROVE Visited(q)
      OBVIOUS
    <2>1. ValidPath(ingressList, q)
      BY PointerFacts
    <2>2. /\ q.path \in Nat /\ q.path > 0
          /\ q.path <= Len(ingressList[q.ingress].rules[q.rule].paths)
          /\ Len(ingressList[q.ingress].rules[q.rule].paths) \in Nat
      BY <2>1, PathNumbers
    <2>3. PICK n \in DOMAIN rs : /\ rs[n] = [ingress |-> q.ingress, rule |-> q.rule]
                                 /\ n < i + 1 \/ (n = i + 1 /\ q.path < 1)
      BY <1>9
    <2>4. n < i \/ n = i
      BY <1>2, <1>7, <2>2, <2>3
    <2>5. CASE n < i
      BY <1>8, <2>3, <2>5
    <2>6. CASE n = i
      <3>1. r.ingress = q.ingress /\ r.rule = q.rule
        BY <1>1, <1>4, <2>3, <2>6
      <3>2. q.path < j
        BY <1>2, <1>3, <2>2, <3>1
      <3> QED
        BY <1>8, <2>3, <2>6, <3>2
    <2> QED
      BY <2>4, <2>5, <2>6
  <1>12. PathsOnce
    BY DEF OnceInv
  <1>13. AllPlaces' = AllPlaces /\ \A q : UnderKey(q) => UnderKey(q)'
    BY <1>3 DEF AllPlaces, UnderKey, PathAt
  <1>14. (\A k \in DOMAIN pathsByKey : \A n \in DOMAIN pathsByKey[k] : Visited(pathsByKey[k][n]))'
    <2> SUFFICES ASSUME NEW k \in DOMAIN pathsByKey, NEW n \in DOMAIN pathsByKey[k],
                        NEW q, q = pathsByKey[k][n]
                 PROVE  Visited(q)'
      BY <1>3 DEF Visited
    <2> QED
      BY <1>2, <1>10, <1>12 DEF PathsOnce, Building
  <1> QED
    BY <1>2, <1>3, <1>11, <1>12, <1>13, <1>14 DEF PathsOnce, Building, KeyOf

LEMMA GroupIngressPathPaths == TypeInv /\ OnceInv /\ GroupIngressPath => PathsOnce'
  <1> SUFFICES ASSUME TypeInv, OnceInv, GroupIngressPath PROVE PathsOnce'
    OBVIOUS
  <1>1. \/ phase' = "panicked"
        \/ j' = j + 1 /\ UNCHANGED <<phase, i>>
        \/ i' = i + 1 /\ phase' = phase
    BY DEF GroupIngressPath
  <1>2. CASE phase' = "panicked"
    BY <1>2 DEF PathsOnce, Building
  <1> QED
    BY <1>1, <1>2, JoinPaths, NextRulePaths

\* The loops over match keys and their paths leave the lists alone.
LEMMA QuietPaths ==
  ASSUME OnceInv, UNCHANGED <<ingressList, ruleGroups, current, matchKeys, pathsByKey>>,
         phase \in {"rules", "backends"}, phase' # "paths"
  PROVE  PathsOnce'
  <1>1. AllPlaces' = AllPlaces /\ \A q : UnderKey(q) => UnderKey(q)'
    BY DEF AllPlaces, UnderKey, PathAt
  <1>2. PathsOnce
    BY DEF OnceInv
  <1> QED
    BY <1>1, <1>2 DEF PathsOnce, Visited, Building, KeyOf
-------------------------------------------------------------------------------
(***************************************************************************)
(* Without errors the route takes over every list of paths as it is.       *)
(***************************************************************************)
LEMMA SameSeq ==
  ASSUME NEW T, NEW s \in Seq(T), NEW t \in Seq(T), Len(t) <= Len(s),
         \A n \in DOMAIN s : n \in DOMAIN t /\ s[n] = t[n]
  PROVE  s = t
  <1>1. Len(s) \in Nat /\ Len(t) \in Nat /\ DOMAIN s = 1..Len(s) /\ DOMAIN t = 1..Len(t)
    OBVIOUS
  <1>2. Len(s) <= Len(t)
    <2>1. Len(s) # 0 => Len(s) \in DOMAIN s
      BY <1>1
    <2> QED
      BY <1>1, <2>1
  <1>3. Len(s) = Len(t)
    <2>1. \A a, b \in Nat : a <= b /\ b <= a => a = b
      OBVIOUS
    <2> QED
      BY <1>1, <1>2, <2>1
  <1> QED
    BY <1>1, <1>3

LEMMA PathsGroupedTakes == TypeInv /\ OnceInv /\ PathsGrouped => RouteTakesAll'
  <1> SUFFICES ASSUME TypeInv, OnceInv, PathsGrouped PROVE RouteTakesAll'
    OBVIOUS
  <1>1. /\ phase = "paths" /\ phase' = "rules" /\ i' = 1
        /\ UNCHANGED <<route, matchKeys, pathsByKey, errors>>
    BY DEF PathsGrouped, Goto, buildVars, pathVars, outVars
  <1>2. errors = {} => route.sources = <<>>
    BY <1>1 DEF OnceInv, RouteTakesAll
  <1> QED
    BY <1>1, <1>2 DEF RouteTakesAll

LEMMA ToHTTPRouteRuleTakes == TypeInv /\ OnceInv /\ ToHTTPRouteRule => RouteTakesAll'
  <1> SUFFICES ASSUME TypeInv, OnceInv, ToHTTPRouteRule, errors' = {} PROVE RouteTakesAll'
    BY DEF RouteTakesAll
  <1>1. phase = "rules" /\ UNCHANGED <<route, matchKeys, pathsByKey>>
    BY DEF ToHTTPRouteRule, pathVars
  <1>2. \/ phase' = "panicked"
        \/ /\ rule' = [name |-> i - 1, match |-> ToHTTPRouteMatch(matchKeys[i]),
                       backendRefs |-> <<>>, sources |-> <<>>]
           /\ phase' = "backends" /\ j' = 1 /\ UNCHANGED <<i, errors>>
    BY DEF ToHTTPRouteRule
  <1>3. CASE phase' = "panicked"
    BY <1>3 DEF RouteTakesAll
  <1>4. CASE /\ rule' = [name |-> i - 1, match |-> ToHTTPRouteMatch(matchKeys[i]),
                         backendRefs |-> <<>>, sources |-> <<>>]
             /\ phase' = "backends" /\ j' = 1 /\ UNCHANGED <<i, errors>>
    <2>1. rule'.sources = <<>>
      BY <1>4
    <2>2. /\ Len(route.sources) = i - 1
          /\ \A x \in DOMAIN route.sources :
               x \in DOMAIN matchKeys /\ route.sources[x] = pathsByKey[matchKeys[x]]
      BY <1>1, <1>4 DEF OnceInv, RouteTakesAll
    <2> QED
      BY <1>1, <1>4, <2>1, <2>2 DEF RouteTakesAll
  <1> QED
    BY <1>2, <1>3, <1>4

LEMMA ConfigureBackendRefTakes ==
  TypeInv /\ OnceInv /\ ConfigureBackendRef => RouteTakesAll'
  <1> SUFFICES ASSUME TypeInv, OnceInv, ConfigureBackendRef, errors' = {} PROVE RouteTakesAll'
    BY DEF RouteTakesAll
  <1>1. PICK p : p = pathsByKey[matchKeys[i]][j]
    OBVIOUS
  <1>2. PICK ref : ref = ToBackendRef(route.ns, BackendAt(p))
    OBVIOUS
  <1>3. /\ phase = "backends" /\ phase' = phase /\ j <= Len(pathsByKey[matchKeys[i]])
        /\ j' = j + 1 /\ UNCHANGED <<i, route, matchKeys, pathsByKey>>
    BY DEF ConfigureBackendRef, pathVars
  <1>4. Resolves(route.ns, BackendAt(p)) /\ rule' = WithBackend(rule, ref, p) /\ errors = {}
    BY <1>1, <1>2 DEF ConfigureBackendRef
  <1>5. p \in Pointer /\ BackendAt(p) \in Backend
    BY <1>1, <1>3, CurrentBackend
  <1>6. ref \in BackendRef /\ rule \in RuleWithSources
    BY <1>2, <1>3, <1>4, <1>5, ToBackendRefType DEF TypeInv, Linked, RuleLinked
  <1> HIDE <1>1, <1>2
  <1>7. rule'.sources = Append(rule.sources, p)
    BY <1>4, <1>5, <1>6, JoinRule
  <1>8. PICK src : src = rule.sources
    OBVIOUS
  <1>9. src \in Seq(Pointer)
    BY <1>6, <1>8 DEF RuleWithSources
  <1>10. PICK ps : ps = pathsByKey[matchKeys[i]]
    OBVIOUS
  <1>11. matchKeys[i] \in DOMAIN pathsByKey
    BY <1>3 DEF TypeInv, Linked, PathsLinked, RuleLinked, Building
  <1>12. ps \in Seq(Pointer) /\ j \in Nat \ {0}
    BY <1>10, <1>11 DEF TypeInv, TypeOK, MapOf
  <1>13. j \in DOMAIN ps /\ p = ps[j]
    BY <1>1, <1>3, <1>10, <1>12, Element
  <1>14. Len(src) = j - 1 /\ \A y \in DOMAIN src : y \in DOMAIN ps /\ src[y] = ps[y]
    BY <1>3, <1>4, <1>8, <1>10 DEF OnceInv, RouteTakesAll
  <1>15. PICK new : new = Append(src, p)
    OBVIOUS
  <1>16. /\ Len(new) = Len(src) + 1 /\ DOMAIN new = DOMAIN src \union {Len(src) + 1}
         /\ new[Len(src) + 1] = p /\ \A y \in DOMAIN src : new[y] = src[y]
    BY <1>5, <1>9, <1>15
  <1>17. Len(src) + 1 = j
    BY <1>12, <1>14
  <1>18. Len(new) = (j + 1) - 1 /\ \A y \in DOMAIN new : y \in DOMAIN ps /\ new[y] = ps[y]
    <2>1. Len(new) = (j + 1) - 1
      BY <1>12, <1>16, <1>17
    <2>2. \A y \in DOMAIN new : y \in DOMAIN src \/ y = j
      BY <1>16, <1>17
    <2>3. new[j] = p
      BY <1>16, <1>17
    <2> QED
      BY <1>13, <1>14, <1>16, <2>1, <2>2, <2>3
  <1>19. /\ Len(route.sources) = i - 1
         /\ \A x \in DOMAIN route.sources :
              x \in DOMAIN matchKeys /\ route.sources[x] = pathsByKey[matchKeys[x]]
    BY <1>3, <1>4 DEF OnceInv, RouteTakesAll
  <1>20. rule'.sources = new
    BY <1>7, <1>8, <1>15
  <1> QED
    BY <1>3, <1>10, <1>18, <1>19, <1>20 DEF RouteTakesAll

LEMMA AppendRuleTakes == TypeInv /\ OnceInv /\ AppendRule => RouteTakesAll'
  <1> SUFFICES ASSUME TypeInv, OnceInv, AppendRule, errors' = {} PROVE RouteTakesAll'
    BY DEF RouteTakesAll
  <1>1. PICK r : r = [name |-> rule.name, match |-> rule.match,
                      backendRefs |-> rule.backendRefs]
    OBVIOUS
  <1>2. PICK src : src = rule.sources
    OBVIOUS
  <1>3. /\ phase = "backends" /\ phase' = "rules" /\ j > Len(pathsByKey[matchKeys[i]])
        /\ route' = WithRule(route, r, src) /\ i' = i + 1 /\ errors = {}
        /\ UNCHANGED <<matchKeys, pathsByKey>>
    BY <1>1, <1>2 DEF AppendRule, pathVars, outVars
  <1>4. rule \in RuleWithSources /\ IsRoute(route) /\ i \in DOMAIN matchKeys
    BY <1>3 DEF TypeInv, Linked, RuleLinked, PathsLinked, Building
  <1>5. r \in Rule /\ src \in Seq(Pointer)
    BY <1>1, <1>2, <1>4 DEF RuleWithSources, Rule
  <1> HIDE <1>1
  <1>6. route'.sources = Append(route.sources, src)
    BY <1>3, <1>4, <1>5, ExtendRoute
  <1>7. PICK ps : ps = pathsByKey[matchKeys[i]]
    OBVIOUS
  <1>8. matchKeys[i] \in DOMAIN pathsByKey
    BY <1>3 DEF TypeInv, Linked, PathsLinked, RuleLinked, Building
  <1>9. ps \in Seq(Pointer) /\ j \in Nat \ {0} /\ i \in Nat \ {0}
    BY <1>7, <1>8 DEF TypeInv, TypeOK, MapOf
  <1>10. Len(src) = j - 1 /\ \A y \in DOMAIN src : y \in DOMAIN ps /\ src[y] = ps[y]
    BY <1>2, <1>3, <1>7 DEF OnceInv, RouteTakesAll
  <1>11. src = ps
    <2>1. Len(ps) <= Len(src)
      <3>1. Len(ps) \in Nat
        BY <1>9
      <3> QED
        BY <1>3, <1>7, <1>9, <1>10, <3>1
    <2> QED
      BY <1>5, <1>9, <1>10, <2>1, SameSeq
  <1>12. PICK old : old = route.sources
    OBVIOUS
  <1>13. old \in Seq(Seq(Pointer))
    BY <1>4, <1>12 DEF IsRoute
  <1>14. /\ Len(old) = i - 1
         /\ \A x \in DOMAIN old : x \in DOMAIN matchKeys /\ old[x] = pathsByKey[matchKeys[x]]
    BY <1>3, <1>12 DEF OnceInv, RouteTakesAll
  <1>15. PICK new : new = Append(old, src)
    OBVIOUS
  <1>16. /\ Len(new) = Len(old) + 1 /\ DOMAIN new = DOMAIN old \union {Len(old) + 1}
         /\ new[Len(old) + 1] = src /\ \A x \in DOMAIN old : new[x] = old[x]
    BY <1>5, <1>13, <1>15
  <1>17. Len(old) + 1 = i
    BY <1>9, <1>14
  <1>18. Len(new) = (i + 1) - 1
         /\ \A x \in DOMAIN new : x \in DOMAIN matchKeys /\ new[x] = pathsByKey[matchKeys[x]]
    <2>1. Len(new) = (i + 1) - 1
      BY <1>9, <1>16, <1>17
    <2>2. \A x \in DOMAIN new : x \in DOMAIN old \/ x = i
      BY <1>16, <1>17
    <2>3. new[i] = pathsByKey[matchKeys[i]]
      BY <1>7, <1>11, <1>16, <1>17
    <2> QED
      BY <1>4, <1>14, <1>16, <2>1, <2>2, <2>3
  <1>19. route'.sources = new
    BY <1>6, <1>12, <1>15
  <1> QED
    BY <1>3, <1>18, <1>19 DEF RouteTakesAll
-------------------------------------------------------------------------------
(***************************************************************************)
(* The routes built so far have what is finished, once.                    *)
(***************************************************************************)
LEMMA RouteHasSources ==
  ASSUME NEW routes, NEW n \in DOMAIN routes, NEW x \in DOMAIN routes[n].sources,
         NEW y \in DOMAIN routes[n].sources[x]
  PROVE  HasRoute(routes, routes[n].sources[x][y])
  BY DEF HasRoute, HasSource, InSeq

LEMMA AppendRouteOnce ==
  ASSUME NEW s, IsSequence(s), RoutesOnce(s), NEW rt, SourcesOnce(rt.sources),
         \A p : ~(HasRoute(s, p) /\ HasSource(rt.sources, p)), NEW t, t = Append(s, rt)
  PROVE  /\ RoutesOnce(t)
         /\ \A p : HasRoute(t, p) <=> HasRoute(s, p) \/ HasSource(rt.sources, p)
  <1>1. /\ DOMAIN t = DOMAIN s \union {Len(s) + 1}
        /\ \A n \in DOMAIN s : t[n] = s[n]
        /\ t[Len(s) + 1] = rt
    BY AppendOwn
  <1>2. PICK last : last = Len(s) + 1
    OBVIOUS
  <1>3. /\ DOMAIN t = DOMAIN s \union {last}
        /\ \A n \in DOMAIN s : t[n] = s[n]
        /\ t[last] = rt
    BY <1>1, <1>2
  <1>4. \A p : HasRoute(t, p) <=> HasRoute(s, p) \/ HasSource(rt.sources, p)
    BY <1>3 DEF HasRoute
  <1>5. \A n \in DOMAIN t : SourcesOnce(t[n].sources)
    BY <1>3 DEF RoutesOnce
  <1>6. ASSUME NEW n \in DOMAIN t, NEW m \in DOMAIN t, NEW p,
               HasSource(t[n].sources, p), HasSource(t[m].sources, p)
        PROVE  n = m
    <2>1. CASE n \in DOMAIN s /\ m \in DOMAIN s
      <3>1. PICK x \in DOMAIN s[n].sources : InSeq(s[n].sources[x], p)
        BY <1>3, <1>6, <2>1 DEF HasSource
      <3>2. PICK y \in DOMAIN s[n].sources[x] : s[n].sources[x][y] = p
        BY <3>1 DEF InSeq
      <3> QED
        BY <1>3, <1>6, <2>1, <3>1, <3>2 DEF RoutesOnce
    <2>2. CASE n \in DOMAIN s /\ m = last
      <3>1. HasRoute(s, p) /\ HasSource(rt.sources, p)
        BY <1>3, <1>6, <2>2 DEF HasRoute
      <3> QED
        BY <3>1
    <2>3. CASE n = last /\ m \in DOMAIN s
      <3>1. HasRoute(s, p) /\ HasSource(rt.sources, p)
        BY <1>3, <1>6, <2>3 DEF HasRoute
      <3> QED
        BY <3>1
    <2> QED
      BY <1>3, <2>1, <2>2, <2>3
  <1>7. ASSUME NEW n \in DOMAIN t, NEW m \in DOMAIN t, NEW x \in DOMAIN t[n].sources,
               NEW y \in DOMAIN t[n].sources[x],
               HasSource(t[m].sources, t[n].sources[x][y])
        PROVE  n = m
    <2>1. HasSource(t[n].sources, t[n].sources[x][y])
      BY DEF HasSource, InSeq
    <2> QED
      BY <1>6, <1>7, <2>1
  <1> QED
    BY <1>4, <1>5, <1>7 DEF RoutesOnce

\* A route that is complete has the paths of its group, each of them once.
LEMMA CompleteRoute ==
  ASSUME TypeInv, OnceInv, phase = "rules", i > Len(matchKeys), errors = {},
         NEW s, s = route.sources
  PROVE  /\ SourcesOnce(s)
         /\ \A p \in AllPlaces :
              p.rule # 0 /\ KeyOf(ingressList, p.ingress, p.rule) = current => HasSource(s, p)
         /\ \A p : HasSource(s, p) =>
              p \in AllPlaces /\ p.rule # 0 /\ KeyOf(ingressList, p.ingress, p.rule) = current
  <1>1. /\ Len(s) = i - 1
        /\ \A x \in DOMAIN s : x \in DOMAIN matchKeys /\ s[x] = pathsByKey[matchKeys[x]]
    BY DEF OnceInv, RouteTakesAll
  <1>2. /\ IsRoute(route)
        /\ \A n \in DOMAIN matchKeys : matchKeys[n] \in DOMAIN pathsByKey
        /\ \A k \in DOMAIN pathsByKey : \A n \in DOMAIN pathsByKey[k] :
             /\ ValidPath(ingressList, pathsByKey[k][n])
             /\ InGroup(ingressList, pathsByKey[k][n], current)
             /\ PathMatchKey(PathIn(ingressList, pathsByKey[k][n])) = k
    BY DEF TypeInv, Linked, PathsLinked, Building
  <1>3. s \in Seq(Seq(Pointer)) /\ matchKeys \in Seq(MatchKey) /\ i \in Nat
    BY <1>2 DEF IsRoute, TypeInv, TypeOK
  <1>4. \A x \in DOMAIN matchKeys : x \in DOMAIN s
    <2>1. Len(s) \in Nat /\ Len(matchKeys) \in Nat /\ DOMAIN s = 1..Len(s)
          /\ DOMAIN matchKeys = 1..Len(matchKeys)
      BY <1>3
    <2> QED
      BY <1>1, <1>3, <2>1
  <1>5. /\ NoRepeats(matchKeys)
        /\ \A k \in DOMAIN pathsByKey : InSeq(matchKeys, k) /\ NoRepeats(pathsByKey[k])
        /\ \A p \in AllPlaces :
             p.rule # 0 /\ KeyOf(ingressList, p.ingress, p.rule) = current => UnderKey(p)
    BY DEF OnceInv, PathsOnce, Building, Visited
  <1>6. \A x \in DOMAIN s : NoRepeats(s[x])
    BY <1>1, <1>2, <1>5
  <1>7. \A x \in DOMAIN s : \A p : InSeq(s[x], p) =>
          /\ PathMatchKey(PathIn(ingressList, p)) = matchKeys[x]
          /\ ValidPath(ingressList, p) /\ InGroup(ingressList, p, current)
    <2> SUFFICES ASSUME NEW x \in DOMAIN s, NEW p, InSeq(s[x], p)
                 PROVE  /\ PathMatchKey(PathIn(ingressList, p)) = matchKeys[x]
                        /\ ValidPath(ingressList, p) /\ InGroup(ingressList, p, current)
      OBVIOUS
    <2>1. PICK k : k = matchKeys[x]
      OBVIOUS
    <2>2. k \in DOMAIN pathsByKey /\ s[x] = pathsByKey[k]
      BY <1>1, <1>2, <2>1
    <2>3. PICK n \in DOMAIN pathsByKey[k] : pathsByKey[k][n] = p
      BY <2>2 DEF InSeq
    <2> QED
      BY <1>2, <2>1, <2>2, <2>3
  <1>8. ASSUME NEW x \in DOMAIN s, NEW z \in DOMAIN s, NEW y \in DOMAIN s[x],
               InSeq(s[z], s[x][y])
        PROVE  x = z
    <2>1. InSeq(s[x], s[x][y])
      BY DEF InSeq
    <2>2. matchKeys[x] = matchKeys[z]
      BY <1>7, <1>8, <2>1
    <2> QED
      BY <1>1, <1>5, <2>2 DEF NoRepeats
  <1>9. SourcesOnce(s)
    BY <1>6, <1>8 DEF SourcesOnce
  <1>10. ASSUME NEW p \in AllPlaces, p.rule # 0,
                KeyOf(ingressList, p.ingress, p.rule) = current
         PROVE  HasSource(s, p)
    <2>1. PICK k : k \in DOMAIN pathsByKey /\ InSeq(pathsByKey[k], p)
      BY <1>5, <1>10 DEF UnderKey
    <2>2. PICK x \in DOMAIN matchKeys : matchKeys[x] = k
      BY <1>5, <2>1 DEF InSeq
    <2>3. x \in DOMAIN s /\ s[x] = pathsByKey[k]
      BY <1>1, <1>4, <2>2
    <2> QED
      BY <2>1, <2>3 DEF HasSource
  <1>11. ASSUME NEW p, HasSource(s, p)
         PROVE  p \in AllPlaces /\ p.rule # 0 /\ KeyOf(ingressList, p.ingress, p.rule) = current
    <2>1. PICK x \in DOMAIN s : InSeq(s[x], p)
      BY <1>11 DEF HasSource
    <2>2. ValidPath(ingressList, p) /\ InGroup(ingressList, p, current)
      BY <1>7, <2>1
    <2>3. p \in Pointer
      <3>1. s[x] \in Seq(Pointer)
        BY <1>3
      <3>2. PICK y \in DOMAIN s[x] : s[x][y] = p
        BY <2>1 DEF InSeq
      <3> QED
        BY <3>1, <3>2, SeqElement
    <2> QED
      BY <2>2, <2>3, PathIsPlace, PathNumbers DEF InGroup, KeyOf
  <1> QED
    BY <1>9, <1>10, <1>11
\* What RoutesComplete says after a step, in terms of HasRoute.
LEMMA RoutesAre ==
  ASSUME RoutesOnce(httpRoutes'), AllPlaces' = AllPlaces,
         \A p \in AllPlaces : Finished(p)' => HasRoute(httpRoutes', p),
         \A p : HasRoute(httpRoutes', p) => p \in AllPlaces /\ Finished(p)'
  PROVE  RoutesComplete'
  <1>1. (\A n \in DOMAIN httpRoutes : \A x \in DOMAIN httpRoutes[n].sources :
           \A y \in DOMAIN httpRoutes[n].sources[x] :
             /\ httpRoutes[n].sources[x][y] \in AllPlaces
             /\ Finished(httpRoutes[n].sources[x][y]))'
    <2> SUFFICES ASSUME NEW n \in DOMAIN httpRoutes', NEW x \in DOMAIN httpRoutes'[n].sources,
                        NEW y \in DOMAIN httpRoutes'[n].sources[x],
                        NEW p, p = httpRoutes'[n].sources[x][y]
                 PROVE  p \in AllPlaces /\ Finished(p)'
      BY DEF Finished
    <2> QED
      BY RouteHasSources
  <1>2. (\A p \in AllPlaces : Finished(p) => HasRoute(httpRoutes, p))'
    OBVIOUS
  <1>3. RoutesOnce(httpRoutes)'
    OBVIOUS
  <1> QED
    BY <1>1, <1>2, <1>3 DEF RoutesComplete

LEMMA RouteBuiltRoutes == TypeInv /\ OnceInv /\ RouteBuilt => RoutesComplete'
  <1> SUFFICES ASSUME TypeInv, OnceInv, RouteBuilt, errors' = {} PROVE RoutesComplete'
    BY DEF RoutesComplete
  <1>1. /\ phase = "rules" /\ phase' = "groups" /\ i > Len(matchKeys) /\ errors = {}
        /\ httpRoutes' = Append(httpRoutes, route)
        /\ UNCHANGED <<ingressList, pending, current>>
    BY DEF RouteBuilt, Goto
  <1>2. PICK s : s = route.sources
    OBVIOUS
  <1>3. /\ SourcesOnce(s)
        /\ \A p \in AllPlaces :
             p.rule # 0 /\ KeyOf(ingressList, p.ingress, p.rule) = current => HasSource(s, p)
        /\ \A p : HasSource(s, p) =>
             p \in AllPlaces /\ p.rule # 0 /\ KeyOf(ingressList, p.ingress, p.rule) = current
    BY <1>1, <1>2, CompleteRoute
  <1>4. /\ RoutesOnce(httpRoutes)
        /\ \A p \in AllPlaces : Finished(p) => HasRoute(httpRoutes, p)
        /\ \A n \in DOMAIN httpRoutes : \A x \in DOMAIN httpRoutes[n].sources :
             \A y \in DOMAIN httpRoutes[n].sources[x] :
               /\ httpRoutes[n].sources[x][y] \in AllPlaces
               /\ Finished(httpRoutes[n].sources[x][y])
    BY <1>1 DEF OnceInv, RoutesComplete
  <1>5. \A p : HasRoute(httpRoutes, p) => p \in AllPlaces /\ Finished(p)
    BY <1>4 DEF HasRoute, HasSource, InSeq
  <1>6. \A p : Finished(p) => /\ p.rule # 0
                              /\ KeyOf(ingressList, p.ingress, p.rule) \notin pending
                              /\ KeyOf(ingressList, p.ingress, p.rule) # current
    BY <1>1 DEF Finished, Building
  <1>7. current \notin pending
    BY <1>1 DEF OnceInv, CurrentTaken, Building
  <1>8. \A p : Finished(p)' <=> /\ p.rule # 0
                                /\ KeyOf(ingressList, p.ingress, p.rule) \notin pending
    BY <1>1 DEF Finished, Building, KeyOf
  <1>9. \A p : ~(HasRoute(httpRoutes, p) /\ HasSource(route.sources, p))
    BY <1>2, <1>3, <1>5, <1>6
  <1>10. IsSequence(httpRoutes) /\ SourcesOnce(route.sources)
    BY <1>2, <1>3 DEF TypeInv, TypeOK, IsSeqOf
  <1>11. /\ RoutesOnce(httpRoutes')
         /\ \A p : HasRoute(httpRoutes', p) <=> HasRoute(httpRoutes, p) \/ HasSource(s, p)
    BY <1>1, <1>2, <1>4, <1>9, <1>10, AppendRouteOnce
  <1>12. \A p : HasRoute(httpRoutes', p) => p \in AllPlaces /\ Finished(p)'
    BY <1>3, <1>5, <1>6, <1>7, <1>8, <1>11
  <1>13. \A p \in AllPlaces : Finished(p)' => HasRoute(httpRoutes', p)
    <2> SUFFICES ASSUME NEW p \in AllPlaces, Finished(p)' PROVE HasRoute(httpRoutes', p)
      OBVIOUS
    <2>1. Finished(p) \/ KeyOf(ingressList, p.ingress, p.rule) = current
      BY <1>1, <1>8 DEF Finished, Building
    <2> QED
      BY <1>3, <1>4, <1>8, <1>11, <2>1
  <1>14. AllPlaces' = AllPlaces
    BY <1>1 DEF AllPlaces
  <1> QED
    BY <1>11, <1>12, <1>13, <1>14, RoutesAre

LEMMA DefaultBackendRouteRoutes ==
  TypeInv /\ OnceInv /\ DefaultBackendRoute => RoutesComplete'
  <1> SUFFICES ASSUME TypeInv, OnceInv, DefaultBackendRoute, errors' = {}
               PROVE  RoutesComplete'
    BY DEF RoutesComplete
  <1>1. PICK p : p = [ingress |-> defaultBackends[i], rule |-> 0, path |-> 0]
    OBVIOUS
  <1> DEFINE ing == ingressList[p.ingress]
             ok  == Resolves(ing.ns, BackendAt(p))
  <1>2. /\ phase = "defaults" /\ phase' = phase /\ i <= Len(defaultBackends) /\ i' = i + 1
        /\ errors = {} /\ UNCHANGED <<ingressList, defaultBackends>>
    BY DEF DefaultBackendRoute, groupVars
  <1>3. PICK rt : httpRoutes' = Append(httpRoutes, rt) /\ rt.sources = << <<p>> >>
    <2>1. PICK rt : rt = [ns |-> ing.ns, name |-> DefaultRouteName(ing.name),
                          class |-> GetIngressClass(ing), host |-> <<>>,
                          rules |-> IF ok
                                    THEN <<[name |-> 0, match |-> Nothing,
                                            backendRefs |-> <<ToBackendRef(ing.ns, BackendAt(p))>>]>>
                                    ELSE <<>>,
                          sources |-> << <<p>> >>]
      OBVIOUS
    <2>2. httpRoutes' = Append(httpRoutes, rt)
      BY <1>1, <2>1 DEF DefaultBackendRoute
    <2>3. rt.sources = << <<p>> >>
      BY <2>1
    <2> QED
      BY <2>2, <2>3
  <1> HIDE DEF ing, ok
  <1>4. /\ RoutesOnce(httpRoutes)
        /\ \A q \in AllPlaces : Finished(q) => HasRoute(httpRoutes, q)
        /\ \A n \in DOMAIN httpRoutes : \A x \in DOMAIN httpRoutes[n].sources :
             \A y \in DOMAIN httpRoutes[n].sources[x] :
               /\ httpRoutes[n].sources[x][y] \in AllPlaces
               /\ Finished(httpRoutes[n].sources[x][y])
    BY <1>2 DEF OnceInv, RoutesComplete
  <1>5. \A q : HasRoute(httpRoutes, q) => q \in AllPlaces /\ Finished(q)
    BY <1>4 DEF HasRoute, HasSource, InSeq
  <1>6. defaultBackends \in Seq(Nat) /\ i \in Nat \ {0} /\ i \in DOMAIN defaultBackends
        /\ NoRepeats(defaultBackends)
    BY <1>2, Element DEF TypeInv, TypeOK, OnceInv, DefaultsOnce
  <1>7. p \in AllPlaces
    <2>1. /\ defaultBackends[i] \in DOMAIN ingressList
          /\ ingressList[defaultBackends[i]].defaultBackend # <<>>
      BY <1>6 DEF TypeInv, Linked, DefaultsLinked
    <2> QED
      BY <1>1, <2>1 DEF AllPlaces
  <1>8. \A q : Finished(q) <=>
                 (q.rule = 0 => \E n \in DOMAIN defaultBackends :
                                  n < i /\ defaultBackends[n] = q.ingress)
    BY <1>2 DEF Finished, Building
  <1>9. \A q : Finished(q)' <=>
                 (q.rule = 0 => \E n \in DOMAIN defaultBackends :
                                  n < i + 1 /\ defaultBackends[n] = q.ingress)
    BY <1>2 DEF Finished, Building
  <1>10. \A n \in DOMAIN defaultBackends : n < i + 1 <=> n < i \/ n = i
    BY <1>6
  <1>11. p.rule = 0 /\ p.ingress = defaultBackends[i]
    BY <1>1
  <1>12. ~Finished(p) /\ Finished(p)'
    <2>1. \A n \in DOMAIN defaultBackends : n < i => n # i
      BY <1>6
    <2> QED
      BY <1>6, <1>8, <1>9, <1>10, <1>11, <2>1 DEF NoRepeats
  <1>13. \A q \in AllPlaces : Finished(q)' => Finished(q) \/ q = p
    <2> SUFFICES ASSUME NEW q \in AllPlaces, Finished(q)', ~Finished(q) PROVE q = p
      OBVIOUS
    <2>1. q.rule = 0 /\ q.ingress = defaultBackends[i]
      BY <1>8, <1>9, <1>10
    <2>2. q = [ingress |-> q.ingress, rule |-> q.rule, path |-> q.path] /\ q.path = 0
      BY <2>1, PointerFacts
    <2> QED
      BY <1>1, <2>1, <2>2
  <1>14. \A q : Finished(q) => Finished(q)'
    BY <1>8, <1>9, <1>10
  <1> HIDE <1>1
  <1>15. \A q : HasSource(rt.sources, q) <=> q = p
    BY <1>3 DEF HasSource, InSeq
  <1>16. SourcesOnce(rt.sources)
    BY <1>3 DEF SourcesOnce, NoRepeats
  <1>17. \A q : ~(HasRoute(httpRoutes, q) /\ HasSource(rt.sources, q))
    BY <1>5, <1>12, <1>15
  <1>18. IsSequence(httpRoutes)
    BY DEF TypeInv, TypeOK, IsSeqOf
  <1>19. /\ RoutesOnce(httpRoutes')
         /\ \A q : HasRoute(httpRoutes', q) <=> HasRoute(httpRoutes, q) \/ HasSource(rt.sources, q)
    BY <1>3, <1>4, <1>16, <1>17, <1>18, AppendRouteOnce
  <1>20. \A q : HasRoute(httpRoutes', q) => q \in AllPlaces /\ Finished(q)'
    BY <1>5, <1>7, <1>12, <1>14, <1>15, <1>19
  <1>21. \A q \in AllPlaces : Finished(q)' => HasRoute(httpRoutes', q)
    BY <1>4, <1>13, <1>15, <1>19
  <1>22. AllPlaces' = AllPlaces
    BY <1>2 DEF AllPlaces
  <1> QED
    BY <1>19, <1>20, <1>21, <1>22, RoutesAre
LEMMA QuietRoutes ==
  ASSUME OnceInv, UNCHANGED <<ingressList, httpRoutes>>, errors \subseteq errors',
         phase \notin {"list", "aggregate", "panicked"},
         \A p \in AllPlaces : Finished(p) <=> Finished(p)'
  PROVE  RoutesComplete'
  <1> SUFFICES ASSUME errors' = {} PROVE RoutesComplete'
    BY DEF RoutesComplete
  <1>1. /\ RoutesOnce(httpRoutes)
        /\ \A p \in AllPlaces : Finished(p) => HasRoute(httpRoutes, p)
        /\ \A n \in DOMAIN httpRoutes : \A x \in DOMAIN httpRoutes[n].sources :
             \A y \in DOMAIN httpRoutes[n].sources[x] :
               /\ httpRoutes[n].sources[x][y] \in AllPlaces
               /\ Finished(httpRoutes[n].sources[x][y])
    BY DEF OnceInv, RoutesComplete
  <1>2. \A p : HasRoute(httpRoutes, p) => p \in AllPlaces /\ Finished(p)
    BY <1>1 DEF HasRoute, HasSource, InSeq
  <1>3. AllPlaces' = AllPlaces
    BY DEF AllPlaces
  <1>4. \A p \in AllPlaces : Finished(p)' => HasRoute(httpRoutes', p)
    BY <1>1
  <1>5. \A p : HasRoute(httpRoutes', p) => p \in AllPlaces /\ Finished(p)'
    BY <1>2
  <1> QED
    BY <1>1, <1>3, <1>4, <1>5, RoutesAre

LEMMA SortRuleGroupsRoutes ==
  TypeInv /\ SourcesInv /\ OnceInv /\ SortRuleGroups => RoutesComplete'
  <1> SUFFICES ASSUME TypeInv, SourcesInv, OnceInv, SortRuleGroups PROVE RoutesComplete'
    OBVIOUS
  <1>1. /\ phase = "aggregate" /\ phase' = "groups" /\ pending' = DOMAIN ruleGroups
        /\ i > Len(ingressList) /\ i \in Nat /\ UNCHANGED <<ingressList, ruleGroups, httpRoutes>>
    BY DEF SortRuleGroups, Goto, groupVars, outVars, TypeInv, TypeOK
  <1>2. DOMAIN httpRoutes = {}
    BY <1>1 DEF SourcesInv, NothingBuilt
  <1>3. RoutesOnce(httpRoutes') /\ \A p : ~HasRoute(httpRoutes', p)
    BY <1>1, <1>2 DEF RoutesOnce, HasRoute
  <1>4. \A p \in AllPlaces : ~Finished(p)'
    <2> SUFFICES ASSUME NEW p \in AllPlaces, Finished(p)' PROVE FALSE
      OBVIOUS
    <2>1. p.rule # 0 /\ KeyOf(ingressList, p.ingress, p.rule) \notin DOMAIN ruleGroups
      BY <1>1 DEF Finished, Building, KeyOf
    <2>2. ValidPath(ingressList, p)
      BY <2>1, PointerFacts
    <2>3. p.ingress < i
      BY <1>1, <2>2, RuleNumbers DEF ValidPath
    <2>4. Grouped(p.ingress, p.rule)
      BY <1>1, <2>2, <2>3 DEF OnceInv, GroupsOnce, Passed, ValidPath
    <2> QED
      BY <2>1, <2>4 DEF Grouped
  <1>5. AllPlaces' = AllPlaces
    BY <1>1 DEF AllPlaces
  <1> QED
    BY <1>3, <1>4, <1>5, RoutesAre

\* Starting a group moves its key from the pending ones to the current one.
LEMMA NextRuleGroupOnce == TypeInv /\ OnceInv /\ NextRuleGroup => OnceInv'
  <1> SUFFICES ASSUME TypeInv, OnceInv, NextRuleGroup PROVE OnceInv'
    OBVIOUS
  <1>1. PICK k \in pending : current' = k /\ pending' = pending \ {k}
    BY DEF NextRuleGroup
  <1>2. /\ phase = "groups" /\ phase' = "paths"
        /\ UNCHANGED <<ingressList, ruleGroups, defaultBackends, httpRoutes, errors>>
    BY DEF NextRuleGroup, Goto, groupVars
  <1>3. route'.sources = <<>>
    BY DEF NextRuleGroup
  <1>4. \A p : Finished(p) <=> Finished(p)'
    BY <1>1, <1>2 DEF Finished, Building, KeyOf
  <1>5. RoutesComplete'
    BY <1>2, <1>4, QuietRoutes
  <1>6. GroupsOnce' /\ DefaultsOnce'
    BY <1>2, QuietGroups
  <1>7. PathsOnce'
    BY NextRuleGroupPaths
  <1>8. RouteTakesAll' /\ CurrentTaken'
    BY <1>1, <1>2, <1>3 DEF RouteTakesAll, CurrentTaken
  <1> QED
    BY <1>5, <1>6, <1>7, <1>8 DEF OnceInv

\* While a route is built the groups that are finished stay the same.
LEMMA BuildingOnce ==
  ASSUME TypeInv, OnceInv, phase \in {"paths", "rules", "backends"},
         phase' \in {"paths", "rules", "backends", "panicked"},
         UNCHANGED <<ingressList, ruleGroups, defaultBackends, pending, current, httpRoutes>>,
         errors \subseteq errors', PathsOnce', RouteTakesAll'
  PROVE  OnceInv'
  <1>1. GroupsOnce' /\ DefaultsOnce'
    BY QuietGroups
  <1>2. CurrentTaken'
    BY DEF OnceInv, CurrentTaken, Building
  <1>3. RoutesComplete'
    <2>1. CASE phase' = "panicked"
      BY <2>1 DEF RoutesComplete
    <2>2. CASE phase' # "panicked"
      <3>1. \A p : Finished(p) <=> Finished(p)'
        BY <2>2 DEF Finished, Building, KeyOf
      <3> QED
        BY <3>1, QuietRoutes
    <2> QED
      BY <2>1, <2>2
  <1> QED
    BY <1>1, <1>2, <1>3 DEF OnceInv

\* After the last group the default backends are still to be done.
LEMMA GroupsBuiltOnce == TypeInv /\ OnceInv /\ GroupsBuilt => OnceInv'
  <1> SUFFICES ASSUME TypeInv, OnceInv, GroupsBuilt PROVE OnceInv'
    OBVIOUS
  <1>1. /\ phase = "groups" /\ phase' = "defaults" /\ i' = 1 /\ pending = {}
        /\ UNCHANGED <<ingressList, ruleGroups, defaultBackends, httpRoutes, errors>>
    BY DEF GroupsBuilt, Goto, groupVars, outVars
  <1>2. \A n \in DOMAIN defaultBackends : ~(n < 1)
    <2>1. defaultBackends \in Seq(Nat)
      BY DEF TypeInv, TypeOK
    <2> QED
      BY <2>1
  <1>3. \A p : Finished(p) <=> Finished(p)'
    BY <1>1, <1>2 DEF Finished, Building, KeyOf
  <1>4. RoutesComplete'
    BY <1>1, <1>3, QuietRoutes
  <1>5. GroupsOnce' /\ DefaultsOnce'
    BY <1>1, QuietGroups
  <1>6. PathsOnce' /\ RouteTakesAll' /\ CurrentTaken'
    BY <1>1 DEF PathsOnce, RouteTakesAll, CurrentTaken, Building
  <1> QED
    BY <1>4, <1>5, <1>6 DEF OnceInv

LEMMA DefaultBackendRouteOnce == TypeInv /\ OnceInv /\ DefaultBackendRoute => OnceInv'
  <1> SUFFICES ASSUME TypeInv, OnceInv, DefaultBackendRoute PROVE OnceInv'
    OBVIOUS
  <1>1. /\ phase = "defaults" /\ phase' = phase
        /\ UNCHANGED <<ingressList, ruleGroups, defaultBackends>>
    BY DEF DefaultBackendRoute, groupVars
  <1>2. GroupsOnce' /\ DefaultsOnce'
    BY <1>1, QuietGroups
  <1>3. PathsOnce' /\ RouteTakesAll' /\ CurrentTaken'
    BY <1>1 DEF PathsOnce, RouteTakesAll, CurrentTaken, Building
  <1> QED
    BY <1>2, <1>3, DefaultBackendRouteRoutes DEF OnceInv

\* After the last default backend everything is finished.
LEMMA DefaultsBuiltOnce == TypeInv /\ OnceInv /\ DefaultsBuilt => OnceInv'
  <1> SUFFICES ASSUME TypeInv, OnceInv, DefaultsBuilt PROVE OnceInv'
    OBVIOUS
  <1>1. /\ phase = "defaults" /\ phase' = "gateways" /\ i > Len(defaultBackends)
        /\ UNCHANGED <<ingressList, ruleGroups, defaultBackends, httpRoutes, errors>>
    BY DEF DefaultsBuilt, Goto, groupVars, outVars
  <1>2. \A p \in AllPlaces : Finished(p)
    <2> SUFFICES ASSUME NEW p \in AllPlaces, p.rule = 0
                 PROVE  \E n \in DOMAIN defaultBackends :
                          n < i /\ defaultBackends[n] = p.ingress
      BY <1>1 DEF Finished, Building
    <2>1. p.ingress \in DOMAIN ingressList /\ ingressList[p.ingress].defaultBackend # <<>>
      BY PointerFacts
    <2>2. PICK n \in DOMAIN defaultBackends : defaultBackends[n] = p.ingress
      BY <1>1, <2>1 DEF OnceInv, DefaultsOnce, InSeq
    <2>3. n < i
      <3>1. defaultBackends \in Seq(Nat) /\ i \in Nat
        BY DEF TypeInv, TypeOK
      <3>2. n \in Nat /\ n <= Len(defaultBackends) /\ Len(defaultBackends) \in Nat
        BY <2>2, <3>1
      <3> QED
        BY <1>1, <3>1, <3>2
    <2> QED
      BY <2>2, <2>3
  <1>3. \A p \in AllPlaces : Finished(p)'
    BY <1>1 DEF Finished, Building
  <1>4. RoutesComplete'
    BY <1>1, <1>2, <1>3, QuietRoutes
  <1>5. GroupsOnce' /\ DefaultsOnce'
    BY <1>1, QuietGroups
  <1>6. PathsOnce' /\ RouteTakesAll' /\ CurrentTaken'
    BY <1>1 DEF PathsOnce, RouteTakesAll, CurrentTaken, Building
  <1> QED
    BY <1>4, <1>5, <1>6 DEF OnceInv

\* From the Gateways on everything is finished.
LEMMA LateOnce ==
  ASSUME OnceInv, phase \in {"gateways", "listeners", "index", "done", "failed"},
         phase' \in {"gateways", "listeners", "index", "done", "failed"},
         UNCHANGED <<ingressList, ruleGroups, defaultBackends, httpRoutes>>,
         errors \subseteq errors'
  PROVE  OnceInv'
  <1>1. \A p : Finished(p) <=> Finished(p)'
    BY DEF Finished, Building
  <1>2. RoutesComplete'
    BY <1>1, QuietRoutes
  <1>3. GroupsOnce' /\ DefaultsOnce'
    BY QuietGroups
  <1>4. PathsOnce' /\ RouteTakesAll' /\ CurrentTaken'
    BY DEF PathsOnce, RouteTakesAll, CurrentTaken, Building
  <1> QED
    BY <1>2, <1>3, <1>4 DEF OnceInv
\* The loop over Ingresses builds no route.
LEMMA AggregateOnce ==
  TypeInv /\ SourcesInv /\ OnceInv
    /\ (FromMap \/ AddIngressRule \/ AddDefaultBackend \/ SortRuleGroups) => OnceInv'
  <1> SUFFICES ASSUME TypeInv, SourcesInv, OnceInv,
                      FromMap \/ AddIngressRule \/ AddDefaultBackend \/ SortRuleGroups
               PROVE  OnceInv'
    OBVIOUS
  <1>1. phase' \in {"aggregate", "groups"}
    BY DEF FromMap, AddIngressRule, AddDefaultBackend, SortRuleGroups, Goto
  <1>2. PathsOnce' /\ RouteTakesAll' /\ CurrentTaken'
    BY <1>1 DEF PathsOnce, RouteTakesAll, CurrentTaken, Building
  <1>3. GroupsOnce' /\ DefaultsOnce'
    BY FromMapGroups, AddIngressRuleGroups, AddIngressRuleDefaults, AddDefaultBackendGroups,
       SortRuleGroupsGroups
  <1>4. RoutesComplete'
    <2>1. CASE FromMap \/ AddIngressRule \/ AddDefaultBackend
      <3>1. phase' = "aggregate"
        BY <2>1 DEF FromMap, AddIngressRule, AddDefaultBackend, Goto
      <3> QED
        BY <3>1 DEF RoutesComplete
    <2>2. CASE SortRuleGroups
      BY <2>2, SortRuleGroupsRoutes
    <2> QED
      BY <2>1, <2>2
  <1> QED
    BY <1>2, <1>3, <1>4 DEF OnceInv

\* The actions between the start of a group and the end of its route.
LEMMA BuildOnce ==
  /\ TypeInv /\ OnceInv
  /\ \/ GroupIngressPath \/ PathsGrouped \/ ToHTTPRouteRule
     \/ ConfigureBackendRef \/ AppendRule
  => OnceInv'
  <1> SUFFICES ASSUME TypeInv, OnceInv,
                      \/ GroupIngressPath \/ PathsGrouped \/ ToHTTPRouteRule
                      \/ ConfigureBackendRef \/ AppendRule
               PROVE  OnceInv'
    OBVIOUS
  <1> USE DEF groupVars, pathVars, buildVars, outVars, Goto
  <1>1. CASE GroupIngressPath
    <2>1. /\ phase = "paths" /\ phase' \in {"paths", "panicked"}
          /\ UNCHANGED <<ingressList, ruleGroups, defaultBackends, pending, current,
                         route, httpRoutes, errors>>
      BY <1>1 DEF GroupIngressPath
    <2>2. RouteTakesAll'
      BY <2>1 DEF OnceInv, RouteTakesAll
    <2> QED
      BY <1>1, <2>1, <2>2, GroupIngressPathPaths, BuildingOnce
  <1>2. CASE PathsGrouped
    <2>1. /\ phase = "paths" /\ phase' = "rules"
          /\ UNCHANGED <<ingressList, ruleGroups, defaultBackends, pending, current,
                         httpRoutes, errors>>
      BY <1>2 DEF PathsGrouped
    <2> QED
      BY <1>2, <2>1, PathsGroupedPaths, PathsGroupedTakes, BuildingOnce
  <1>3. CASE ToHTTPRouteRule
    <2>1. /\ phase = "rules" /\ phase' \in {"rules", "backends", "panicked"}
          /\ UNCHANGED <<ingressList, ruleGroups, defaultBackends, pending, current,
                         matchKeys, pathsByKey, httpRoutes>>
          /\ errors \subseteq errors'
      BY <1>3 DEF ToHTTPRouteRule
    <2>2. PathsOnce'
      BY <2>1, QuietPaths
    <2> QED
      BY <1>3, <2>1, <2>2, ToHTTPRouteRuleTakes, BuildingOnce
  <1>4. CASE ConfigureBackendRef
    <2>1. /\ phase = "backends" /\ phase' = phase
          /\ UNCHANGED <<ingressList, ruleGroups, defaultBackends, pending, current,
                         matchKeys, pathsByKey, httpRoutes>>
          /\ errors \subseteq errors'
      BY <1>4 DEF ConfigureBackendRef
    <2>2. PathsOnce'
      BY <2>1, QuietPaths
    <2> QED
      BY <1>4, <2>1, <2>2, ConfigureBackendRefTakes, BuildingOnce
  <1>5. CASE AppendRule
    <2>1. /\ phase = "backends" /\ phase' = "rules"
          /\ UNCHANGED <<ingressList, ruleGroups, defaultBackends, pending, current,
                         matchKeys, pathsByKey, httpRoutes, errors>>
      BY <1>5 DEF AppendRule
    <2>2. PathsOnce'
      BY <2>1, QuietPaths
    <2> QED
      BY <1>5, <2>1, <2>2, AppendRuleTakes, BuildingOnce
  <1> QED
    BY <1>1, <1>2, <1>3, <1>4, <1>5

LEMMA RouteBuiltOnce == TypeInv /\ OnceInv /\ RouteBuilt => OnceInv'
  <1> SUFFICES ASSUME TypeInv, OnceInv, RouteBuilt PROVE OnceInv'
    OBVIOUS
  <1>1. /\ phase = "rules" /\ phase' = "groups"
        /\ UNCHANGED <<ingressList, ruleGroups, defaultBackends>>
    BY DEF RouteBuilt, Goto, groupVars
  <1>2. GroupsOnce' /\ DefaultsOnce'
    BY <1>1, QuietGroups
  <1>3. PathsOnce' /\ RouteTakesAll' /\ CurrentTaken'
    BY <1>1 DEF PathsOnce, RouteTakesAll, CurrentTaken, Building
  <1> QED
    BY <1>2, <1>3, RouteBuiltRoutes DEF OnceInv

LEMMA StutterOnce == OnceInv /\ UNCHANGED vars => OnceInv'
  <1> SUFFICES ASSUME OnceInv, UNCHANGED vars PROVE OnceInv'
    OBVIOUS
  <1>1. UNCHANGED <<ingressList, phase, i, j, ruleGroups, defaultBackends, pending, current,
                    matchKeys, pathsByKey, route, rule, httpRoutes, errors>>
    BY DEF vars, groupVars, pathVars, buildVars, outVars
  <1>2. AllPlaces' = AllPlaces
    BY <1>1 DEF AllPlaces
  <1>3. GroupsOnce'
    BY <1>1 DEF OnceInv, GroupsOnce, Passed, Grouped, KeyOf
  <1>4. DefaultsOnce' /\ RouteTakesAll' /\ CurrentTaken'
    BY <1>1 DEF OnceInv, DefaultsOnce, RouteTakesAll, CurrentTaken, Building
  <1>5. PathsOnce'
    <2>1. \A p : (Visited(p) <=> Visited(p)') /\ (UnderKey(p) => UnderKey(p)')
      BY <1>1 DEF Visited, UnderKey, PathAt
    <2>2. PathsOnce
      BY DEF OnceInv
    <2> QED
      BY <1>1, <1>2, <2>1, <2>2 DEF PathsOnce, Building, KeyOf, Visited
  <1>6. RoutesComplete'
    <2>1. \A p : Finished(p) <=> Finished(p)'
      BY <1>1 DEF Finished, Building, KeyOf
    <2>2. CASE phase \notin {"list", "aggregate", "panicked"}
      BY <1>1, <2>1, <2>2, QuietRoutes
    <2>3. CASE phase \in {"list", "aggregate", "panicked"}
      BY <1>1, <2>3 DEF RoutesComplete
    <2> QED
      BY <2>2, <2>3
  <1> QED
    BY <1>3, <1>4, <1>5, <1>6 DEF OnceInv

LEMMA NextOnce == TypeInv /\ SourcesInv /\ OnceInv /\ [Next]_vars => OnceInv'
  <1> SUFFICES ASSUME TypeInv, SourcesInv, OnceInv, [Next]_vars PROVE OnceInv'
    OBVIOUS
  <1> USE DEF groupVars, pathVars, buildVars, outVars, Goto
  <1>1. CASE NextGateway
    BY <1>1, LateOnce DEF NextGateway
  <1>2. CASE AddListener
    BY <1>2, LateOnce DEF AddListener
  <1>3. CASE GatewayBuilt
    BY <1>3, LateOnce DEF GatewayBuilt
  <1>4. CASE GatewaysBuilt
    BY <1>4, LateOnce DEF GatewaysBuilt, AfterGateways
  <1>5. CASE IndexRoute
    BY <1>5, LateOnce DEF IndexRoute
  <1>6. CASE RoutesIndexed
    BY <1>6, LateOnce DEF RoutesIndexed
  <1> QED
    BY <1>1, <1>2, <1>3, <1>4, <1>5, <1>6, AggregateOnce, NextRuleGroupOnce, BuildOnce,
       RouteBuiltOnce, GroupsBuiltOnce, DefaultBackendRouteOnce, DefaultsBuiltOnce, StutterOnce
    DEF Next, Convert, Terminating

LEMMA OnceInvariance == Spec => []OnceInv
  BY InitOnceInv, NextOnce, TypeInvariance, SourcesInvariance, PTL DEF Spec

\* A place that RoutesOnce and RoutesComplete speak of occurs exactly once.
LEMMA OneOccurrence ==
  ASSUME NEW routes, RoutesOnce(routes), NEW p, HasRoute(routes, p)
  PROVE  Cardinality({o \in UNION {UNION {[n : {n}, x : {x}, y : DOMAIN routes[n].sources[x]] :
                                            x \in DOMAIN routes[n].sources} :
                                     n \in DOMAIN routes} :
                        routes[o.n].sources[o.x][o.y] = p}) = 1
  <1> DEFINE Of(n, x)    == [n : {n}, x : {x}, y : DOMAIN routes[n].sources[x]]
             Among(n)    == UNION {Of(n, x) : x \in DOMAIN routes[n].sources}
             All         == UNION {Among(n) : n \in DOMAIN routes}
             occurrences == {o \in All : routes[o.n].sources[o.x][o.y] = p}
  <1>1. PICK n \in DOMAIN routes : HasSource(routes[n].sources, p)
    BY DEF HasRoute
  <1>2. PICK x \in DOMAIN routes[n].sources : InSeq(routes[n].sources[x], p)
    BY <1>1 DEF HasSource
  <1>3. PICK y \in DOMAIN routes[n].sources[x] : routes[n].sources[x][y] = p
    BY <1>2 DEF InSeq
  <1>4. PICK o : o = [n |-> n, x |-> x, y |-> y]
    OBVIOUS
  <1>5. o \in occurrences
    <2>1. o \in Of(n, x)
      BY <1>3, <1>4
    <2>2. o.n = n /\ o.x = x /\ o.y = y
      BY <1>4
    <2> HIDE DEF Of
    <2>3. o \in Among(n)
      BY <1>2, <2>1
    <2> HIDE DEF Among
    <2>4. o \in All
      BY <1>1, <2>3
    <2> HIDE DEF All
    <2> QED
      BY <1>3, <2>2, <2>4
  <1>6. ASSUME NEW q \in occurrences PROVE q = o
    <2>1. PICK m \in DOMAIN routes : q \in Among(m)
      OBVIOUS
    <2>2. PICK z \in DOMAIN routes[m].sources : q \in Of(m, z)
      BY <2>1
    <2>3. /\ q.n = m /\ q.x = z /\ q.y \in DOMAIN routes[m].sources[z]
          /\ q = [n |-> q.n, x |-> q.x, y |-> q.y]
      BY <2>2
    <2>4. routes[m].sources[z][q.y] = p
      BY <2>3
    <2> HIDE DEF occurrences, All, Among, Of
    <2>5. m = n
      BY <1>1, <2>1, <2>2, <2>3, <2>4 DEF RoutesOnce
    <2>6. SourcesOnce(routes[n].sources)
      BY <1>1 DEF RoutesOnce
    <2>7. z = x
      BY <1>2, <2>2, <2>3, <2>4, <2>5, <2>6 DEF SourcesOnce
    <2>8. NoRepeats(routes[n].sources[x])
      BY <1>2, <2>6 DEF SourcesOnce
    <2>9. q.y = y
      BY <1>3, <2>3, <2>4, <2>5, <2>7, <2>8 DEF NoRepeats
    <2> QED
      BY <1>4, <2>3, <2>5, <2>7, <2>9
  <1>7. occurrences = {o}
    BY <1>5, <1>6
  <1> HIDE DEF occurrences
  <1>8. Cardinality(occurrences) = 1
    BY <1>7, FS_Singleton
  <1> QED
    BY <1>8 DEF occurrences, All, Among, Of

\* No path and no default backend of any Ingress is lost or comes twice on its
\* way through toHTTPRoutesAndGateways: without errors each is the source of one
\* backend of one route, for every set of Ingresses, however their hosts and
\* paths coincide, and every order of iteration.
THEOREM PathsBecomeBackendsOnce == Spec => []EveryPathOnce
  <1>1. SourcesInv /\ OnceInv => EveryPathOnce
    <2> SUFFICES ASSUME SourcesInv, OnceInv, phase = "index", NEW p \in AllPlaces
                 PROVE  Cardinality({o \in UNION {UNION {[n : {n}, x : {x},
                                                          y : DOMAIN httpRoutes[n].sources[x]] :
                                                    x \in DOMAIN httpRoutes[n].sources} :
                                             n \in DOMAIN httpRoutes} :
                                       httpRoutes[o.n].sources[o.x][o.y] = p}) = 1
      BY DEF EveryPathOnce
    <2>1. errors = {}
      BY DEF SourcesInv, NoErrors
    <2>2. Finished(p)
      BY DEF Finished, Building
    <2>3. RoutesOnce(httpRoutes) /\ HasRoute(httpRoutes, p)
      BY <2>1, <2>2 DEF OnceInv, RoutesComplete
    <2> QED
      BY <2>3, OneOccurrence
  <1> QED
    BY <1>1, SourcesInvariance, OnceInvariance, PTL

(***************************************************************************)
(* The strengthening of ListenersCoverRoutes, which relates the first and  *)
(* the last of three stages: TLS entries are collected by group, a group   *)
(* adds a listener to those of its Gateway, and these become the           *)
(* Gateway's.  The invariant says of each stage how far it has come.       *)
(***************************************************************************)
\* The pair of an Ingress and a rule of it comes before another.
Sooner(m, r, x, y) == m < x \/ (m = x /\ r < y)

\* The groups that have TLS entries are those some rule up to x, y brings any to.
SecuredUpTo(list, groups, x, y) ==
  /\ \A m \in DOMAIN list : \A r \in DOMAIN list[m].rules :
       list[m].tls # <<>> /\ Sooner(m, r, x, y) =>
         KeyOf(list, m, r) \in DOMAIN groups /\ groups[KeyOf(list, m, r)].tls # <<>>
  /\ \A k \in DOMAIN groups : groups[k].tls # <<>> =>
       \E m \in DOMAIN list : \E r \in DOMAIN list[m].rules :
         list[m].tls # <<>> /\ KeyOf(list, m, r) = k

GroupsSecured ==
  /\ phase \in {"list", "aggregate"} => listeners = EmptyMap
  /\ phase = "aggregate" => SecuredUpTo(ingressList, ruleGroups, i, j)
  /\ phase \notin {"list", "aggregate"} =>
       SecuredUpTo(ingressList, ruleGroups, Len(ingressList) + 1, 1)

OwnGateway(k) == [ns |-> k.ns, class |-> k.class]

\* The listener of a rule group.
IsListenerOf(l, rg) == l.host = ListenerHost(rg) /\ (l.certs = <<>> <=> rg.tls = <<>>)

\* Every group but those left has a listener, and every listener a group.
Listening(groups, lists, left) ==
  /\ \A k \in DOMAIN groups \ left :
       /\ OwnGateway(k) \in DOMAIN lists
       /\ \E n \in DOMAIN lists[OwnGateway(k)] : IsListenerOf(lists[OwnGateway(k)][n], groups[k])
  /\ \A gw \in DOMAIN lists : \A n \in DOMAIN lists[gw] :
       \E k \in DOMAIN groups : OwnGateway(k) = gw /\ IsListenerOf(lists[gw][n], groups[k])

Later == {"defaults", "gateways", "listeners", "index", "done"}

GroupsListening ==
  /\ phase = "groups" \/ Building => Listening(ruleGroups, listeners, pending)
  /\ phase \in Later => Listening(ruleGroups, listeners, {})

\* A route with a host is that of a rule group.
Hosted(rt, groups) ==
  rt.host # <<>> => [ns |-> rt.ns, class |-> rt.class, host |-> rt.host] \in DOMAIN groups

RoutesHosted ==
  /\ \A n \in DOMAIN httpRoutes : Hosted(httpRoutes[n], ruleGroups)
  /\ \A key \in DOMAIN routeByKey : Hosted(routeByKey[key], ruleGroups)

\* The Gateway's listeners gl have l among them, in HTTP and, with
\* certificates, in HTTPS; g is one of those that l becomes.
Has(gl, host, port) == \E x \in DOMAIN gl : gl[x].host = host /\ gl[x].port = port
Serves(gl, l)  == Has(gl, l.host, 80) /\ (l.certs # <<>> => Has(gl, l.host, 443))
ComesFrom(g, l) == g.host = l.host /\ (g.port = 443 => l.certs # <<>>)

\* Every Gateway but those left is there or reported.  Those that are open
\* have the listeners before x, the others all.
Equipped(lists, gws, left, open, x, errs) ==
  /\ \A gw \in DOMAIN lists \ left : gw \in DOMAIN gws \/ errs # {}
  /\ \A gw \in DOMAIN gws :
       /\ gw \in DOMAIN lists
       /\ \A n \in DOMAIN lists[gw] : (gw \in open => n < x) => Serves(gws[gw], lists[gw][n])
       /\ \A y \in DOMAIN gws[gw] : \E n \in DOMAIN lists[gw] : ComesFrom(gws[gw][y], lists[gw][n])

GatewaysEquipped ==
  /\ phase \in {"list", "aggregate", "groups", "defaults"} \/ Building => gateways = EmptyMap
  /\ phase = "gateways"  => Equipped(listeners, gateways, pending, {}, 1, errors)
  /\ phase = "listeners" => Equipped(listeners, gateways, pending, {current}, j, errors)
  /\ phase \in {"index", "done"} => errors = {} /\ Equipped(listeners, gateways, {}, {}, 1, errors)

ListenersInv == GroupsSecured /\ GroupsListening /\ RoutesHosted /\ GatewaysEquipped

LEMMA InitListeners == Init => ListenersInv
  <1> SUFFICES ASSUME Init PROVE ListenersInv
    OBVIOUS
  <1>1. /\ phase = "list" /\ listeners = EmptyMap /\ gateways = EmptyMap
        /\ DOMAIN httpRoutes = {} /\ DOMAIN routeByKey = {}
    BY DEF Init, EmptyMap
  <1> QED
    BY <1>1 DEF ListenersInv, GroupsSecured, GroupsListening, RoutesHosted, GatewaysEquipped,
                Building, Later

-------------------------------------------------------------------------------
(***************************************************************************)
(* Collecting TLS entries.                                                 *)
(***************************************************************************)
LEMMA FromMapListeners == TypeInv /\ ListenersInv /\ FromMap => ListenersInv'
  <1> SUFFICES ASSUME TypeInv, ListenersInv, FromMap PROVE ListenersInv'
    OBVIOUS
  <1>1. /\ phase = "list" /\ phase' = "aggregate" /\ i' = 1 /\ j' = 1
        /\ UNCHANGED <<ruleGroups, listeners, httpRoutes, gateways, routeByKey>>
    BY DEF FromMap, Goto, groupVars, outVars
  <1>2. DOMAIN ruleGroups' = {}
    BY <1>1 DEF TypeInv, Linked, NothingGrouped, EmptyMap
  <1>3. ingressList' \in Seq(ingresses') /\ ingresses' \subseteq Ingress
    BY FromMapTypeInv DEF TypeInv, TypeOK
  <1>4. SecuredUpTo(ingressList', ruleGroups', i', j')
    <2> SUFFICES ASSUME NEW m \in DOMAIN ingressList', NEW r \in DOMAIN ingressList'[m].rules,
                        Sooner(m, r, 1, 1)
                 PROVE  FALSE
      BY <1>1, <1>2 DEF SecuredUpTo
    <2>1. m \in Nat \ {0}
      BY <1>3
    <2>2. r \in Nat \ {0}
      <3>1. ingressList'[m] \in Ingress
        BY <1>3
      <3> QED
        BY <3>1, IngressFields
    <2> QED
      BY <2>1, <2>2 DEF Sooner
  <1> QED
    BY <1>1, <1>4 DEF ListenersInv, GroupsSecured, GroupsListening, RoutesHosted,
                      GatewaysEquipped, Building, Later

LEMMA ConcatEmpty ==
  ASSUME NEW T, NEW s \in Seq(T), NEW t \in Seq(T), NEW u, u = s \o t
  PROVE  u = <<>> <=> s = <<>> /\ t = <<>>
  <1>1. Len(u) = Len(s) + Len(t) /\ Len(s) \in Nat /\ Len(t) \in Nat /\ u \in Seq(T)
    OBVIOUS
  <1>2. (u = <<>> <=> Len(u) = 0) /\ (s = <<>> <=> Len(s) = 0) /\ (t = <<>> <=> Len(t) = 0)
    BY <1>1
  <1> QED
    BY <1>1, <1>2

LEMMA AddIngressRuleListeners == TypeInv /\ ListenersInv /\ AddIngressRule => ListenersInv'
  <1> SUFFICES ASSUME TypeInv, ListenersInv, AddIngressRule PROVE ListenersInv'
    OBVIOUS
  <1> DEFINE ing == ingressList[i]
             key == GroupKey(ing, ing.rules[j].host)
             rg  == IF key \in DOMAIN ruleGroups
                    THEN ruleGroups[key]
                    ELSE [ns |-> ing.ns, name |-> ing.name, class |-> key.class,
                          host |-> key.host, tls |-> <<>>, rules |-> <<>>]
             mem == [ingress |-> i, rule |-> j]
             new == [rg EXCEPT !.tls = @ \o ing.tls, !.rules = Append(@, mem)]
  <1>1. /\ phase = "aggregate" /\ i <= Len(ingressList) /\ j <= Len(ing.rules)
        /\ ruleGroups' = Put(ruleGroups, key, new)
        /\ j' = j + 1
        /\ UNCHANGED <<ingressList, phase, i, listeners, httpRoutes, gateways, routeByKey>>
    BY DEF AddIngressRule, outVars
  <1>2. i \in Nat \ {0} /\ j \in Nat \ {0} /\ i \in DOMAIN ingressList /\ ing \in Ingress
    BY <1>1, ListedIngress DEF TypeInv, TypeOK
  <1>3. j \in DOMAIN ing.rules /\ ing.tls \in Seq(TLSRecord)
    BY <1>1, <1>2, IngressFields
  <1>4. rg.tls \in Seq(TLSRecord) /\ new.tls = rg.tls \o ing.tls
    <2>1. CASE key \in DOMAIN ruleGroups
      <3>1. rg \in RuleGroup
        BY <2>1 DEF TypeInv, TypeOK, MapOf
      <3> HIDE DEF rg
      <3> QED
        BY <3>1 DEF RuleGroup, TLSRecord
    <2>2. CASE key \notin DOMAIN ruleGroups
      <3>1. rg = [ns |-> ing.ns, name |-> ing.name, class |-> key.class,
                  host |-> key.host, tls |-> <<>>, rules |-> <<>>]
        BY <2>2
      <3> DEFINE tls   == rg.tls \o ing.tls
                 rules == Append(rg.rules, mem)
      <3> HIDE DEF rg, ing, key, mem, tls, rules
      <3>2. rg.tls \in Seq(TLSRecord)
        <4>1. rg.tls = <<>>
          BY <3>1
        <4> QED
          BY <4>1
      <3>3. [rg EXCEPT !.tls = tls, !.rules = rules].tls = tls
        BY <3>1
      <3> QED
        BY <3>2, <3>3 DEF tls, rules
    <2> QED
      BY <2>1, <2>2
  <1>5. /\ key \in DOMAIN ruleGroups => rg = ruleGroups[key]
        /\ key \notin DOMAIN ruleGroups => rg.tls = <<>>
    OBVIOUS
  <1>6. key = KeyOf(ingressList, i, j)
    BY DEF KeyOf
  <1> HIDE DEF ing, key, rg, new
  <1>7. new.tls = <<>> <=> rg.tls = <<>> /\ ing.tls = <<>>
    BY <1>3, <1>4, ConcatEmpty
  <1>8. /\ DOMAIN ruleGroups' = DOMAIN ruleGroups \union {key}
        /\ ruleGroups'[key] = new
        /\ \A k \in DOMAIN ruleGroups : k # key => ruleGroups'[k] = ruleGroups[k]
    BY <1>1 DEF Put
  <1>9. SecuredUpTo(ingressList, ruleGroups, i, j)
    BY <1>1 DEF ListenersInv, GroupsSecured
  <1>10. ASSUME NEW m \in DOMAIN ingressList, NEW r \in DOMAIN ingressList[m].rules,
                ingressList[m].tls # <<>>, Sooner(m, r, i, j + 1)
         PROVE  /\ KeyOf(ingressList, m, r) \in DOMAIN ruleGroups'
                /\ ruleGroups'[KeyOf(ingressList, m, r)].tls # <<>>
    <2>1. m \in Nat /\ r \in Nat
      <3>1. ingressList[m] \in Ingress
        BY ListedIngress DEF TypeInv
      <3>2. ingressList[m].rules \in Seq(RuleRecord)
        BY <3>1, IngressFields
      <3> QED
        BY <3>2 DEF TypeInv, TypeOK
    <2>2. Sooner(m, r, i, j) \/ (m = i /\ r = j)
      BY <1>2, <1>10, <2>1 DEF Sooner
    <2>3. CASE Sooner(m, r, i, j)
      <3>1. /\ KeyOf(ingressList, m, r) \in DOMAIN ruleGroups
            /\ ruleGroups[KeyOf(ingressList, m, r)].tls # <<>>
        BY <1>9, <1>10, <2>3 DEF SecuredUpTo
      <3> QED
        BY <3>1, <1>5, <1>7, <1>8
    <2>4. CASE m = i /\ r = j
      BY <2>4, <1>6, <1>7, <1>8, <1>10 DEF ing
    <2> QED
      BY <2>2, <2>3, <2>4
  <1>11. ASSUME NEW k \in DOMAIN ruleGroups', ruleGroups'[k].tls # <<>>
         PROVE  \E m \in DOMAIN ingressList : \E r \in DOMAIN ingressList[m].rules :
                  ingressList[m].tls # <<>> /\ KeyOf(ingressList, m, r) = k
    <2>1. CASE k \in DOMAIN ruleGroups /\ ruleGroups[k].tls # <<>>
      BY <2>1, <1>9 DEF SecuredUpTo
    <2>2. CASE k = key /\ ing.tls # <<>>
      BY <2>2, <1>2, <1>3, <1>6 DEF ing
    <2> QED
      BY <2>1, <2>2, <1>5, <1>7, <1>8, <1>11
  <1>12. SecuredUpTo(ingressList', ruleGroups', i', j')
    BY <1>1, <1>10, <1>11 DEF SecuredUpTo
  <1>13. RoutesHosted'
    BY <1>1, <1>8 DEF ListenersInv, RoutesHosted, Hosted
  <1> QED
    BY <1>1, <1>12, <1>13 DEF ListenersInv, GroupsSecured, GroupsListening,
                              GatewaysEquipped, Building, Later

LEMMA AddDefaultBackendListeners ==
  TypeInv /\ ListenersInv /\ AddDefaultBackend => ListenersInv'
  <1> SUFFICES ASSUME TypeInv, ListenersInv, AddDefaultBackend PROVE ListenersInv'
    OBVIOUS
  <1>1. /\ phase = "aggregate" /\ i <= Len(ingressList) /\ j > Len(ingressList[i].rules)
        /\ i' = i + 1 /\ j' = 1
        /\ UNCHANGED <<ingressList, phase, ruleGroups, listeners, httpRoutes, gateways, routeByKey>>
    BY DEF AddDefaultBackend, outVars
  <1>2. i \in Nat \ {0} /\ j \in Nat \ {0} /\ i \in DOMAIN ingressList
    BY <1>1 DEF TypeInv, TypeOK
  <1>3. SecuredUpTo(ingressList, ruleGroups, i, j)
    BY <1>1 DEF ListenersInv, GroupsSecured
  <1>4. ASSUME NEW m \in DOMAIN ingressList, NEW r \in DOMAIN ingressList[m].rules,
               Sooner(m, r, i + 1, 1)
        PROVE  Sooner(m, r, i, j)
    <2>1. ingressList[m] \in Ingress
      BY ListedIngress DEF TypeInv
    <2>2. ingressList[m].rules \in Seq(RuleRecord)
      BY <2>1, IngressFields
    <2>3. m \in Nat /\ r \in 1..Len(ingressList[m].rules) /\ Len(ingressList[m].rules) \in Nat
      BY <2>2 DEF TypeInv, TypeOK
    <2> QED
      BY <1>1, <1>2, <1>4, <2>3 DEF Sooner
  <1>5. SecuredUpTo(ingressList', ruleGroups', i', j')
    BY <1>1, <1>3, <1>4 DEF SecuredUpTo
  <1> QED
    BY <1>1, <1>5 DEF ListenersInv, GroupsSecured, GroupsListening, RoutesHosted,
                      GatewaysEquipped, Building, Later

LEMMA SortRuleGroupsListeners == TypeInv /\ ListenersInv /\ SortRuleGroups => ListenersInv'
  <1> SUFFICES ASSUME TypeInv, ListenersInv, SortRuleGroups PROVE ListenersInv'
    OBVIOUS
  <1>1. /\ phase = "aggregate" /\ i > Len(ingressList) /\ phase' = "groups"
        /\ pending' = DOMAIN ruleGroups
        /\ UNCHANGED <<ingressList, ruleGroups, listeners, httpRoutes, gateways, routeByKey>>
    BY DEF SortRuleGroups, Goto, groupVars, outVars
  <1>2. i \in Nat \ {0} /\ j \in Nat \ {0} /\ ingressList \in Seq(ingresses)
    BY DEF TypeInv, TypeOK
  <1>3. \A m \in DOMAIN ingressList : \A r : Sooner(m, r, i, j)
    BY <1>1, <1>2 DEF Sooner
  <1>4. SecuredUpTo(ingressList, ruleGroups, i, j) /\ listeners = EmptyMap
    BY <1>1 DEF ListenersInv, GroupsSecured
  <1>5. SecuredUpTo(ingressList', ruleGroups', Len(ingressList') + 1, 1)
    BY <1>1, <1>3, <1>4 DEF SecuredUpTo
  <1>6. Listening(ruleGroups', listeners', pending')
    <2>1. DOMAIN listeners' = {} /\ DOMAIN ruleGroups' \ pending' = {}
      BY <1>1, <1>4 DEF EmptyMap
    <2> QED
      BY <2>1 DEF Listening
  <1> QED
    BY <1>1, <1>5, <1>6 DEF ListenersInv, GroupsSecured, GroupsListening, RoutesHosted,
                      GatewaysEquipped, Building, Later

-------------------------------------------------------------------------------
(***************************************************************************)
(* From groups to listeners and routes.                                    *)
(***************************************************************************)
LEMMA SecretsEmpty ==
  ASSUME NEW T, NEW tls \in Seq(T)
  PROVE  Secrets(tls) = <<>> <=> tls = <<>>
  <1>1. DOMAIN Secrets(tls) = 1..Len(tls) /\ Len(tls) \in Nat
    BY DEF Secrets
  <1>2. CASE tls = <<>>
    <2>1. Secrets(tls) = <<>>
      BY <1>2 DEF Secrets
    <2> QED
      BY <1>2, <2>1
  <1>3. CASE tls # <<>>
    <2>1. 1 \in DOMAIN Secrets(tls)
      BY <1>1, <1>3
    <2>2. DOMAIN <<>> = {}
      OBVIOUS
    <2> QED
      BY <1>3, <2>1, <2>2
  <1> QED
    BY <1>2, <1>3

LEMMA NextRuleGroupListeners == TypeInv /\ ListenersInv /\ NextRuleGroup => ListenersInv'
  <1> SUFFICES ASSUME TypeInv, ListenersInv, NextRuleGroup PROVE ListenersInv'
    OBVIOUS
  <1> DEFINE rg(k)    == ruleGroups[k]
             gwKey(k) == [ns |-> rg(k).ns, class |-> rg(k).class]
             old(k)   == IF gwKey(k) \in DOMAIN listeners THEN listeners[gwKey(k)] ELSE <<>>
             new(k)   == [host |-> ListenerHost(rg(k)), certs |-> Secrets(rg(k).tls)]
             L        == [host : String, certs : Seq(STRING)]
  <1>1. PICK k \in pending :
          /\ listeners' = Put(listeners, gwKey(k), Append(old(k), new(k)))
          /\ pending' = pending \ {k}
    BY DEF NextRuleGroup
  <1>2. /\ phase = "groups" /\ phase' = "paths"
        /\ UNCHANGED <<ingressList, ruleGroups, httpRoutes, gateways, routeByKey>>
    BY DEF NextRuleGroup, Goto, groupVars
  <1>3. k \in DOMAIN ruleGroups /\ rg(k) \in RuleGroup
    BY <1>1, <1>2 DEF TypeInv, Linked, PendingLinked, TypeOK, MapOf
  <1>4. k = [ns |-> rg(k).ns, class |-> rg(k).class, host |-> rg(k).host]
    BY <1>3 DEF TypeInv, Linked, GroupsLinked
  <1>5. gwKey(k) = OwnGateway(k)
    BY <1>4 DEF OwnGateway
  <1>6. new(k) \in L /\ IsListenerOf(new(k), rg(k))
    <2>1. rg(k).tls \in Seq(TLSRecord)
      BY <1>3 DEF RuleGroup, TLSRecord
    <2>2. Secrets(rg(k).tls) = <<>> <=> rg(k).tls = <<>>
      BY <2>1, SecretsEmpty
    <2>3. IsListenerOf(new(k), rg(k))
      BY <2>2 DEF IsListenerOf
    <2> QED
      BY <1>3, <2>3, GroupListenerType
  <1>7. old(k) \in Seq(L)
    <2>1. MapOf(listeners, GatewayKey, Seq(L))
      BY DEF TypeInv, TypeOK
    <2> HIDE DEF gwKey, L
    <2> QED
      BY <2>1 DEF MapOf
  <1>8. Listening(ruleGroups, listeners, pending)
    BY <1>2 DEF ListenersInv, GroupsListening
  <1> DEFINE gw  == OwnGateway(k)
             lst == Append(old(k), new(k))
  <1>9. /\ Len(old(k)) + 1 \in DOMAIN lst /\ lst[Len(old(k)) + 1] = new(k)
        /\ \A n \in DOMAIN old(k) : n \in DOMAIN lst /\ lst[n] = old(k)[n]
        /\ \A n \in DOMAIN lst : n \in DOMAIN old(k) \/ n = Len(old(k)) + 1
    <2> HIDE DEF old, new, L
    <2> QED
      BY <1>6, <1>7
  <1>10. /\ gw \in DOMAIN listeners => old(k) = listeners[gw]
         /\ gw \notin DOMAIN listeners => DOMAIN old(k) = {}
    BY <1>5
  <1>11. /\ DOMAIN listeners' = DOMAIN listeners \union {gw}
         /\ listeners'[gw] = lst
         /\ \A g \in DOMAIN listeners : g # gw => listeners'[g] = listeners[g]
    BY <1>1, <1>5 DEF Put
  <1> DEFINE before == old(k)
             added  == new(k)
             groups == ruleGroups
  <1> HIDE DEF gw, lst, before, added
  <1>12. ASSUME NEW x \in DOMAIN ruleGroups \ pending'
         PROVE  /\ OwnGateway(x) \in DOMAIN listeners'
                /\ \E n \in DOMAIN listeners'[OwnGateway(x)] :
                     IsListenerOf(listeners'[OwnGateway(x)][n], ruleGroups[x])
    <2>1. CASE x = k
      <3>1. OwnGateway(x) = gw /\ IsListenerOf(added, ruleGroups[x])
        BY <2>1, <1>6 DEF gw, added
      <3>2. Len(before) + 1 \in DOMAIN lst /\ lst[Len(before) + 1] = added
        BY <1>9 DEF before, added, lst
      <3> QED
        BY <1>11, <3>1, <3>2
    <2>2. CASE x # k
      <3>1. /\ OwnGateway(x) \in DOMAIN listeners
            /\ \E n \in DOMAIN listeners[OwnGateway(x)] :
                 IsListenerOf(listeners[OwnGateway(x)][n], ruleGroups[x])
        BY <1>1, <1>8, <2>2 DEF Listening
      <3>2. CASE OwnGateway(x) = gw
        <4>1. \A n \in DOMAIN listeners[gw] : n \in DOMAIN lst /\ lst[n] = listeners[gw][n]
          BY <3>1, <3>2, <1>9, <1>10 DEF before, lst
        <4> QED
          BY <3>1, <3>2, <4>1, <1>11
      <3>3. CASE OwnGateway(x) # gw
        BY <3>1, <3>3, <1>11
      <3> QED
        BY <3>2, <3>3
    <2> QED
      BY <2>1, <2>2
  <1>13. ASSUME NEW g \in DOMAIN listeners', NEW n \in DOMAIN listeners'[g]
         PROVE  \E x \in DOMAIN ruleGroups :
                  OwnGateway(x) = g /\ IsListenerOf(listeners'[g][n], ruleGroups[x])
    <2>1. CASE g = gw /\ listeners'[g][n] = added
      BY <2>1, <1>3, <1>6 DEF gw, added
    <2>2. CASE g \in DOMAIN listeners /\ n \in DOMAIN listeners[g]
               /\ listeners'[g][n] = listeners[g][n]
      BY <2>2, <1>8 DEF Listening
    <2>3. CASE g = gw
      <3>1. n \in DOMAIN lst /\ listeners'[g][n] = lst[n]
        BY <2>3, <1>11
      <3>2. \/ lst[n] = added
            \/ n \in DOMAIN before /\ lst[n] = before[n]
        BY <3>1, <1>9 DEF lst, before, added
      <3>3. n \in DOMAIN before => g \in DOMAIN listeners /\ before = listeners[g]
        BY <2>3, <1>10 DEF before
      <3> QED
        BY <2>1, <2>2, <2>3, <3>1, <3>2, <3>3
    <2>4. CASE g # gw
      BY <2>2, <2>4, <1>11
    <2> QED
      BY <2>3, <2>4
  <1>14. Listening(ruleGroups', listeners', pending')
    BY <1>2, <1>12, <1>13 DEF Listening
  <1> QED
    BY <1>2, <1>14 DEF ListenersInv, GroupsSecured, GroupsListening, RoutesHosted,
                       GatewaysEquipped, Building, Later

\* A route more, if it is hosted, leaves all hosted.
LEMMA AppendHosted ==
  ASSUME TypeInv, NEW rt, NEW groups, Hosted(rt, groups),
         \A n \in DOMAIN httpRoutes : Hosted(httpRoutes[n], groups),
         NEW t, t = Append(httpRoutes, rt)
  PROVE  \A n \in DOMAIN t : Hosted(t[n], groups)
  <1>1. IsSequence(httpRoutes)
    BY DEF TypeInv, TypeOK, IsSeqOf
  <1>2. /\ DOMAIN t = DOMAIN httpRoutes \union {Len(httpRoutes) + 1}
        /\ \A n \in DOMAIN httpRoutes : t[n] = httpRoutes[n]
        /\ t[Len(httpRoutes) + 1] = rt
    BY <1>1, AppendOwn
  <1> QED
    BY <1>2

LEMMA RouteBuiltListeners == TypeInv /\ ListenersInv /\ RouteBuilt => ListenersInv'
  <1> SUFFICES ASSUME TypeInv, ListenersInv, RouteBuilt PROVE ListenersInv'
    OBVIOUS
  <1>1. /\ phase = "rules" /\ phase' = "groups"
        /\ httpRoutes' = Append(httpRoutes, route)
        /\ UNCHANGED <<ingressList, ruleGroups, pending, listeners, gateways, routeByKey>>
    BY DEF RouteBuilt, Goto, groupVars
  <1>2. Hosted(route, ruleGroups)
    BY <1>1 DEF TypeInv, Linked, PathsLinked, Building, Hosted
  <1>3. \A n \in DOMAIN httpRoutes' : Hosted(httpRoutes'[n], ruleGroups)
    BY <1>1, <1>2, AppendHosted DEF ListenersInv, RoutesHosted
  <1> QED
    BY <1>1, <1>3 DEF ListenersInv, GroupsSecured, GroupsListening, RoutesHosted,
                      GatewaysEquipped, Building, Later

\* The route of a default backend has no host.
LEMMA DefaultBackendRouteListeners ==
  TypeInv /\ ListenersInv /\ DefaultBackendRoute => ListenersInv'
  <1> SUFFICES ASSUME TypeInv, ListenersInv, DefaultBackendRoute PROVE ListenersInv'
    OBVIOUS
  <1>1. /\ phase = "defaults"
        /\ UNCHANGED <<ingressList, phase, ruleGroups, listeners, gateways, routeByKey>>
    BY DEF DefaultBackendRoute, groupVars
  <1>2. PICK rt : httpRoutes' = Append(httpRoutes, rt) /\ rt.host = <<>>
    BY DEF DefaultBackendRoute
  <1>3. Hosted(rt, ruleGroups)
    BY <1>2 DEF Hosted
  <1>4. \A n \in DOMAIN httpRoutes' : Hosted(httpRoutes'[n], ruleGroups)
    BY <1>2, <1>3, AppendHosted DEF ListenersInv, RoutesHosted
  <1> QED
    BY <1>1, <1>4 DEF ListenersInv, GroupsSecured, GroupsListening, RoutesHosted,
                      GatewaysEquipped, Building, Later

-------------------------------------------------------------------------------
(***************************************************************************)
(* From listeners to Gateways.                                             *)
(***************************************************************************)
LEMMA DefaultsBuiltListeners == TypeInv /\ ListenersInv /\ DefaultsBuilt => ListenersInv'
  <1> SUFFICES ASSUME TypeInv, ListenersInv, DefaultsBuilt PROVE ListenersInv'
    OBVIOUS
  <1>1. /\ phase = "defaults" /\ phase' = "gateways" /\ pending' = DOMAIN listeners
        /\ UNCHANGED <<ingressList, ruleGroups, listeners, httpRoutes, gateways, routeByKey>>
    BY DEF DefaultsBuilt, Goto, groupVars, outVars
  <1>2. DOMAIN gateways' = {}
    BY <1>1 DEF ListenersInv, GatewaysEquipped, EmptyMap
  <1>3. Equipped(listeners', gateways', pending', {}, 1, errors')
    BY <1>1, <1>2 DEF Equipped
  <1> QED
    BY <1>1, <1>3 DEF ListenersInv, GroupsSecured, GroupsListening, RoutesHosted,
                      GatewaysEquipped, Building, Later

LEMMA NextGatewayListeners == TypeInv /\ ListenersInv /\ NextGateway => ListenersInv'
  <1> SUFFICES ASSUME TypeInv, ListenersInv, NextGateway PROVE ListenersInv'
    OBVIOUS
  <1>1. PICK k \in pending :
          /\ pending' = pending \ {k}
          /\ \/ /\ errors' = errors \union {"gatewayKey"}
                /\ UNCHANGED <<phase, j, current, gateways>>
             \/ /\ gateways' = Put(gateways, k, <<>>)
                /\ current' = k /\ phase' = "listeners" /\ j' = 1
                /\ UNCHANGED errors
    BY DEF NextGateway
  <1>2. /\ phase = "gateways"
        /\ UNCHANGED <<ingressList, ruleGroups, listeners, httpRoutes, routeByKey>>
    BY DEF NextGateway, groupVars
  <1>3. k \in DOMAIN listeners /\ listeners[k] \in Seq([host : String, certs : Seq(STRING)])
    BY <1>1, <1>2 DEF TypeInv, Linked, PendingLinked, TypeOK, MapOf
  <1>4. Equipped(listeners, gateways, pending, {}, 1, errors)
    BY <1>2 DEF ListenersInv, GatewaysEquipped
  <1>5. CASE /\ errors' = errors \union {"gatewayKey"}
             /\ UNCHANGED <<phase, j, current, gateways>>
    <2>1. Equipped(listeners', gateways', pending', {}, 1, errors')
      BY <1>1, <1>2, <1>4, <1>5 DEF Equipped
    <2> QED
      BY <1>2, <1>5, <2>1 DEF ListenersInv, GroupsSecured, GroupsListening, RoutesHosted,
                              GatewaysEquipped, Building, Later
  <1>6. CASE /\ gateways' = Put(gateways, k, <<>>)
             /\ current' = k /\ phase' = "listeners" /\ j' = 1 /\ UNCHANGED errors
    <2>1. /\ DOMAIN gateways' = DOMAIN gateways \union {k} /\ DOMAIN gateways'[k] = {}
          /\ \A g \in DOMAIN gateways : g # k => gateways'[g] = gateways[g]
      BY <1>6 DEF Put
    <2>2. \A n \in DOMAIN listeners[k] : ~(n < 1)
      BY <1>3
    <2>3. Equipped(listeners', gateways', pending', {current'}, j', errors')
      BY <1>1, <1>2, <1>3, <1>4, <1>6, <2>1, <2>2 DEF Equipped
    <2> QED
      BY <1>2, <1>6, <2>3 DEF ListenersInv, GroupsSecured, GroupsListening, RoutesHosted,
                              GatewaysEquipped, Building, Later
  <1> QED
    BY <1>1, <1>5, <1>6

\* All elements of both parts are in a concatenation, and no others.
In(e, s)     == \E n \in DOMAIN s : s[n] = e
Within(s, t) == \A n \in DOMAIN s : In(s[n], t)
Parts(t, s, u) == \A x \in DOMAIN t : In(t[x], s) \/ In(t[x], u)

LEMMA ConcatParts ==
  ASSUME NEW s, IsSequence(s), NEW u, IsSequence(u), NEW t, t = s \o u
  PROVE  Within(s, t) /\ Within(u, t) /\ Parts(t, s, u)
  <1> DEFINE T == {s[n] : n \in DOMAIN s} \union {u[n] : n \in DOMAIN u}
  <1>1. s \in Seq(T) /\ u \in Seq(T)
    BY DEF IsSequence
  <1>2. t \in Seq(T) /\ Len(t) = Len(s) + Len(u) /\ Len(s) \in Nat /\ Len(u) \in Nat
    BY <1>1
  <1>3. \A n \in DOMAIN s : n \in DOMAIN t /\ t[n] = s[n]
    BY <1>1, <1>2
  <1>4. \A n \in DOMAIN u : Len(s) + n \in DOMAIN t /\ t[Len(s) + n] = u[n]
    BY <1>1, <1>2
  <1>5. \A x \in DOMAIN t : \/ \E n \in DOMAIN s : t[x] = s[n]
                           \/ \E n \in DOMAIN u : t[x] = u[n]
    BY ConcatOwn
  <1> QED
    BY <1>3, <1>4, <1>5 DEF In, Within, Parts

\* What toHTTPRoutesAndGateways makes of a listener is one for HTTP and, with
\* certificates, one for HTTPS.
LEMMA GatewayListenersServe ==
  ASSUME NEW l \in [host : String, certs : Seq(STRING)], NEW gl, gl = GatewayListeners(l)
  PROVE  Serves(gl, l) /\ \A x \in DOMAIN gl : ComesFrom(gl[x], l)
  <1> DEFINE http  == [name |-> ListenerName(l.host, "http"), host |-> l.host,
                       port |-> 80, certs |-> <<>>]
             https == [name |-> ListenerName(l.host, "https"), host |-> l.host,
                       port |-> 443, certs |-> l.certs]
  <1>1. gl = <<http>> \o IF l.certs = <<>> THEN <<>> ELSE <<https>>
    BY DEF GatewayListeners
  <1>2. /\ http.host = l.host /\ http.port = 80
        /\ https.host = l.host /\ https.port = 443
    OBVIOUS
  <1> HIDE DEF http, https
  <1>3. CASE l.certs = <<>>
    <2>1. gl = <<http>>
      BY <1>1, <1>3
    <2>2. DOMAIN gl = {1} /\ gl[1] = http
      BY <2>1
    <2> QED
      BY <1>2, <1>3, <2>2 DEF Serves, Has, ComesFrom
  <1>4. CASE l.certs # <<>>
    <2>1. gl = <<http>> \o <<https>>
      BY <1>1, <1>4
    <2>2. /\ IsSequence(<<http>>) /\ DOMAIN <<http>> = {1} /\ <<http>>[1] = http
          /\ IsSequence(<<https>>) /\ DOMAIN <<https>> = {1} /\ <<https>>[1] = https
      BY DEF IsSequence
    <2>3. Within(<<http>>, gl) /\ Within(<<https>>, gl) /\ Parts(gl, <<http>>, <<https>>)
      BY ONLY <2>1, <2>2, ConcatParts
    <2>4. In(http, gl) /\ In(https, gl)
      BY <2>2, <2>3 DEF Within
    <2>5. \A x \in DOMAIN gl : gl[x] = http \/ gl[x] = https
      BY <2>2, <2>3 DEF Parts, In
    <2> QED
      BY <1>2, <1>4, <2>4, <2>5 DEF Serves, Has, ComesFrom, In
  <1> QED
    BY <1>3, <1>4

LEMMA AddListenerListeners == TypeInv /\ ListenersInv /\ AddListener => ListenersInv'
  <1> SUFFICES ASSUME TypeInv, ListenersInv, AddListener PROVE ListenersInv'
    OBVIOUS
  <1> DEFINE l    == listeners[current][j]
             more == GatewayListeners(l)
             L    == [host : String, certs : Seq(STRING)]
             gl   == gateways[current]
             gl2  == gateways'[current]
  <1>1. /\ phase = "listeners" /\ phase' = phase /\ j <= Len(listeners[current]) /\ j' = j + 1
        /\ gateways' = [gateways EXCEPT ![current] = gl \o more]
        /\ UNCHANGED <<ingressList, ruleGroups, pending, current, listeners, httpRoutes,
                       routeByKey, errors>>
    BY DEF AddListener, groupVars
  <1>2. current \in DOMAIN listeners /\ current \in DOMAIN gateways
    BY <1>1 DEF TypeInv, Linked, GatewayLinked
  <1>3. listeners[current] \in Seq(L) /\ j \in Nat \ {0}
    BY <1>2 DEF TypeInv, TypeOK, MapOf
  <1>4. j \in DOMAIN listeners[current] /\ l \in L
    <2> HIDE DEF L
    <2> QED
      BY <1>1, <1>3, Element
  <1>5. IsSequence(gl) /\ IsSequence(more)
    <2>1. IsSeqOf(more, IsListener)
      BY <1>4, GatewayListenersType
    <2>2. IsSeqOf(gl, IsListener)
      BY <1>2 DEF TypeInv, TypeOK
    <2> QED
      BY <2>1, <2>2 DEF IsSeqOf
  <1>6. Serves(more, l) /\ \A x \in DOMAIN more : ComesFrom(more[x], l)
    BY <1>4, GatewayListenersServe
  <1>7. Equipped(listeners, gateways, pending, {current}, j, errors)
    BY <1>1 DEF ListenersInv, GatewaysEquipped
  <1>8. /\ DOMAIN gateways' = DOMAIN gateways /\ gl2 = gl \o more
        /\ \A g \in DOMAIN gateways : g # current => gateways'[g] = gateways[g]
    BY <1>1, <1>2
  <1> HIDE DEF l, more, gl, gl2
  <1>9. Within(gl, gl2) /\ Within(more, gl2) /\ Parts(gl2, gl, more)
    BY ONLY <1>5, <1>8, ConcatParts
  <1>10. ASSUME NEW n \in DOMAIN listeners[current], n < j + 1
         PROVE  Serves(gl2, listeners[current][n])
    <2>1. CASE n < j
      <3>1. Serves(gl, listeners[current][n])
        BY <1>2, <1>7, <2>1 DEF Equipped, gl
      <3> QED
        BY <1>9, <3>1 DEF Serves, Has, Within, In
    <2>2. CASE n = j
      BY <1>6, <1>9, <2>2 DEF Serves, Has, Within, In, l
    <2> QED
      BY <1>3, <1>10, <2>1, <2>2
  <1>11. ASSUME NEW y \in DOMAIN gl2
         PROVE  \E n \in DOMAIN listeners[current] : ComesFrom(gl2[y], listeners[current][n])
    <2>1. CASE In(gl2[y], gl)
      BY <1>2, <1>7, <2>1 DEF Equipped, In, gl
    <2>2. CASE In(gl2[y], more)
      BY <1>4, <1>6, <2>2 DEF In, l
    <2> QED
      BY <1>9, <2>1, <2>2 DEF Parts
  <1>12. Equipped(listeners, gateways', pending, {current}, j + 1, errors)
    BY <1>7, <1>8, <1>10, <1>11 DEF Equipped, gl2
  <1> QED
    BY <1>1, <1>12 DEF ListenersInv, GroupsSecured, GroupsListening, RoutesHosted,
                       GatewaysEquipped, Building, Later

LEMMA GatewayBuiltListeners == TypeInv /\ ListenersInv /\ GatewayBuilt => ListenersInv'
  <1> SUFFICES ASSUME TypeInv, ListenersInv, GatewayBuilt PROVE ListenersInv'
    OBVIOUS
  <1>1. /\ phase = "listeners" /\ phase' = "gateways" /\ j > Len(listeners[current])
        /\ UNCHANGED <<ingressList, ruleGroups, pending, listeners, httpRoutes, gateways,
                       routeByKey, errors>>
    BY DEF GatewayBuilt, Goto, groupVars, outVars
  <1>2. Equipped(listeners, gateways, pending, {current}, j, errors)
    BY <1>1 DEF ListenersInv, GatewaysEquipped
  <1>3. \A n \in DOMAIN listeners[current] : n < j
    <2>1. listeners[current] \in Seq([host : String, certs : Seq(STRING)]) /\ j \in Nat
      BY <1>1 DEF TypeInv, Linked, GatewayLinked, TypeOK, MapOf
    <2> QED
      BY <1>1, <2>1
  <1>4. Equipped(listeners, gateways, pending, {}, 1, errors)
    BY <1>2, <1>3 DEF Equipped
  <1> QED
    BY <1>1, <1>4 DEF ListenersInv, GroupsSecured, GroupsListening, RoutesHosted,
                      GatewaysEquipped, Building, Later

LEMMA GatewaysBuiltListeners == TypeInv /\ ListenersInv /\ GatewaysBuilt => ListenersInv'
  <1> SUFFICES ASSUME TypeInv, ListenersInv, GatewaysBuilt PROVE ListenersInv'
    OBVIOUS
  <1>1. /\ phase = "gateways" /\ pending = {}
        /\ phase' = IF errors = {} THEN "index" ELSE "failed"
        /\ UNCHANGED <<ingressList, ruleGroups, listeners, httpRoutes, gateways, routeByKey,
                       errors>>
    BY DEF GatewaysBuilt, AfterGateways, Goto, groupVars, outVars
  <1>2. Equipped(listeners, gateways, {}, {}, 1, errors)
    BY <1>1 DEF ListenersInv, GatewaysEquipped
  <1> QED
    BY <1>1, <1>2 DEF ListenersInv, GroupsSecured, GroupsListening, RoutesHosted,
                      GatewaysEquipped, Building, Later

LEMMA IndexRouteListeners == TypeInv /\ ListenersInv /\ IndexRoute => ListenersInv'
  <1> SUFFICES ASSUME TypeInv, ListenersInv, IndexRoute PROVE ListenersInv'
    OBVIOUS
  <1> DEFINE key == [ns |-> httpRoutes[i].ns, name |-> httpRoutes[i].name]
  <1>1. /\ phase = "index" /\ i <= Len(httpRoutes)
        /\ routeByKey' = Put(routeByKey, key, httpRoutes[i])
        /\ UNCHANGED <<ingressList, phase, ruleGroups, listeners, httpRoutes, gateways, errors>>
    BY DEF IndexRoute, groupVars
  <1>2. i \in DOMAIN httpRoutes
    BY <1>1, Element DEF TypeInv, TypeOK, IsSeqOf, IsSequence
  <1>3. Hosted(httpRoutes[i], ruleGroups)
    BY <1>2 DEF ListenersInv, RoutesHosted
  <1> HIDE DEF key
  <1>4. \A k \in DOMAIN routeByKey' : Hosted(routeByKey'[k], ruleGroups)
    BY <1>1, <1>3 DEF ListenersInv, RoutesHosted, Put
  <1> QED
    BY <1>1, <1>4 DEF ListenersInv, GroupsSecured, GroupsListening, RoutesHosted,
                      GatewaysEquipped, Building, Later

-------------------------------------------------------------------------------
(***************************************************************************)
(* The actions that leave groups, listeners, routes and Gateways alone.    *)
(***************************************************************************)
LEMMA QuietListeners ==
  ASSUME ListenersInv,
         UNCHANGED <<ingressList, ruleGroups, pending, listeners, httpRoutes, gateways, routeByKey>>,
         phase = "groups" \/ Building,
         phase' \in {"groups", "paths", "rules", "backends", "panicked"}
  PROVE  ListenersInv'
  BY DEF ListenersInv, GroupsSecured, GroupsListening, RoutesHosted, GatewaysEquipped,
         Building, Later

LEMMA NextListeners == TypeInv /\ ListenersInv /\ [Next]_vars => ListenersInv'
  <1> SUFFICES ASSUME TypeInv, ListenersInv, [Next]_vars PROVE ListenersInv'
    OBVIOUS
  <1> USE DEF groupVars, pathVars, buildVars, outVars
  <1>1. CASE GroupIngressPath
    BY <1>1, QuietListeners DEF GroupIngressPath, Building
  <1>2. CASE PathsGrouped
    BY <1>2, QuietListeners DEF PathsGrouped, Goto, Building
  <1>3. CASE ToHTTPRouteRule
    BY <1>3, QuietListeners DEF ToHTTPRouteRule, Building
  <1>4. CASE ConfigureBackendRef
    BY <1>4, QuietListeners DEF ConfigureBackendRef, Building
  <1>5. CASE AppendRule
    BY <1>5, QuietListeners DEF AppendRule, Building
  <1>6. CASE GroupsBuilt
    <2>1. /\ phase = "groups" /\ pending = {} /\ phase' = "defaults"
          /\ UNCHANGED <<ingressList, ruleGroups, listeners, httpRoutes, gateways, routeByKey>>
      BY <1>6 DEF GroupsBuilt, Goto
    <2> QED
      BY <2>1 DEF ListenersInv, GroupsSecured, GroupsListening, RoutesHosted,
                  GatewaysEquipped, Building, Later
  <1>7. CASE RoutesIndexed
    <2>1. /\ phase = "index" /\ phase' = "done"
          /\ UNCHANGED <<ingressList, ruleGroups, listeners, httpRoutes, gateways, routeByKey,
                         errors>>
      BY <1>7 DEF RoutesIndexed, Goto
    <2> QED
      BY <2>1 DEF ListenersInv, GroupsSecured, GroupsListening, RoutesHosted,
                  GatewaysEquipped, Building, Later
  <1>8. CASE UNCHANGED vars
    <2>1. UNCHANGED <<ingressList, phase, i, j, ruleGroups, pending, current, listeners,
                      httpRoutes, gateways, routeByKey, errors>>
      BY <1>8 DEF vars
    <2> QED
      BY <2>1 DEF ListenersInv, GroupsSecured, GroupsListening, RoutesHosted,
                  GatewaysEquipped, Building, Later
  <1> QED
    BY <1>1, <1>2, <1>3, <1>4, <1>5, <1>6, <1>7, <1>8, FromMapListeners,
       AddIngressRuleListeners, AddDefaultBackendListeners, SortRuleGroupsListeners,
       NextRuleGroupListeners, RouteBuiltListeners, DefaultBackendRouteListeners,
       DefaultsBuiltListeners, NextGatewayListeners, AddListenerListeners,
       GatewayBuiltListeners, GatewaysBuiltListeners, IndexRouteListeners
    DEF Next, Convert, Terminating

LEMMA ListenersInvariance == Spec => []ListenersInv
  BY InitListeners, NextListeners, TypeInvariance, PTL DEF Spec

\* Every HTTPRoute with a hostname finds on the Gateway it refers to a listener
\* for that hostname, and an HTTPS one exactly if an Ingress asks for TLS there,
\* for every set of Ingresses and every order in which groups and Gateways are
\* visited.
THEOREM RoutesFindListeners == Spec => []ListenersCoverRoutes
  <1>1. TypeInv /\ ListenersInv => ListenersCoverRoutes
    <2> SUFFICES ASSUME TypeInv, ListenersInv, phase = "done", NEW key \in DOMAIN routeByKey,
                        routeByKey[key].host # <<>>
                 PROVE  LET rt == routeByKey[key]
                            gw == [ns |-> rt.ns, class |-> rt.class]
                        IN  /\ gw \in DOMAIN gateways
                            /\ Has(gateways[gw], rt.host, 80)
                            /\ Has(gateways[gw], rt.host, 443) <=> AsksForTLS(gw, rt.host)
      BY DEF ListenersCoverRoutes, Has
    <2> DEFINE rt  == routeByKey[key]
               gw  == [ns |-> rt.ns, class |-> rt.class]
               own == [ns |-> rt.ns, class |-> rt.class, host |-> rt.host]
    <2>1. /\ SecuredUpTo(ingressList, ruleGroups, Len(ingressList) + 1, 1)
          /\ Listening(ruleGroups, listeners, {})
          /\ Equipped(listeners, gateways, {}, {}, 1, errors) /\ errors = {}
      BY DEF ListenersInv, GroupsSecured, GroupsListening, GatewaysEquipped, Later
    <2>2. own \in DOMAIN ruleGroups /\ OwnGateway(own) = gw
      BY DEF ListenersInv, RoutesHosted, Hosted, OwnGateway
    <2>3. \A k \in DOMAIN ruleGroups :
            k = [ns |-> ruleGroups[k].ns, class |-> ruleGroups[k].class,
                 host |-> ruleGroups[k].host]
      BY DEF TypeInv, Linked, GroupsLinked
    <2>4. \A k \in DOMAIN ruleGroups :
            /\ k.host # <<>> => ListenerHost(ruleGroups[k]) = k.host
            /\ OwnGateway(k) = [ns |-> k.ns, class |-> k.class]
      <3> SUFFICES ASSUME NEW k \in DOMAIN ruleGroups
                   PROVE  /\ k.host # <<>> => ListenerHost(ruleGroups[k]) = k.host
                          /\ OwnGateway(k) = [ns |-> k.ns, class |-> k.class]
        OBVIOUS
      <3>1. k.host = ruleGroups[k].host
        BY <2>3
      <3> QED
        BY <3>1 DEF ListenerHost, OwnGateway
    <2>5. gw \in DOMAIN listeners /\ gw \in DOMAIN gateways
      BY <2>1, <2>2 DEF Listening, Equipped
    <2>6. Has(gateways[gw], rt.host, 80)
      <3>1. PICK n \in DOMAIN listeners[gw] : IsListenerOf(listeners[gw][n], ruleGroups[own])
        BY <2>1, <2>2 DEF Listening
      <3>2. listeners[gw][n].host = rt.host
        BY <2>2, <2>4, <3>1 DEF IsListenerOf
      <3>3. Serves(gateways[gw], listeners[gw][n])
        BY <2>1, <2>5 DEF Equipped
      <3> QED
        BY <3>2, <3>3 DEF Serves
    <2>7. ASSUME Has(gateways[gw], rt.host, 443)
          PROVE  AsksForTLS(gw, rt.host)
      <3>1. PICK x \in DOMAIN gateways[gw] : gateways[gw][x].host = rt.host /\ gateways[gw][x].port = 443
        BY <2>7 DEF Has
      <3>2. PICK n \in DOMAIN listeners[gw] : ComesFrom(gateways[gw][x], listeners[gw][n])
        BY <2>1, <2>5 DEF Equipped
      <3>3. listeners[gw][n].host = rt.host /\ listeners[gw][n].certs # <<>>
        BY <3>1, <3>2 DEF ComesFrom
      <3>4. PICK k \in DOMAIN ruleGroups :
              OwnGateway(k) = gw /\ IsListenerOf(listeners[gw][n], ruleGroups[k])
        BY <2>1, <2>5 DEF Listening
      <3>5. ListenerHost(ruleGroups[k]) = rt.host /\ ruleGroups[k].tls # <<>>
        BY <3>3, <3>4 DEF IsListenerOf
      <3>6. PICK m \in DOMAIN ingressList : \E r \in DOMAIN ingressList[m].rules :
              ingressList[m].tls # <<>> /\ KeyOf(ingressList, m, r) = k
        BY <2>1, <3>5 DEF SecuredUpTo
      <3>7. PICK r \in DOMAIN ingressList[m].rules :
              ingressList[m].tls # <<>> /\ KeyOf(ingressList, m, r) = k
        BY <3>6
      <3>8. GroupKey(ingressList[m], ingressList[m].rules[r].host) = k
        BY <3>7 DEF KeyOf
      <3>9. k.host = rt.host \/ (k.host = <<>> /\ rt.host = ListenerHost(ruleGroups[k]))
        BY <2>4, <3>5
      <3>10. [ns |-> k.ns, class |-> k.class] = gw
        BY <2>4, <3>4
      <3> HIDE DEF gw, rt
      <3> QED
        BY <3>7, <3>8, <3>9, <3>10 DEF AsksForTLS
    <2>8. ASSUME AsksForTLS(gw, rt.host)
          PROVE  Has(gateways[gw], rt.host, 443)
      <3> HIDE DEF gw, rt
      <3> DEFINE Asks(k) ==
                   /\ [ns |-> k.ns, class |-> k.class] = gw
                   /\ k.host = rt.host \/ (k.host = <<>> /\ rt.host = ListenerHost(ruleGroups[k]))
      <3>1. PICK m \in DOMAIN ingressList : \E r \in DOMAIN ingressList[m].rules :
              ingressList[m].tls # <<>> /\ Asks(KeyOf(ingressList, m, r))
        BY <2>8 DEF AsksForTLS, KeyOf
      <3>2. PICK r \in DOMAIN ingressList[m].rules :
              ingressList[m].tls # <<>> /\ Asks(KeyOf(ingressList, m, r))
        BY <3>1
      <3> DEFINE k == KeyOf(ingressList, m, r)
      <3>3. Asks(k) /\ ingressList[m].tls # <<>>
        BY <3>2
      <3>4. Sooner(m, r, Len(ingressList) + 1, 1)
        <4>1. ingressList \in Seq(ingresses)
          BY DEF TypeInv, TypeOK
        <4> QED
          BY <4>1 DEF Sooner
      <3>5. k \in DOMAIN ruleGroups /\ ruleGroups[k].tls # <<>>
        BY <2>1, <3>3, <3>4 DEF SecuredUpTo
      <3> HIDE DEF k
      <3>6. OwnGateway(k) = gw /\ ListenerHost(ruleGroups[k]) = rt.host
        BY <2>4, <3>3, <3>5 DEF k, rt
      <3>7. PICK n \in DOMAIN listeners[gw] : IsListenerOf(listeners[gw][n], ruleGroups[k])
        BY <2>1, <3>5, <3>6 DEF Listening
      <3>8. listeners[gw][n].host = rt.host /\ listeners[gw][n].certs # <<>>
        BY <3>5, <3>6, <3>7 DEF IsListenerOf
      <3>9. Serves(gateways[gw], listeners[gw][n])
        BY <2>1, <2>5 DEF Equipped
      <3> QED
        BY <3>8, <3>9 DEF Serves
    <2> QED
      BY <2>5, <2>6, <2>7, <2>8
  <1> QED
    BY <1>1, TypeInvariance, ListenersInvariance, PTL
===============================================================================
