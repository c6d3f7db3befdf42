----------------------------- MODULE OutcomeProofs -----------------------------
(***************************************************************************)
(* Proof that the loops of Aggregator implement ConversionContract.  The   *)
(* inductive invariant says, loop by loop, how far the data have become    *)
(* what ConversionOutcome makes of the Ingresses, in which order, and what *)
(* the loops have found no fault with.                                     *)
(***************************************************************************)
EXTENDS AggregatorRefinement, AggregatorProofs, ProviderProofs

(***************************************************************************)
(* The list and the groups                                                 *)
(***************************************************************************)
ListInv == phase # "list" => ingressList \in SortedLists(ingresses)

\* Rules come by Ingress and rule, paths by rule and path.
RuleBefore(m, n) == m.ingress < n.ingress \/ (m.ingress = n.ingress /\ m.rule < n.rule)
PathBefore(p, q) ==
  RuleBefore(p, q) \/ (p.ingress = q.ingress /\ p.rule = q.rule /\ p.path < q.path)

\* The TLS entries that a rule brings to its group.
Brought(list, m) == list[m.ingress].tls
SecretsOf(tls) == {tls[n].secret : n \in DOMAIN tls}

\* tls is one list of TLS entries after the other.
Joins(list, rules, tls) ==
  /\ SecretsOf(tls) = UNION {SecretsOf(Brought(list, rules[x])) : x \in DOMAIN rules}
  /\ (\A x \in DOMAIN rules : Brought(list, rules[x]) = <<>>) => tls = <<>>
  /\ \A x \in DOMAIN rules :
       /\ Brought(list, rules[x]) # <<>>
       /\ \A y \in DOMAIN rules : Brought(list, rules[y]) # <<>> => x = y
       => tls = Brought(list, rules[x])
  /\ \A x, y \in DOMAIN rules :
       Brought(list, rules[x]) # <<>> /\ Brought(list, rules[y]) # <<>> /\ x # y => Len(tls) > 1

\* A group has its rules in order and its name from the first.
Gathered(list, rg) ==
  /\ rg.rules # <<>>
  /\ \A x, y \in DOMAIN rg.rules : x < y => RuleBefore(rg.rules[x], rg.rules[y])
  /\ rg.name = list[rg.rules[1].ingress].name
  /\ Joins(list, rg.rules, rg.tls)

GatheredInv == \A k \in DOMAIN ruleGroups : Gathered(ingressList, ruleGroups[k])

(***************************************************************************)
(* The route of a group                                                    *)
(***************************************************************************)
PathsInOrder ==
  Building =>
    /\ \A key \in DOMAIN pathsByKey :
         /\ pathsByKey[key] # <<>>
         /\ \A x, y \in DOMAIN pathsByKey[key] :
              x < y => PathBefore(pathsByKey[key][x], pathsByKey[key][y])
    /\ \A x, y \in DOMAIN matchKeys :
         x < y => PathBefore(pathsByKey[matchKeys[x]][1], pathsByKey[matchKeys[y]][1])

RouteNamed == Building => route.name = RouteName(ruleGroups[current].name, current.host)

(***************************************************************************)
(* What has been found without fault                                       *)
(***************************************************************************)
RuleOf(list, m) == list[m.ingress].rules[m.rule]
Unknown(path)  == path.type = "other"
Good(ns, path) == ~MatchFails(PathMatchKey(path)) /\ Resolves(ns, path.backend)

\* A group that makes nothing panic, and one that is converted.
Sane(list, rg) ==
  \A n \in DOMAIN rg.rules :
    /\ RuleOf(list, rg.rules[n]).http
    /\ \A p \in DOMAIN RuleOf(list, rg.rules[n]).paths : ~Unknown(RuleOf(list, rg.rules[n]).paths[p])
Converts(list, rg) ==
  \A n \in DOMAIN rg.rules : \A p \in DOMAIN RuleOf(list, rg.rules[n]).paths :
    Good(rg.ns, RuleOf(list, rg.rules[n]).paths[p])

\* The groups whose routes are still to be built.
Left ==
  IF phase = "groups" THEN pending ELSE IF Building THEN pending \union {current} ELSE {}

Afterwards == {"defaults", "gateways", "listeners", "index", "done", "failed"}

GroupsChecked ==
  phase = "groups" \/ Building \/ phase \in Afterwards =>
    \A k \in DOMAIN ruleGroups \ Left :
      /\ Sane(ingressList, ruleGroups[k])
      /\ errors = {} => Converts(ingressList, ruleGroups[k])

RulesChecked ==
  Building =>
    \A n \in DOMAIN ruleGroups[current].rules :
      (phase = "paths" => n < i) => RuleOf(ingressList, ruleGroups[current].rules[n]).http

KeysChecked ==
  phase \in {"rules", "backends"} =>
    \A x \in DOMAIN matchKeys :
      /\ x < i \/ (x = i /\ phase = "backends") => matchKeys[x].type # "other"
      /\ (x < i \/ (x = i /\ phase = "backends")) /\ errors = {} => ~MatchFails(matchKeys[x])
      /\ errors = {} =>
           \A y \in DOMAIN pathsByKey[matchKeys[x]] :
             x < i \/ (x = i /\ phase = "backends" /\ y < j) =>
               Resolves(current.ns, PathIn(ingressList, pathsByKey[matchKeys[x]][y]).backend)

DefaultsChecked ==
  errors = {} /\ phase \in Afterwards =>
    \A n \in DOMAIN defaultBackends :
      (phase = "defaults" => n < i) =>
        Resolves(ingressList[defaultBackends[n]].ns,
                 ingressList[defaultBackends[n]].defaultBackend[1])

GatewaysChecked ==
  errors = {} /\ phase \in {"gateways", "listeners", "index", "done"} =>
    \A g \in DOMAIN listeners :
      (phase \in {"gateways", "listeners"} => g \notin pending) =>
        NoSlash(g.class) /\ g \in DOMAIN gateways

\* What is reported is at fault.
FaultsReal ==
  /\ errors # {} => Fails(ingresses)
  /\ phase = "panicked" => Panics(ingresses)
  /\ phase = "failed" => errors # {}

CheckedInv ==
  /\ GroupsChecked /\ RulesChecked /\ KeysChecked /\ DefaultsChecked /\ GatewaysChecked
  /\ FaultsReal

(***************************************************************************)
(* The order of routes and listeners                                       *)
(***************************************************************************)
\* No key precedes one that came earlier.
Ascends(n, ks) == \A x, y \in 1..n : x < y => ks[x] # ks[y] /\ ~KeyPrecedes(ks[y], ks[x])

\* ks are groups that have been visited, and those left come later.
Visits(n, ks, left) ==
  /\ Ascends(n, ks)
  /\ \A x \in 1..n : ks[x] \notin left /\ \A l \in left : ~KeyPrecedes(l, ks[x])

OutPlace(list, p) == [ing |-> list[p.ingress], rule |-> p.rule, path |-> p.path]
OutRoute(list, rt) ==
  [name |-> rt.name, ns |-> rt.ns, class |-> rt.class, host |-> rt.host,
   rules |-> [x \in DOMAIN rt.rules |->
     [match   |-> rt.rules[x].match,
      sources |-> [y \in DOMAIN rt.sources[x] |-> OutPlace(list, rt.sources[x][y])]]]]

DefaultsBuiltSoFar ==
  IF phase = "groups" \/ Building THEN 0
  ELSE IF phase = "defaults" THEN i - 1 ELSE Len(defaultBackends)

\* The routes are those of the groups visited, and then those of the default
\* backends.
Routed(n, ks) ==
  /\ Visits(n, ks, Left)
  /\ \A k \in DOMAIN ruleGroups \ Left : \E x \in 1..n : ks[x] = k
  /\ DefaultsBuiltSoFar \in 0..Len(defaultBackends)
  /\ Len(httpRoutes) = n + DefaultsBuiltSoFar
  /\ \A x \in 1..n : OutRoute(ingressList, httpRoutes[x]) = GroupRoute(ingresses, ks[x])
  /\ \A x \in 1..DefaultsBuiltSoFar :
       OutRoute(ingressList, httpRoutes[n + x]) = DefaultRoute(ingressList[defaultBackends[x]])

CurrentFirst == Building => \A l \in pending : ~KeyPrecedes(l, current)

RoutesInOrder ==
  errors = {} /\ (phase = "groups" \/ Building \/ phase \in Afterwards) =>
    \E n \in 0..Len(httpRoutes) : \E ks \in [1..n -> DOMAIN ruleGroups] : Routed(n, ks)

ListenerOf(rg) == [host |-> ListenerHost(rg), certs |-> Secrets(rg.tls)]

\* The listeners of a Gateway are those of its groups that have been visited.
Listed(g, ls, left) ==
  \E ks \in [1..Len(ls) -> DOMAIN ruleGroups] :
    /\ Visits(Len(ls), ks, left)
    /\ \A x \in 1..Len(ls) : GatewayOf(ks[x]) = g /\ ls[x] = ListenerOf(ruleGroups[ks[x]])
    /\ \A k \in DOMAIN ruleGroups \ left : GatewayOf(k) = g => \E x \in 1..Len(ls) : ks[x] = k

ListenersLeft == IF phase = "groups" \/ Building THEN pending ELSE {}

ListenersInOrder ==
  /\ phase \in {"list", "aggregate"} => listeners = EmptyMap
  /\ phase = "groups" \/ Building \/ phase \in Afterwards =>
       /\ \A k \in DOMAIN ruleGroups \ ListenersLeft : GatewayOf(k) \in DOMAIN listeners
       /\ \A g \in DOMAIN listeners :
            listeners[g] # <<>> /\ Listed(g, listeners[g], ListenersLeft)

\* The first k of gl are what the first n of ls become, one after the other.
SpreadUpTo(gl, k, ls, n) ==
  \E at \in [1..k -> (1..n) \X {1, 2}] :
    /\ \A z \in 1..k :
         /\ at[z][2] \in DOMAIN GatewayListeners(ls[at[z][1]])
         /\ gl[z] = GatewayListeners(ls[at[z][1]])[at[z][2]]
    /\ \A x \in 1..n : \A y \in DOMAIN GatewayListeners(ls[x]) :
         \E z \in 1..k : at[z] = <<x, y>>
    /\ \A y, z \in 1..k : y < z =>
         at[y][1] < at[z][1] \/ (at[y][1] = at[z][1] /\ at[y][2] < at[z][2])

Spread(gl, ls, n) == SpreadUpTo(gl, Len(gl), ls, n)

GatewaysInOrder ==
  /\ phase \in {"list", "aggregate", "groups", "defaults"} \/ Building => gateways = EmptyMap
  /\ phase \in {"gateways", "listeners", "index", "done"} =>
       \A g \in DOMAIN gateways :
         /\ g \in DOMAIN listeners
         /\ (phase = "gateways" => g \notin pending) /\ (phase = "listeners" => g \notin pending)
         /\ Spread(gateways[g], listeners[g],
                   IF phase = "listeners" /\ g = current THEN j - 1 ELSE Len(listeners[g]))
  /\ phase = "listeners" => current \notin pending /\ j - 1 <= Len(listeners[current])

OrderInv == CurrentFirst /\ RoutesInOrder /\ ListenersInOrder /\ GatewaysInOrder

(***************************************************************************)
(* The index of routes                                                     *)
(***************************************************************************)
NameOf(rt) == [ns |-> rt.ns, name |-> rt.name]

Indexed(index, n) ==
  /\ \A x \in 1..n : NameOf(httpRoutes[x]) \in DOMAIN index
  /\ \A key \in DOMAIN index :
       \E x \in 1..n :
         /\ key = NameOf(httpRoutes[x]) /\ index[key] = httpRoutes[x]
         /\ \A y \in 1..n : x < y => NameOf(httpRoutes[y]) # key

IndexInv ==
  /\ phase \notin {"index", "done"} => routeByKey = EmptyMap
  /\ phase = "index" => i - 1 <= Len(httpRoutes) /\ Indexed(routeByKey, i - 1)
  /\ phase = "done"  => Indexed(routeByKey, Len(httpRoutes))

OutcomeInv ==
  /\ TypeInv /\ SourcesInv /\ OnceInv /\ ListInv /\ GatheredInv /\ PathsInOrder /\ RouteNamed
  /\ CheckedInv /\ OrderInv /\ IndexInv
-------------------------------------------------------------------------------
(***************************************************************************)
(* The list                                                                *)
(***************************************************************************)
LEMMA NextList == ListInv /\ [Next]_vars => ListInv'
  <1> USE DEF groupVars, pathVars, buildVars, outVars, Goto
  <1> SUFFICES ASSUME ListInv, [Next]_vars PROVE ListInv'
    OBVIOUS
  <1>1. CASE FromMap
    BY <1>1 DEF FromMap, ListInv
  <1>2. CASE UNCHANGED vars
    BY <1>2 DEF ListInv, vars
  <1>3. CASE Next /\ ~FromMap
    <2>1. phase # "list" /\ UNCHANGED <<ingresses, ingressList>>
      BY <1>3 DEF Next, Convert, Terminating, Ended, vars, AddIngressRule, AddDefaultBackend, SortRuleGroups,
            NextRuleGroup, GroupIngressPath, PathsGrouped, ToHTTPRouteRule, ConfigureBackendRef,
            AppendRule, RouteBuilt, GroupsBuilt, DefaultBackendRoute, DefaultsBuilt, NextGateway,
            AddListener, GatewayBuilt, GatewaysBuilt, IndexRoute, RoutesIndexed
    <2> QED
      BY <2>1 DEF ListInv
  <1> QED
    BY <1>1, <1>2, <1>3

\* The list has every Ingress once; those of one namespace are in the order of
\* their names.
LEMMA ListFacts ==
  ASSUME TypeInv, ListInv, phase # "list"
  PROVE  /\ DOMAIN ingressList = 1..Len(ingressList) /\ Len(ingressList) \in Nat
         /\ \A m \in DOMAIN ingressList : ingressList[m] \in ingresses
         /\ \A ing \in ingresses : \E m \in DOMAIN ingressList : ingressList[m] = ing
         /\ \A m, n \in DOMAIN ingressList : ingressList[m] = ingressList[n] => m = n
         /\ \A m, n \in DOMAIN ingressList :
              m < n => ~Precedes(ingressList[n].name, ingressList[m].name)
         /\ \A m, n \in DOMAIN ingressList :
              m < n /\ ingressList[m].ns = ingressList[n].ns =>
                Precedes(ingressList[m].name, ingressList[n].name)
  <1> DEFINE k == Cardinality(ingresses)
  <1>1. IsFiniteSet(ingresses) /\ ingresses \in Inputs /\ k \in Nat
    BY InputShape, FS_CardinalityType DEF TypeInv
  <1>2. ingressList \in SortedLists(ingresses)
    BY DEF ListInv
  <1>3. /\ ingressList \in [1..k -> ingresses]
        /\ \A m, n \in DOMAIN ingressList :
             m < n => (ingressList[m] # ingressList[n] /\ ~Precedes(ingressList[n].name, ingressList[m].name))
    BY <1>2 DEF SortedLists
  <1>4. DOMAIN ingressList = 1..k /\ Len(ingressList) = k
    BY <1>1, <1>3
  <1> HIDE DEF k
  <1>5. \A m, n \in 1..k : ingressList[m] = ingressList[n] => m = n
    <2> SUFFICES ASSUME NEW m \in 1..k, NEW n \in 1..k, ingressList[m] = ingressList[n] PROVE m = n
      OBVIOUS
    <2>1. m < n \/ n < m \/ m = n
      BY <1>1
    <2> QED
      BY <2>1, <1>3, <1>4
  <1>6. \A ing \in ingresses : \E m \in 1..k : ingressList[m] = ing
    <2>1. ingressList \in Injection(1..k, ingresses)
      BY <1>3, <1>5 DEF Injection, IsInjective
    <2>2. Cardinality(1..k) = Cardinality(ingresses)
      BY <1>1, IndicesFinite DEF k
    <2>3. ingressList \in Surjection(1..k, ingresses)
      BY <2>1, <2>2, <1>1, FS_Injection
    <2> QED
      BY <2>3 DEF Surjection
  <1>7. ASSUME NEW m \in 1..k, NEW n \in 1..k, m < n, ingressList[m].ns = ingressList[n].ns
        PROVE  Precedes(ingressList[m].name, ingressList[n].name)
    <2>1. ingressList[m] \in ingresses /\ ingressList[n] \in ingresses
      BY <1>3
    <2>2. ingressList[m].name # ingressList[n].name
      BY <2>1, <1>1, <1>3, <1>4, <1>7, InputShape
    <2>3. ingressList[m].name \in String /\ ingressList[n].name \in String
      BY <2>1, <1>1, InputShape
    <2> QED
      BY <2>2, <2>3, <1>3, <1>4, <1>7, PrecedesTotal
  <1> QED
    BY <1>1, <1>3, <1>4, <1>5, <1>6, <1>7

(***************************************************************************)
(* The groups                                                              *)
(***************************************************************************)
LEMMA SecretsOfConcat ==
  ASSUME NEW T, NEW s \in Seq(T), NEW t \in Seq(T)
  PROVE  SecretsOf(s \o t) = SecretsOf(s) \union SecretsOf(t)
  <1> DEFINE u == s \o t
  <1>1. IsSeq(s) /\ IsSeq(t) /\ DOMAIN s = 1..Len(s) /\ DOMAIN t = 1..Len(t) /\ Len(s) \in Nat /\ Len(t) \in Nat
    BY SeqOfAny
  <1>2. /\ DOMAIN u = 1..(Len(s) + Len(t))
        /\ \A n \in 1..Len(s) : u[n] = s[n]
        /\ \A n \in 1..Len(t) : u[Len(s) + n] = t[n]
    BY <1>1, ConcatSeq
  <1> HIDE DEF u
  <1>3. PICK a \in Nat : a = Len(s)
    BY <1>1
  <1>4. PICK b \in Nat : b = Len(t)
    BY <1>1
  <1>5. \A n \in 1..(a + b) : n \in 1..a \/ \E x \in 1..b : n = a + x
    <2> SUFFICES ASSUME NEW n \in 1..(a + b), n \notin 1..a PROVE \E x \in 1..b : n = a + x
      OBVIOUS
    <2>1. n - a \in 1..b /\ n = a + (n - a)
      OBVIOUS
    <2> QED
      BY <2>1
  <1>6. (\A n \in 1..a : n \in 1..(a + b)) /\ \A n \in 1..b : a + n \in 1..(a + b)
    OBVIOUS
  <1>7. SecretsOf(u) \subseteq SecretsOf(s) \union SecretsOf(t)
    <2> SUFFICES ASSUME NEW n \in DOMAIN u PROVE u[n].secret \in SecretsOf(s) \union SecretsOf(t)
      BY DEF SecretsOf
    <2>1. CASE n \in 1..a
      BY <2>1, <1>1, <1>2, <1>3 DEF SecretsOf
    <2>2. CASE \E x \in 1..b : n = a + x
      BY <2>2, <1>1, <1>2, <1>3, <1>4 DEF SecretsOf
    <2> QED
      BY <2>1, <2>2, <1>2, <1>3, <1>4, <1>5
  <1>8. SecretsOf(s) \subseteq SecretsOf(u)
    <2> SUFFICES ASSUME NEW n \in DOMAIN s PROVE s[n].secret \in SecretsOf(u)
      BY DEF SecretsOf
    <2> QED
      BY <1>1, <1>2, <1>3, <1>4, <1>6 DEF SecretsOf
  <1>9. SecretsOf(t) \subseteq SecretsOf(u)
    <2> SUFFICES ASSUME NEW n \in DOMAIN t PROVE t[n].secret \in SecretsOf(u)
      BY DEF SecretsOf
    <2>1. a + n \in DOMAIN u /\ u[a + n] = t[n]
      BY <1>1, <1>2, <1>3, <1>4, <1>6
    <2> QED
      BY <2>1 DEF SecretsOf
  <1>10. SecretsOf(u) = SecretsOf(s) \union SecretsOf(t)
    BY <1>7, <1>8, <1>9
  <1> QED
    BY <1>10 DEF u

\* The TLS entries stay those of the rules when a rule brings its own.
LEMMA JoinsMore ==
  ASSUME NEW list, NEW rules, IsSequence(rules), NEW T, NEW tls \in Seq(T), Joins(list, rules, tls),
         NEW m, Brought(list, m) \in Seq(T),
         NEW more, more = Append(rules, m), NEW joined, joined = tls \o Brought(list, m)
  PROVE  Joins(list, more, joined)
  <1> DEFINE B(x) == Brought(list, rules[x])
             C(x) == Brought(list, more[x])
  <1>1. PICK b \in Seq(T) : b = Brought(list, m)
    OBVIOUS
  <1>2. PICK new : new = Len(rules) + 1
    OBVIOUS
  <1>3. /\ DOMAIN more = DOMAIN rules \union {new} /\ new \notin DOMAIN rules
        /\ (\A x \in DOMAIN rules : C(x) = B(x)) /\ C(new) = b
    <2>1. new \notin DOMAIN rules
      BY <1>2 DEF IsSequence
    <2> QED
      BY <2>1, <1>1, <1>2, AppendOwn
  <1>4. /\ SecretsOf(tls) = UNION {SecretsOf(B(x)) : x \in DOMAIN rules}
        /\ (\A x \in DOMAIN rules : B(x) = <<>>) => tls = <<>>
        /\ \A x \in DOMAIN rules :
             B(x) # <<>> /\ (\A y \in DOMAIN rules : B(y) # <<>> => x = y) => tls = B(x)
        /\ \A x, y \in DOMAIN rules : B(x) # <<>> /\ B(y) # <<>> /\ x # y => Len(tls) > 1
    BY DEF Joins
  <1>5. joined = tls \o b
    BY <1>1
  <1>6. /\ Len(tls) \in Nat /\ Len(b) \in Nat /\ Len(joined) = Len(tls) + Len(b)
        /\ (tls # <<>> => Len(tls) > 0) /\ (b # <<>> => Len(b) > 0)
        /\ (tls = <<>> => joined = b) /\ (b = <<>> => joined = tls)
    BY <1>1, <1>5
  <1>7. SecretsOf(joined) = SecretsOf(tls) \union SecretsOf(b)
    <2>1. SecretsOf(tls \o b) = SecretsOf(tls) \union SecretsOf(b)
      BY <1>1, SecretsOfConcat
    <2> QED
      BY <2>1, <1>5
  <1> HIDE DEF B, C
  <1>8. SecretsOf(joined) = UNION {SecretsOf(C(x)) : x \in DOMAIN more}
    <2>1. UNION {SecretsOf(C(x)) : x \in DOMAIN more}
            = (UNION {SecretsOf(B(x)) : x \in DOMAIN rules}) \union SecretsOf(b)
      BY <1>3
    <2> QED
      BY <2>1, <1>4, <1>7
  <1>9. (\A x \in DOMAIN more : C(x) = <<>>) => joined = <<>>
    BY <1>3, <1>4, <1>6
  <1>10. ASSUME NEW x \in DOMAIN rules, B(x) # <<>> PROVE Len(tls) > 0
    <2>1. CASE \E y \in DOMAIN rules : B(y) # <<>> /\ x # y
      BY <2>1, <1>4, <1>6, <1>10
    <2>2. CASE \A y \in DOMAIN rules : B(y) # <<>> => x = y
      BY <2>2, <1>4, <1>6, <1>10
    <2> QED
      BY <2>1, <2>2
  <1>11. ASSUME NEW x \in DOMAIN more, C(x) # <<>>, \A y \in DOMAIN more : C(y) # <<>> => x = y
         PROVE  joined = C(x)
    <2>1. CASE x = new
      BY <2>1, <1>3, <1>4, <1>6, <1>11
    <2>2. CASE x \in DOMAIN rules
      <3>1. b = <<>>
        BY <2>2, <1>3, <1>11
      <3>2. tls = B(x)
        BY <2>2, <1>3, <1>4, <1>11
      <3> QED
        BY <3>1, <3>2, <1>3, <1>6, <2>2
    <2> QED
      BY <2>1, <2>2, <1>3
  <1>12. ASSUME NEW x \in DOMAIN more, NEW y \in DOMAIN more, C(x) # <<>>, C(y) # <<>>, x # y
         PROVE  Len(joined) > 1
    <2>1. CASE x \in DOMAIN rules /\ y \in DOMAIN rules
      <3>1. Len(tls) > 1
        BY <2>1, <1>3, <1>4, <1>12
      <3> QED
        BY <3>1, <1>6
    <2>2. CASE x = new \/ y = new
      <3>1. Len(b) > 0 /\ Len(tls) > 0
        BY <2>2, <1>3, <1>6, <1>10, <1>12
      <3> QED
        BY <3>1, <1>6
    <2> QED
      BY <2>1, <2>2, <1>3
  <1> QED
    BY <1>8, <1>9, <1>11, <1>12 DEF Joins, C

LEMMA NothingJoins ==
  ASSUME NEW list
  PROVE  Joins(list, <<>>, <<>>)
  <1>1. DOMAIN <<>> = {}
    BY EmptyIsSeq, IsSeqShape
  <1>2. SecretsOf(<<>>) = {} /\ UNION {SecretsOf(Brought(list, <<>>[x])) : x \in DOMAIN <<>>} = {}
    BY <1>1 DEF SecretsOf
  <1> QED
    BY <1>1, <1>2 DEF Joins

\* What addIngressRule makes of a group, or of the group that it starts.
LEMMA GroupJoined ==
  ASSUME TypeInv, AddIngressRule, NEW key, key = KeyOf(ingressList, i, j)
  PROVE  \E rg \in RuleGroup :
           /\ IF key \in DOMAIN ruleGroups THEN rg = ruleGroups[key]
              ELSE rg.name = ingressList[i].name /\ rg.tls = <<>> /\ rg.rules = <<>>
           /\ ruleGroups'[key].name = rg.name
           /\ ruleGroups'[key].tls = rg.tls \o ingressList[i].tls
           /\ ruleGroups'[key].rules = Append(rg.rules, [ingress |-> i, rule |-> j])
  <1> DEFINE ing == ingressList[i]
             rg  == IF key \in DOMAIN ruleGroups
                    THEN ruleGroups[key]
                    ELSE [ns |-> ing.ns, name |-> ing.name, class |-> key.class,
                          host |-> key.host, tls |-> <<>>, rules |-> <<>>]
             mem == [ingress |-> i, rule |-> j]
  <1>0. PICK new : new = [rg EXCEPT !.tls = @ \o ing.tls, !.rules = Append(@, mem)]
    OBVIOUS
  <1>1. /\ phase = "aggregate" /\ i <= Len(ingressList) /\ j <= Len(ing.rules)
        /\ ruleGroups' = Put(ruleGroups, key, new)
    BY <1>0 DEF AddIngressRule, KeyOf
  <1>2. ing \in Ingress /\ j \in DOMAIN ing.rules
    BY AddIngressRuleEffect, ListedIngress DEF TypeInv
  <1>3. key \in RuleGroupKey
    BY AddIngressRuleEffect, ListedRule DEF TypeInv, KeyOf
  <1>4. rg \in RuleGroup
    <2>1. CASE key \in DOMAIN ruleGroups
      BY <2>1 DEF TypeInv, TypeOK, MapOf
    <2>2. CASE key \notin DOMAIN ruleGroups
      <3>1. rg = [ns |-> ing.ns, name |-> ing.name, class |-> key.class,
                  host |-> key.host, tls |-> <<>>, rules |-> <<>>]
        BY <2>2
      <3>2. key.class \in String /\ key.host \in String
        BY <1>3 DEF RuleGroupKey
      <3>3. ing.ns \in String /\ ing.name \in String
        BY <1>2, IngressFields
      <3> HIDE DEF rg, ing
      <3> QED
        BY <3>1, <3>2, <3>3 DEF RuleGroup
    <2> QED
      BY <2>1, <2>2
  <1>5. IF key \in DOMAIN ruleGroups THEN rg = ruleGroups[key]
        ELSE rg.name = ing.name /\ rg.tls = <<>> /\ rg.rules = <<>>
    OBVIOUS
  <1> HIDE DEF ing, rg, mem
  <1>6. new.rules = Append(rg.rules, mem) /\ new.tls = rg.tls \o ing.tls /\ new.name = rg.name
    BY <1>0, <1>4 DEF RuleGroup
  <1>7. ruleGroups'[key] = new
    BY <1>1 DEF Put
  <1> QED
    BY <1>4, <1>5, <1>6, <1>7 DEF ing, mem

LEMMA AddIngressRuleGathered ==
  TypeInv /\ OnceInv /\ GatheredInv /\ AddIngressRule => GatheredInv'
  <1> SUFFICES ASSUME TypeInv, OnceInv, GatheredInv, AddIngressRule,
                      NEW k \in DOMAIN ruleGroups'
               PROVE  Gathered(ingressList, ruleGroups'[k])
    BY DEF GatheredInv, AddIngressRule
  <1>1. PICK key : key = KeyOf(ingressList, i, j)
    OBVIOUS
  <1>2. PICK rg \in RuleGroup :
          /\ IF key \in DOMAIN ruleGroups THEN rg = ruleGroups[key]
             ELSE rg.name = ingressList[i].name /\ rg.tls = <<>> /\ rg.rules = <<>>
          /\ ruleGroups'[key].name = rg.name
          /\ ruleGroups'[key].tls = rg.tls \o ingressList[i].tls
          /\ ruleGroups'[key].rules = Append(rg.rules, [ingress |-> i, rule |-> j])
    BY <1>1, GroupJoined
  <1>3. /\ i \in DOMAIN ingressList /\ DOMAIN ruleGroups' = DOMAIN ruleGroups \union {key}
        /\ \A l \in DOMAIN ruleGroups : l # key => ruleGroups'[l] = ruleGroups[l]
    BY <1>1, AddIngressRuleEffect
  <1>4. CASE k # key
    BY <1>3, <1>4 DEF GatheredInv
  <1>5. CASE k = key
    <2>1. PICK mem : mem = [ingress |-> i, rule |-> j]
      OBVIOUS
    <2>2. PICK new : new = ruleGroups'[key]
      OBVIOUS
    <2>3. IsSequence(rg.rules) /\ rg.tls \in Seq(TLSRecord) /\ Brought(ingressList, mem) \in Seq(TLSRecord)
      <3>1. rg.rules \in Seq([ingress : Nat, rule : Nat]) /\ rg.tls \in Seq(TLSRecord)
        BY <1>2 DEF RuleGroup, TLSRecord
      <3>2. ingressList[i].tls \in Seq(TLSRecord)
        BY <1>3, ListedIngress, IngressFields DEF TypeInv
      <3>3. IsSequence(rg.rules)
        BY <3>1, OwnElements
      <3> QED
        BY <3>1, <3>2, <3>3, <2>1 DEF Brought
    <2>4. /\ rg.rules # <<>> => rg.name = ingressList[rg.rules[1].ingress].name
          /\ rg.rules = <<>> => rg.name = ingressList[i].name
          /\ \A x, y \in DOMAIN rg.rules : x < y => RuleBefore(rg.rules[x], rg.rules[y])
          /\ Joins(ingressList, rg.rules, rg.tls)
      <3>1. CASE key \in DOMAIN ruleGroups
        BY <3>1, <1>2 DEF GatheredInv, Gathered
      <3>2. CASE key \notin DOMAIN ruleGroups
        <4>1. rg.rules = <<>> /\ rg.tls = <<>> /\ rg.name = ingressList[i].name
          BY <3>2, <1>2
        <4>2. DOMAIN rg.rules = {}
          BY <4>1, EmptyIsSeq, IsSeqShape
        <4>3. Joins(ingressList, rg.rules, rg.tls)
          BY <4>1, NothingJoins
        <4> QED
          BY <4>1, <4>2, <4>3
      <3> QED
        BY <3>1, <3>2
    <2>5. \A x \in DOMAIN rg.rules : RuleBefore(rg.rules[x], mem)
      <3>1. phase = "aggregate"
        BY DEF AddIngressRule
      <3>2. CASE key \in DOMAIN ruleGroups
        BY <3>1, <3>2, <1>2, <2>1 DEF OnceInv, GroupsOnce, Passed, RuleBefore
      <3>3. CASE key \notin DOMAIN ruleGroups
        BY <3>3, <1>2, EmptyIsSeq, IsSeqShape
      <3> QED
        BY <3>2, <3>3
    <2>6. new.rules = Append(rg.rules, mem) /\ new.name = rg.name
      BY <1>2, <2>1, <2>2
    <2>7. new.tls = rg.tls \o Brought(ingressList, mem)
      BY <1>2, <2>1, <2>2 DEF Brought
    <2>8. PICK n : n = Len(rg.rules) + 1
      OBVIOUS
    <2>9. /\ n \in Nat \ {0} /\ \A x \in DOMAIN rg.rules : x \in Nat /\ x < n
          /\ rg.rules = <<>> => n = 1
          /\ rg.rules # <<>> => 1 \in DOMAIN rg.rules
      BY <2>3, <2>8 DEF IsSequence
    <2>10. /\ DOMAIN new.rules = DOMAIN rg.rules \union {n}
           /\ \A x \in DOMAIN rg.rules : new.rules[x] = rg.rules[x]
           /\ new.rules[n] = mem
      BY <2>3, <2>6, <2>8, AppendOwn
    <2>11. Joins(ingressList, new.rules, new.tls)
      BY <2>3, <2>4, <2>6, <2>7, JoinsMore
    <2>12. new.rules # <<>>
      BY <2>10, EmptyIsSeq, IsSeqShape
    <2>13. new.name = ingressList[new.rules[1].ingress].name
      <3>1. CASE rg.rules = <<>>
        BY <3>1, <2>1, <2>4, <2>6, <2>9, <2>10
      <3>2. CASE rg.rules # <<>>
        BY <3>2, <2>4, <2>6, <2>9, <2>10
      <3> QED
        BY <3>1, <3>2
    <2>14. \A x, y \in DOMAIN new.rules : x < y => RuleBefore(new.rules[x], new.rules[y])
      BY <2>4, <2>5, <2>9, <2>10
    <2> QED
      BY <1>5, <2>2, <2>11, <2>12, <2>13, <2>14 DEF Gathered
  <1> QED
    BY <1>4, <1>5

LEMMA NextGathered == TypeInv /\ OnceInv /\ GatheredInv /\ [Next]_vars => GatheredInv'
  <1> USE DEF groupVars, pathVars, buildVars, outVars, Goto
  <1> SUFFICES ASSUME TypeInv, OnceInv, GatheredInv, [Next]_vars PROVE GatheredInv'
    OBVIOUS
  <1>1. CASE FromMap
    BY <1>1 DEF FromMap, GatheredInv, TypeInv, Linked, NothingGrouped, EmptyMap
  <1>2. CASE AddIngressRule
    BY <1>2, AddIngressRuleGathered
  <1>3. CASE UNCHANGED vars
    BY <1>3 DEF GatheredInv, vars
  <1>4. CASE Next /\ ~FromMap /\ ~AddIngressRule
    <2>1. UNCHANGED <<ruleGroups, ingressList>>
      BY <1>4 DEF Next, Convert, Terminating, Ended, vars, AddDefaultBackend, SortRuleGroups,
            NextRuleGroup, GroupIngressPath, PathsGrouped, ToHTTPRouteRule, ConfigureBackendRef,
            AppendRule, RouteBuilt, GroupsBuilt, DefaultBackendRoute, DefaultsBuilt, NextGateway,
            AddListener, GatewayBuilt, GatewaysBuilt, IndexRoute, RoutesIndexed
    <2> QED
      BY <2>1 DEF GatheredInv
  <1> QED
    BY <1>1, <1>2, <1>3, <1>4

(***************************************************************************)
(* The groups are those of ConversionOutcome                               *)
(***************************************************************************)
Collected == phase \notin {"list", "aggregate"}

LEMMA MemberIs ==
  ASSUME NEW S, NEW key, NEW m
  PROVE  m \in Members(S, key) <=>
           /\ m = [ing |-> m.ing, rule |-> m.rule]
           /\ m.ing \in S /\ m.rule \in DOMAIN m.ing.rules
           /\ GroupKey(m.ing, m.ing.rules[m.rule].host) = key
  <1>1. ASSUME m \in Members(S, key)
        PROVE  /\ m = [ing |-> m.ing, rule |-> m.rule]
               /\ m.ing \in S /\ m.rule \in DOMAIN m.ing.rules
               /\ GroupKey(m.ing, m.ing.rules[m.rule].host) = key
    BY <1>1 DEF Members
  <1>2. ASSUME m = [ing |-> m.ing, rule |-> m.rule],
               m.ing \in S, m.rule \in DOMAIN m.ing.rules,
               GroupKey(m.ing, m.ing.rules[m.rule].host) = key
        PROVE  m \in Members(S, key)
    <2>1. m \in [ing : {m.ing}, rule : DOMAIN m.ing.rules]
      BY <1>2
    <2> QED
      BY <1>2, <2>1 DEF Members
  <1> QED
    BY <1>1, <1>2

MemberAt(list, m) == [ing |-> list[m.ingress], rule |-> m.rule]

LEMMA GroupMembers ==
  ASSUME TypeInv, OnceInv, ListInv, Collected, NEW k \in DOMAIN ruleGroups
  PROVE  /\ DOMAIN ruleGroups[k].rules = 1..Len(ruleGroups[k].rules) /\ Len(ruleGroups[k].rules) \in Nat
         /\ \A n \in DOMAIN ruleGroups[k].rules :
              MemberAt(ingressList, ruleGroups[k].rules[n]) \in Members(ingresses, k)
         /\ \A m \in Members(ingresses, k) : \E n \in DOMAIN ruleGroups[k].rules :
              MemberAt(ingressList, ruleGroups[k].rules[n]) = m
  <1>1. ruleGroups[k].rules \in Seq([ingress : Nat, rule : Nat])
    BY DEF TypeInv, TypeOK, MapOf, RuleGroup
  <1>2. ASSUME NEW n \in DOMAIN ruleGroups[k].rules, NEW m, m = MemberAt(ingressList, ruleGroups[k].rules[n])
        PROVE  m \in Members(ingresses, k)
    <2>1. InGroup(ingressList, ruleGroups[k].rules[n], k)
      BY DEF TypeInv, Linked, GroupsLinked
    <2>2. m.ing \in ingresses /\ m = [ing |-> m.ing, rule |-> m.rule]
      BY <1>2, <2>1, ListFacts DEF InGroup, MemberAt, Collected
    <2>3. m.ing = ingressList[ruleGroups[k].rules[n].ingress] /\ m.rule = ruleGroups[k].rules[n].rule
      BY <1>2 DEF MemberAt
    <2> QED
      BY <2>1, <2>2, <2>3, MemberIs DEF InGroup
  <1>3. ASSUME NEW m \in Members(ingresses, k)
        PROVE  \E n \in DOMAIN ruleGroups[k].rules : MemberAt(ingressList, ruleGroups[k].rules[n]) = m
    <2>1. /\ m = [ing |-> m.ing, rule |-> m.rule]
          /\ m.ing \in ingresses /\ m.rule \in DOMAIN m.ing.rules
          /\ GroupKey(m.ing, m.ing.rules[m.rule].host) = k
      BY <1>3, MemberIs
    <2>2. PICK x \in DOMAIN ingressList : ingressList[x] = m.ing
      BY <2>1, ListFacts DEF Collected
    <2>3. Grouped(x, m.rule)
      BY <2>1, <2>2 DEF OnceInv, GroupsOnce, Collected, Passed
    <2>4. KeyOf(ingressList, x, m.rule) = k
      BY <2>1, <2>2 DEF KeyOf
    <2>5. PICK n \in DOMAIN ruleGroups[k].rules : ruleGroups[k].rules[n] = [ingress |-> x, rule |-> m.rule]
      BY <2>3, <2>4 DEF Grouped, InSeq
    <2> QED
      BY <2>1, <2>2, <2>5 DEF MemberAt
  <1> QED
    BY <1>1, <1>2, <1>3

LEMMA GroupsAre ==
  ASSUME TypeInv, OnceInv, ListInv, GatheredInv, Collected
  PROVE  DOMAIN ruleGroups = Groups(ingresses)
  <1>1. ASSUME NEW k \in DOMAIN ruleGroups PROVE k \in Groups(ingresses)
    <2>1. ruleGroups[k].rules # <<>>
      BY DEF GatheredInv, Gathered
    <2>2. ruleGroups[k].rules \in Seq([ingress : Nat, rule : Nat])
      BY DEF TypeInv, TypeOK, MapOf, RuleGroup
    <2>3. 1 \in DOMAIN ruleGroups[k].rules
      BY <2>1, <2>2
    <2>4. PICK m : m \in Members(ingresses, k)
      BY <2>3, GroupMembers
    <2>5. m.ing \in ingresses /\ m.rule \in DOMAIN m.ing.rules /\ GroupKey(m.ing, m.ing.rules[m.rule].host) = k
      BY <2>4, MemberIs
    <2> QED
      BY <2>5 DEF Groups, ToSet
  <1>2. ASSUME NEW k \in Groups(ingresses) PROVE k \in DOMAIN ruleGroups
    <2>1. PICK ing \in ingresses : \E r \in DOMAIN ing.rules : k = GroupKey(ing, ing.rules[r].host)
      BY <1>2 DEF Groups, ToSet
    <2>2. PICK r \in DOMAIN ing.rules : k = GroupKey(ing, ing.rules[r].host)
      BY <2>1
    <2>3. PICK x \in DOMAIN ingressList : ingressList[x] = ing
      BY <2>1, ListFacts DEF Collected
    <2>4. Grouped(x, r)
      BY <2>2, <2>3 DEF OnceInv, GroupsOnce, Collected, Passed
    <2> QED
      BY <2>2, <2>3, <2>4 DEF Grouped, KeyOf
  <1> QED
    BY <1>1, <1>2

\* The members of a group are in the order of their names, and all of one
\* namespace.
LEMMA MembersInOrder ==
  ASSUME TypeInv, OnceInv, ListInv, GatheredInv, Collected, NEW k \in DOMAIN ruleGroups,
         NEW x \in DOMAIN ruleGroups[k].rules, NEW y \in DOMAIN ruleGroups[k].rules
  PROVE  /\ x < y => ~Precedes(MemberAt(ingressList, ruleGroups[k].rules[y]).ing.name,
                               MemberAt(ingressList, ruleGroups[k].rules[x]).ing.name)
         /\ MemberAt(ingressList, ruleGroups[k].rules[x])
              = MemberAt(ingressList, ruleGroups[k].rules[y]) => x = y
         /\ MemberAt(ingressList, ruleGroups[k].rules[x]).ing.name \in String
  <1> DEFINE p == ruleGroups[k].rules[x]
             q == ruleGroups[k].rules[y]
  <1>1. \A u, v \in DOMAIN ruleGroups[k].rules :
          u < v => RuleBefore(ruleGroups[k].rules[u], ruleGroups[k].rules[v])
    BY DEF GatheredInv, Gathered
  <1>2. /\ p.ingress \in DOMAIN ingressList /\ q.ingress \in DOMAIN ingressList
        /\ p.rule \in DOMAIN ingressList[p.ingress].rules /\ q.rule \in DOMAIN ingressList[q.ingress].rules
    BY DEF TypeInv, Linked, GroupsLinked, InGroup
  <1>3. /\ x \in Nat /\ y \in Nat /\ p.ingress \in Nat /\ q.ingress \in Nat
        /\ p.rule \in Nat /\ q.rule \in Nat
    <2>1. x \in Nat /\ y \in Nat
      BY GroupMembers
    <2>2. p.ingress \in Nat /\ q.ingress \in Nat /\ p.rule \in Nat /\ q.rule \in Nat
      BY <1>2, RuleNumbers
    <2> QED
      BY <2>1, <2>2
  <1>4. /\ MemberAt(ingressList, p).ing = ingressList[p.ingress] /\ MemberAt(ingressList, p).rule = p.rule
        /\ MemberAt(ingressList, q).ing = ingressList[q.ingress] /\ MemberAt(ingressList, q).rule = q.rule
    BY DEF MemberAt
  <1>5. ingressList[p.ingress] \in ingresses /\ ingressList[p.ingress].name \in String
    BY <1>2, ListFacts, InputShape DEF Collected, TypeInv
  <1> HIDE DEF p, q
  <1>6. ASSUME x < y PROVE ~Precedes(ingressList[q.ingress].name, ingressList[p.ingress].name)
    <2>1. p.ingress < q.ingress \/ p.ingress = q.ingress
      BY <1>1, <1>6 DEF RuleBefore, p, q
    <2> QED
      BY <2>1, <1>2, <1>5, ListFacts, PrecedesIrreflexive DEF Collected
  <1>7. ASSUME ingressList[p.ingress] = ingressList[q.ingress], p.rule = q.rule PROVE x = y
    <2>1. p.ingress = q.ingress
      BY <1>2, <1>7, ListFacts DEF Collected
    <2>2. ~RuleBefore(p, q) /\ ~RuleBefore(q, p)
      BY <1>3, <1>7, <2>1 DEF RuleBefore
    <2> QED
      BY <1>1, <1>3, <2>2 DEF p, q
  <1> QED
    BY <1>4, <1>5, <1>6, <1>7 DEF p, q

\* The Ingress that names a group is the first one of it, or a namesake.
LEMMA GroupOwner ==
  ASSUME TypeInv, OnceInv, ListInv, GatheredInv, Collected, NEW k \in DOMAIN ruleGroups
  PROVE  Owner(ingresses, k).name = ruleGroups[k].name
  <1> DEFINE S     == ingresses
             rules == ruleGroups[k].rules
             At(n) == MemberAt(ingressList, rules[n])
             First(m) == \A n \in Members(S, k) : ~Precedes(n.ing.name, m.ing.name)
             c     == CHOOSE m \in Members(S, k) : First(m)
  <1>1. /\ DOMAIN rules = 1..Len(rules) /\ Len(rules) \in Nat
        /\ \A n \in DOMAIN rules : At(n) \in Members(S, k)
        /\ \A m \in Members(S, k) : \E n \in DOMAIN rules : At(n) = m
    BY GroupMembers
  <1>2. /\ rules # <<>> /\ ruleGroups[k].name = ingressList[rules[1].ingress].name
    BY DEF GatheredInv, Gathered
  <1>3. 1 \in DOMAIN rules
    <2>1. rules \in Seq([ingress : Nat, rule : Nat])
      BY DEF TypeInv, TypeOK, MapOf, RuleGroup
    <2> QED
      BY <2>1, <1>2
  <1>4. \A x, y \in DOMAIN rules : x < y => ~Precedes(At(y).ing.name, At(x).ing.name)
    BY MembersInOrder
  <1>5. \A x \in DOMAIN rules : At(x).ing.name \in String
    BY MembersInOrder
  <1>6. At(1).ing.name = ruleGroups[k].name
    BY <1>2 DEF MemberAt
  <1> HIDE DEF At, rules
  <1>7. First(At(1))
    <2> SUFFICES ASSUME NEW n \in Members(S, k) PROVE ~Precedes(n.ing.name, At(1).ing.name)
      OBVIOUS
    <2>1. PICK x \in DOMAIN rules : At(x) = n
      BY <1>1
    <2>2. x = 1 \/ 1 < x
      BY <1>1, <2>1
    <2> QED
      BY <2>1, <2>2, <1>3, <1>4, <1>5, PrecedesIrreflexive
  <1>8. c \in Members(S, k) /\ First(c)
    BY <1>1, <1>3, <1>7
  <1>9. Owner(S, k) = c.ing
    BY DEF Owner
  <1> HIDE DEF c
  <1>10. ~Precedes(At(1).ing.name, c.ing.name) /\ ~Precedes(c.ing.name, At(1).ing.name)
    BY <1>1, <1>3, <1>7, <1>8
  <1>11. c.ing.name \in String /\ At(1).ing.name \in String
    BY <1>1, <1>3, <1>5, <1>8
  <1>12. c.ing.name = At(1).ing.name
    BY <1>10, <1>11, PrecedesTotal
  <1> QED
    BY <1>6, <1>9, <1>12

(***************************************************************************)
(* The listeners of a group                                                *)
(***************************************************************************)
LEMMA GroupSecretsAre ==
  ASSUME TypeInv, OnceInv, ListInv, GatheredInv, Collected, NEW k \in DOMAIN ruleGroups
  PROVE  GroupSecrets(ingresses, k) = SecretsOf(ruleGroups[k].tls)
  <1> DEFINE rules == ruleGroups[k].rules
             At(n) == MemberAt(ingressList, rules[n])
             B(n)  == Brought(ingressList, rules[n])
  <1>1. /\ \A n \in DOMAIN rules : At(n) \in Members(ingresses, k)
        /\ \A m \in Members(ingresses, k) : \E n \in DOMAIN rules : At(n) = m
    BY GroupMembers
  <1>2. SecretsOf(ruleGroups[k].tls) = UNION {SecretsOf(B(n)) : n \in DOMAIN rules}
    BY DEF GatheredInv, Gathered, Joins
  <1>3. \A n \in DOMAIN rules : At(n).ing.tls = B(n)
    BY DEF MemberAt, Brought
  <1> HIDE DEF At, B, rules
  <1>4. \A tls : ToSet(Secrets(tls)) = SecretsOf(tls)
    BY DEF Secrets, ToSet, SecretsOf
  <1>5. GroupSecrets(ingresses, k) = UNION {SecretsOf(m.ing.tls) : m \in Members(ingresses, k)}
    BY <1>4 DEF GroupSecrets
  <1> QED
    BY <1>1, <1>2, <1>3, <1>5

LEMMA GroupHostIs ==
  ASSUME TypeInv, OnceInv, ListInv, GatheredInv, Collected, NEW k \in DOMAIN ruleGroups
  PROVE  GroupHost(ingresses, k) = ListenerHost(ruleGroups[k])
  <1> DEFINE rules   == ruleGroups[k].rules
             tls     == ruleGroups[k].tls
             At(n)   == MemberAt(ingressList, rules[n])
             B(n)    == Brought(ingressList, rules[n])
             withTLS == {m \in Members(ingresses, k) : m.ing.tls # <<>>}
             lent(t) == IF Len(t) = 1 /\ Len(t[1].hosts) = 1 THEN t[1].hosts[1] ELSE <<>>
             chosen  == (CHOOSE m \in withTLS : TRUE).ing.tls
  <1>1. k.host = ruleGroups[k].host
    BY DEF TypeInv, Linked, GroupsLinked
  <1>2. /\ \A n \in DOMAIN rules : At(n) \in Members(ingresses, k)
        /\ \A m \in Members(ingresses, k) : \E n \in DOMAIN rules : At(n) = m
    BY GroupMembers
  <1>3. \A n \in DOMAIN rules : At(n).ing.tls = B(n)
    BY DEF MemberAt, Brought
  <1>4. \A x, y \in DOMAIN rules : At(x) = At(y) => x = y
    BY MembersInOrder
  <1>5. /\ (\A x \in DOMAIN rules : B(x) = <<>>) => tls = <<>>
        /\ \A x \in DOMAIN rules :
             B(x) # <<>> /\ (\A y \in DOMAIN rules : B(y) # <<>> => x = y) => tls = B(x)
        /\ \A x, y \in DOMAIN rules : B(x) # <<>> /\ B(y) # <<>> /\ x # y => Len(tls) > 1
    BY DEF GatheredInv, Gathered, Joins
  <1>6. IsFiniteSet(withTLS)
    <2>1. IsFiniteSet(Members(ingresses, k))
      BY MembersFinite DEF TypeInv
    <2> QED
      BY <2>1, FS_Subset
  <1>7. \A n \in DOMAIN rules : B(n) # <<>> => At(n) \in withTLS
    BY <1>2, <1>3
  <1>8. \A m \in withTLS : \E n \in DOMAIN rules : At(n) = m /\ B(n) # <<>>
    BY <1>2, <1>3
  <1>9. GroupHost(ingresses, k) = IF k.host = <<>> /\ Cardinality(withTLS) = 1
                                     /\ Len(chosen) = 1 /\ Len(chosen[1].hosts) = 1
                                  THEN chosen[1].hosts[1] ELSE k.host
    BY DEF GroupHost
  <1>10. ListenerHost(ruleGroups[k]) = IF k.host # <<>> THEN k.host ELSE lent(tls)
    BY <1>1 DEF ListenerHost
  <1>11. CASE k.host # <<>>
    BY <1>9, <1>10, <1>11
  <1>12. CASE k.host = <<>> /\ \A x \in DOMAIN rules : B(x) = <<>>
    <2>1. withTLS = {}
      BY <1>8, <1>12
    <2>2. Cardinality(withTLS) = 0
      BY <2>1, FS_EmptySet
    <2>3. tls = <<>> /\ Len(tls) = 0
      BY <1>5, <1>12, EmptyIsSeq
    <2> HIDE DEF withTLS, tls
    <2> QED
      BY <1>9, <1>10, <1>12, <2>2, <2>3
  <1>13. CASE /\ k.host = <<>>
              /\ \E x \in DOMAIN rules : B(x) # <<>> /\ \A y \in DOMAIN rules : B(y) # <<>> => x = y
    <2>1. PICK x \in DOMAIN rules : B(x) # <<>> /\ \A y \in DOMAIN rules : B(y) # <<>> => x = y
      BY <1>13
    <2>2. tls = B(x)
      BY <1>5, <2>1
    <2>3. withTLS = {At(x)}
      BY <1>7, <1>8, <2>1
    <2> HIDE DEF withTLS, At, B, rules, tls
    <2>4. Cardinality(withTLS) = 1
      BY <2>3, FS_Singleton
    <2>5. (CHOOSE m \in withTLS : TRUE) = At(x)
      BY <2>3
    <2>6. chosen = tls
      BY <1>3, <2>1, <2>2, <2>5
    <2> HIDE DEF chosen
    <2> QED
      BY <1>9, <1>10, <1>13, <2>4, <2>6
  <1>14. CASE /\ k.host = <<>>
              /\ \E x, y \in DOMAIN rules : B(x) # <<>> /\ B(y) # <<>> /\ x # y
    <2>1. PICK x \in DOMAIN rules : \E y \in DOMAIN rules : B(x) # <<>> /\ B(y) # <<>> /\ x # y
      BY <1>14
    <2>2. PICK y \in DOMAIN rules : B(x) # <<>> /\ B(y) # <<>> /\ x # y
      BY <2>1
    <2>3. Len(tls) > 1
      BY <1>5, <2>2
    <2>4. At(x) # At(y) /\ At(x) \in withTLS /\ At(y) \in withTLS
      BY <1>4, <1>7, <2>2
    <2> HIDE DEF withTLS, At, B, rules
    <2>5. ~\E z : withTLS = {z}
      BY <2>4
    <2>6. Cardinality(withTLS) # 1
      BY <1>6, <2>5, FS_Singleton
    <2>7. Len(tls) # 1
      <3>1. tls \in Seq(TLSRecord)
        BY DEF TypeInv, TypeOK, MapOf, RuleGroup, TLSRecord
      <3>2. Len(tls) \in Nat
        BY <3>1
      <3>3. PICK n \in Nat : n = Len(tls)
        BY <3>2
      <3>4. n > 1
        BY <2>3, <3>3
      <3>5. n # 1
        BY <3>4
      <3> QED
        BY <3>3, <3>5
    <2> HIDE DEF tls
    <2> QED
      BY <1>9, <1>10, <1>14, <2>6, <2>7
  <1> QED
    BY <1>11, <1>12, <1>13, <1>14

LEMMA OneAfterOther ==
  ASSUME NEW a, NEW b
  PROVE  <<a>> \o <<>> = <<a>> /\ <<a>> \o <<b>> = <<a, b>>
  <1>1. <<a>> \in Seq({a, b}) /\ <<b>> \in Seq({a, b}) /\ <<>> \in Seq({a, b})
    OBVIOUS
  <1>2. <<a>> \o <<>> = <<a>>
    BY <1>1
  <1>3. <<a>> \o <<b>> = <<a, b>>
    <2>1. PICK u : u = <<a>> \o <<b>>
      OBVIOUS
    <2>2. /\ IsSeq(u) /\ Len(u) = 2 /\ DOMAIN u = 1..2 /\ u[1] = a /\ u[2] = b
      <3>1. Len(<<a>>) = 1 /\ Len(<<b>>) = 1 /\ <<a>>[1] = a /\ <<b>>[1] = b
        OBVIOUS
      <3>2. 1 + 1 = 2 /\ 1 \in 1..1
        OBVIOUS
      <3> QED
        BY <2>1, <3>1, <3>2, SingleIsSeq, ConcatSeq
    <2>3. u \in Seq({a, b})
      BY <1>1, <2>1
    <2>4. PICK v : v = <<a, b>>
      OBVIOUS
    <2>5. v \in Seq({a, b}) /\ Len(v) = 2 /\ DOMAIN v = 1..2 /\ v[1] = a /\ v[2] = b
      BY <2>4
    <2>6. \A n \in 1..2 : n = 1 \/ n = 2
      OBVIOUS
    <2>7. u = v
      BY <2>2, <2>3, <2>5, <2>6, SameSeq
    <2> QED
      BY <2>1, <2>4, <2>7
  <1> QED
    BY <1>2, <1>3

\* What GatewayListeners makes of a group's listener is the group's.
LEMMA GroupListenersAre ==
  ASSUME TypeInv, OnceInv, ListInv, GatheredInv, Collected, NEW k \in DOMAIN ruleGroups
  PROVE  /\ DOMAIN GroupListeners(ingresses, k) = DOMAIN GatewayListeners(ListenerOf(ruleGroups[k]))
         /\ \A n \in DOMAIN GroupListeners(ingresses, k) :
              GroupListeners(ingresses, k)[n]
                = AbstractListener(GatewayListeners(ListenerOf(ruleGroups[k]))[n])
  <1> DEFINE l     == ListenerOf(ruleGroups[k])
             host  == GroupHost(ingresses, k)
             certs == GroupSecrets(ingresses, k)
             made(scheme, port, c) ==
               [name |-> ListenerName(host, scheme), host |-> host, port |-> port, certs |-> c]
  <1>1. l.host = host /\ l.certs = Secrets(ruleGroups[k].tls)
    BY GroupHostIs DEF ListenerOf
  <1>2. ruleGroups[k].tls \in Seq(TLSRecord)
    BY DEF TypeInv, TypeOK, MapOf, RuleGroup, TLSRecord
  <1>3. ToSet(l.certs) = certs
    BY <1>1, GroupSecretsAre DEF Secrets, ToSet, SecretsOf
  <1>4. l.certs = <<>> <=> certs = {}
    <2>1. l.certs = <<>> <=> ruleGroups[k].tls = <<>>
      BY <1>1, <1>2, SecretsEmpty
    <2>2. ruleGroups[k].tls = <<>> <=> SecretsOf(ruleGroups[k].tls) = {}
      <3>1. PICK tls \in Seq(TLSRecord) : tls = ruleGroups[k].tls
        BY <1>2
      <3>2. Len(tls) \in Nat /\ DOMAIN tls = 1..Len(tls)
        BY <3>1, SeqOfAny
      <3>3. tls # <<>> => 1 \in DOMAIN tls
        BY <3>1
      <3>4. tls = <<>> => DOMAIN tls = {}
        BY EmptyIsSeq, IsSeqShape
      <3> QED
        BY <3>1, <3>3, <3>4 DEF SecretsOf
    <2> QED
      BY <2>1, <2>2, GroupSecretsAre
  <1>5. GroupListeners(ingresses, k)
          = <<made("http", 80, {})>> \o IF certs = {} THEN <<>> ELSE <<made("https", 443, certs)>>
    BY DEF GroupListeners
  <1>6. GatewayListeners(l)
          = <<made("http", 80, <<>>)>> \o IF l.certs = <<>> THEN <<>> ELSE <<made("https", 443, l.certs)>>
    BY <1>1 DEF GatewayListeners
  <1> HIDE DEF l, host, certs
  <1>7. \A scheme, port, c : AbstractListener(made(scheme, port, c)) = made(scheme, port, ToSet(c))
    BY DEF AbstractListener
  <1>8. ToSet(<<>>) = {}
    BY DEF ToSet
  <1> HIDE DEF made
  <1>0. /\ \A a : <<a>> \o <<>> = <<a>>
        /\ \A a, b : <<a>> \o <<b>> = <<a, b>>
    BY OneAfterOther
  <1>9. CASE certs = {}
    <2>1. GroupListeners(ingresses, k) = <<made("http", 80, {})>> /\ GatewayListeners(l) = <<made("http", 80, <<>>)>>
      BY <1>0, <1>4, <1>5, <1>6, <1>9
    <2>2. AbstractListener(made("http", 80, <<>>)) = made("http", 80, {})
      BY <1>7, <1>8
    <2> QED
      BY <2>1, <2>2, SingleIsSeq DEF l
  <1>10. CASE certs # {}
    <2>1. GroupListeners(ingresses, k) = <<made("http", 80, {}), made("https", 443, certs)>>
      BY <1>0, <1>5, <1>10
    <2>2. GatewayListeners(l) = <<made("http", 80, <<>>), made("https", 443, l.certs)>>
      BY <1>0, <1>4, <1>6, <1>10
    <2>3. AbstractListener(made("http", 80, <<>>)) = made("http", 80, {})
      BY <1>7, <1>8
    <2>4. AbstractListener(made("https", 443, l.certs)) = made("https", 443, certs)
      BY <1>3, <1>7
    <2>5. \A x, y : DOMAIN <<x, y>> = {1, 2} /\ <<x, y>>[1] = x /\ <<x, y>>[2] = y
      OBVIOUS
    <2> QED
      BY <2>1, <2>2, <2>3, <2>4, <2>5 DEF l
  <1> QED
    BY <1>9, <1>10

(***************************************************************************)
(* The paths of a group are grouped in order                               *)
(***************************************************************************)
LEMMA JoinPathsInOrder ==
  ASSUME TypeInv, OnceInv, GatheredInv, PathsInOrder, GroupIngressPath, j' = j + 1, UNCHANGED <<phase, i>>
  PROVE  PathsInOrder'
  <1>1. PICK p : p = [ingress |-> ruleGroups[current].rules[i].ingress,
                      rule |-> ruleGroups[current].rules[i].rule, path |-> j]
    OBVIOUS
  <1>2. PICK key : key = PathMatchKey(PathAt(p))
    OBVIOUS
  <1>3. /\ phase = "paths" /\ i <= Len(ruleGroups[current].rules) /\ Building
        /\ UNCHANGED <<ingressList, ruleGroups, current>>
    BY DEF GroupIngressPath, groupVars, Building
  <1>4. /\ DOMAIN pathsByKey' = DOMAIN pathsByKey \union {key}
        /\ \A k \in DOMAIN pathsByKey : k # key => pathsByKey'[k] = pathsByKey[k]
        /\ matchKeys' = IF key \in DOMAIN pathsByKey THEN matchKeys ELSE Append(matchKeys, key)
    BY <1>1, <1>2, GroupIngressPathEffect
  <1>5. PICK old : /\ IsSequence(old)
                   /\ IF key \in DOMAIN pathsByKey THEN old = pathsByKey[key]
                                                   ELSE old = <<>>
                   /\ pathsByKey'[key] = Append(old, p)
    BY <1>1, <1>2, GroupIngressPathEffect
  <1>6. /\ \A k \in DOMAIN pathsByKey :
             /\ pathsByKey[k] # <<>>
             /\ \A x, y \in DOMAIN pathsByKey[k] :
                  x < y => PathBefore(pathsByKey[k][x], pathsByKey[k][y])
        /\ \A x, y \in DOMAIN matchKeys :
             x < y => PathBefore(pathsByKey[matchKeys[x]][1], pathsByKey[matchKeys[y]][1])
    BY <1>3 DEF PathsInOrder
  <1>7. ASSUME NEW k \in DOMAIN pathsByKey, NEW n \in DOMAIN pathsByKey[k]
        PROVE  PathBefore(pathsByKey[k][n], p)
    <2>1. PICK q : q = pathsByKey[k][n]
      OBVIOUS
    <2>2. Visited(q)
      BY <1>3, <2>1 DEF OnceInv, PathsOnce
    <2>3. PICK x \in DOMAIN ruleGroups[current].rules :
            /\ ruleGroups[current].rules[x] = [ingress |-> q.ingress, rule |-> q.rule]
            /\ x < i \/ (x = i /\ q.path < j)
      BY <1>3, <2>2 DEF Visited
    <2>4. current \in DOMAIN ruleGroups
      BY <1>3 DEF TypeInv, Linked, PathsLinked
    <2>5. i \in DOMAIN ruleGroups[current].rules
      <3>1. ruleGroups[current].rules \in Seq([ingress : Nat, rule : Nat])
        BY <2>4 DEF TypeInv, TypeOK, MapOf, RuleGroup
      <3> QED
        BY <3>1, <1>3 DEF TypeInv, TypeOK
    <2>6. x < i => RuleBefore(ruleGroups[current].rules[x], ruleGroups[current].rules[i])
      BY <2>3, <2>4, <2>5 DEF GatheredInv, Gathered
    <2> QED
      BY <1>1, <2>1, <2>3, <2>6 DEF PathBefore, RuleBefore
  <1>8. IsSequence(matchKeys) /\ \A n \in DOMAIN matchKeys : matchKeys[n] \in DOMAIN pathsByKey
    BY <1>3, OwnElements DEF TypeInv, TypeOK, Linked, PathsLinked, Building
  <1>9. PICK new : new = Len(old) + 1
    OBVIOUS
  <1>10. /\ DOMAIN pathsByKey'[key] = DOMAIN old \union {new} /\ new \in Nat \ {0}
         /\ \A x \in DOMAIN old : x \in Nat /\ x < new /\ pathsByKey'[key][x] = old[x]
         /\ pathsByKey'[key][new] = p
    <2>1. new \in Nat \ {0} /\ \A x \in DOMAIN old : x \in Nat /\ x < new
      BY <1>5, <1>9 DEF IsSequence
    <2> QED
      BY <2>1, <1>5, <1>9, AppendOwn
  <1>11. IF key \in DOMAIN pathsByKey THEN 1 \in DOMAIN old /\ old = pathsByKey[key]
                                      ELSE DOMAIN old = {} /\ new = 1
    <2>1. CASE key \in DOMAIN pathsByKey
      <3>1. old # <<>> /\ old = pathsByKey[key]
        BY <1>5, <1>6, <2>1
      <3>2. 1 \in DOMAIN old
        BY <3>1, <1>5 DEF IsSequence
      <3> QED
        BY <2>1, <3>1, <3>2
    <2>2. CASE key \notin DOMAIN pathsByKey
      <3>1. DOMAIN old = {} /\ Len(old) = 0
        BY <2>2, <1>5, EmptyIsSeq, IsSeqShape
      <3> QED
        BY <2>2, <3>1, <1>9
    <2> QED
      BY <2>1, <2>2
  <1> HIDE <1>1, <1>2, <1>5, <1>9
  <1>12. pathsByKey'[key] # <<>>
    BY <1>10, EmptyIsSeq, IsSeqShape
  <1>13. ASSUME NEW x \in DOMAIN pathsByKey'[key], NEW y \in DOMAIN pathsByKey'[key], x < y
         PROVE  PathBefore(pathsByKey'[key][x], pathsByKey'[key][y])
    <2>1. x \in DOMAIN old
      <3>1. x # new
        BY <1>10, <1>13
      <3> QED
        BY <3>1, <1>10
    <2>2. key \in DOMAIN pathsByKey /\ old = pathsByKey[key]
      BY <2>1, <1>11
    <2>3. CASE y = new
      BY <2>1, <2>2, <2>3, <1>7, <1>10
    <2>4. CASE y \in DOMAIN old
      BY <2>1, <2>2, <2>4, <1>6, <1>10, <1>13
    <2> QED
      BY <2>3, <2>4, <1>10
  <1>14. \A k \in DOMAIN pathsByKey' :
           /\ pathsByKey'[k] # <<>>
           /\ \A x, y \in DOMAIN pathsByKey'[k] :
                x < y => PathBefore(pathsByKey'[k][x], pathsByKey'[k][y])
    BY <1>4, <1>6, <1>12, <1>13
  <1>15. \A k \in DOMAIN pathsByKey : 1 \in DOMAIN pathsByKey[k] /\ pathsByKey'[k][1] = pathsByKey[k][1]
    <2> SUFFICES ASSUME NEW k \in DOMAIN pathsByKey
                 PROVE  1 \in DOMAIN pathsByKey[k] /\ pathsByKey'[k][1] = pathsByKey[k][1]
      OBVIOUS
    <2>1. CASE k = key
      BY <2>1, <1>10, <1>11
    <2>2. CASE k # key
      <3>1. pathsByKey[k] \in Seq(Pointer)
        BY DEF TypeInv, TypeOK, MapOf
      <3> QED
        BY <3>1, <2>2, <1>4, <1>6
    <2> QED
      BY <2>1, <2>2
  <1>16. \A x, y \in DOMAIN matchKeys' :
           x < y => PathBefore(pathsByKey'[matchKeys'[x]][1], pathsByKey'[matchKeys'[y]][1])
    <2>1. CASE key \in DOMAIN pathsByKey
      BY <2>1, <1>4, <1>6, <1>8, <1>15
    <2>2. CASE key \notin DOMAIN pathsByKey
      <3>1. pathsByKey'[key][1] = p
        BY <2>2, <1>10, <1>11
      <3>2. PICK last : last = Len(matchKeys) + 1
        OBVIOUS
      <3>3. /\ DOMAIN matchKeys' = DOMAIN matchKeys \union {last} /\ matchKeys'[last] = key
            /\ \A x \in DOMAIN matchKeys : x \in Nat /\ x < last /\ matchKeys'[x] = matchKeys[x]
            /\ last \in Nat
        <4>1. matchKeys' = Append(matchKeys, key)
          BY <2>2, <1>4
        <4>2. last \in Nat /\ \A x \in DOMAIN matchKeys : x \in Nat /\ x < last
          BY <1>8, <3>2 DEF IsSequence
        <4> QED
          BY <4>1, <4>2, <1>8, <3>2, AppendOwn
      <3> SUFFICES ASSUME NEW x \in DOMAIN matchKeys', NEW y \in DOMAIN matchKeys', x < y
                   PROVE  PathBefore(pathsByKey'[matchKeys'[x]][1], pathsByKey'[matchKeys'[y]][1])
        OBVIOUS
      <3>4. x \in DOMAIN matchKeys
        <4>1. x # last
          BY <3>3
        <4> QED
          BY <4>1, <3>3
      <3>5. pathsByKey'[matchKeys'[x]][1] = pathsByKey[matchKeys[x]][1]
        BY <3>3, <3>4, <1>8, <1>15
      <3>6. CASE y = last
        BY <3>1, <3>3, <3>4, <3>5, <3>6, <1>7, <1>8, <1>15
      <3>7. CASE y \in DOMAIN matchKeys
        <4>1. pathsByKey'[matchKeys'[y]][1] = pathsByKey[matchKeys[y]][1]
          BY <3>3, <3>7, <1>8, <1>15
        <4> QED
          BY <4>1, <3>4, <3>5, <3>7, <1>6
      <3> QED
        BY <3>6, <3>7, <3>3
    <2> QED
      BY <2>1, <2>2
  <1> QED
    BY <1>14, <1>16 DEF PathsInOrder

LEMMA NextPathsInOrder ==
  TypeInv /\ OnceInv /\ GatheredInv /\ PathsInOrder /\ [Next]_vars => PathsInOrder'
  <1> USE DEF groupVars, pathVars, buildVars, outVars, Goto
  <1> SUFFICES ASSUME TypeInv, OnceInv, GatheredInv, PathsInOrder, [Next]_vars PROVE PathsInOrder'
    OBVIOUS
  <1>1. CASE GroupIngressPath
    <2>1. \/ phase' = "panicked"
          \/ j' = j + 1 /\ UNCHANGED <<phase, i>>
          \/ UNCHANGED <<phase, pathVars>>
      BY <1>1 DEF GroupIngressPath
    <2> QED
      BY <1>1, <2>1, JoinPathsInOrder DEF PathsInOrder, Building
  <1>2. CASE NextRuleGroup
    <2>1. pathsByKey' = EmptyMap /\ matchKeys' = <<>>
      BY <1>2 DEF NextRuleGroup
    <2>2. DOMAIN pathsByKey' = {} /\ DOMAIN matchKeys' = {}
      BY <2>1, EmptyIsSeq, IsSeqShape DEF EmptyMap
    <2> QED
      BY <2>2 DEF PathsInOrder
  <1>3. CASE UNCHANGED vars
    BY <1>3 DEF PathsInOrder, Building, vars
  <1>4. CASE Next /\ ~GroupIngressPath /\ ~NextRuleGroup
    <2>1. UNCHANGED <<matchKeys, pathsByKey>> /\ (Building' => Building)
      BY <1>4 DEF Next, Convert, Terminating, Ended, vars, FromMap, AddIngressRule, AddDefaultBackend,
            SortRuleGroups, PathsGrouped, ToHTTPRouteRule, ConfigureBackendRef,
            AppendRule, RouteBuilt, GroupsBuilt, DefaultBackendRoute, DefaultsBuilt, NextGateway,
            AddListener, GatewayBuilt, GatewaysBuilt, IndexRoute, RoutesIndexed, Building, AfterGateways
    <2> QED
      BY <2>1 DEF PathsInOrder
  <1> QED
    BY <1>1, <1>2, <1>3, <1>4

\* The route under construction has the name of its group.
LEMMA NextRouteNamed == TypeInv /\ RouteNamed /\ [Next]_vars => RouteNamed'
  <1> USE DEF groupVars, pathVars, buildVars, outVars, Goto
  <1> SUFFICES ASSUME TypeInv, RouteNamed, [Next]_vars PROVE RouteNamed'
    OBVIOUS
  <1>1. CASE NextRuleGroup
    <2>1. PICK k \in pending :
            /\ route' = [ns |-> ruleGroups[k].ns, name |-> RouteName(ruleGroups[k].name, ruleGroups[k].host),
                         class |-> ruleGroups[k].class, host |-> ruleGroups[k].host,
                         rules |-> <<>>, sources |-> <<>>]
            /\ current' = k /\ ruleGroups' = ruleGroups /\ phase = "groups"
      BY <1>1 DEF NextRuleGroup
    <2>2. k.host = ruleGroups[k].host
      BY <2>1 DEF TypeInv, Linked, GroupsLinked, PendingLinked
    <2> QED
      BY <2>1, <2>2 DEF RouteNamed
  <1>2. CASE AppendRule
    <2>1. IsRoute(route) /\ rule \in RuleWithSources /\ Building
      BY <1>2 DEF AppendRule, TypeInv, Linked, PathsLinked, RuleLinked, Building
    <2>2. PICK r \in Rule : route' = WithRule(route, r, rule.sources)
      BY <1>2, <2>1 DEF AppendRule, RuleWithSources, Rule
    <2>3. rule.sources \in Seq(Pointer)
      BY <2>1 DEF RuleWithSources
    <2>4. route'.name = route.name
      BY <2>1, <2>2, <2>3, ExtendRoute
    <2> QED
      BY <1>2, <2>1, <2>4 DEF AppendRule, RouteNamed
  <1>3. CASE UNCHANGED vars
    BY <1>3 DEF RouteNamed, Building, vars
  <1>4. CASE Next /\ ~AppendRule /\ ~NextRuleGroup
    <2>1. Building' => Building /\ UNCHANGED <<route, current, ruleGroups>>
      BY <1>4 DEF Next, Convert, Terminating, Ended, vars, FromMap, AddIngressRule, AddDefaultBackend,
            SortRuleGroups, GroupIngressPath, PathsGrouped, ToHTTPRouteRule, ConfigureBackendRef,
            RouteBuilt, GroupsBuilt, DefaultBackendRoute, DefaultsBuilt, NextGateway,
            AddListener, GatewayBuilt, GatewaysBuilt, IndexRoute, RoutesIndexed, Building, AfterGateways
    <2> QED
      BY <2>1 DEF RouteNamed
  <1> QED
    BY <1>1, <1>2, <1>3, <1>4

(***************************************************************************)
(* Lists that are the rules of a group                                     *)
(***************************************************************************)
\* The match keys in the order of their first places, and for each of them its
\* places in order.
ListsRules(S, key, c, keys, lists) ==
  /\ c \in Nat /\ keys = [x \in 1..c |-> keys[x]]
  /\ \A x, z \in 1..c : keys[x] = keys[z] => x = z
  /\ \A x \in 1..c :
       /\ Len(lists[x]) \in Nat /\ lists[x] = [y \in 1..Len(lists[x]) |-> lists[x][y]]
       /\ 1 \in 1..Len(lists[x])
       /\ \A y \in 1..Len(lists[x]) :
            lists[x][y] \in Places(S, key) /\ PathMatchKey(PathOf(lists[x][y])) = keys[x]
       /\ \A y, z \in 1..Len(lists[x]) : y < z => Before(lists[x][y], lists[x][z])
  /\ \A p \in Places(S, key) : \E x \in 1..c : \E y \in 1..Len(lists[x]) : lists[x][y] = p
  /\ \A x, z \in 1..c : x < z => Before(lists[x][1], lists[z][1])

LEMMA RulesAre ==
  ASSUME NEW S \in Inputs, NEW key, NEW c, NEW keys, NEW lists, ListsRules(S, key, c, keys, lists)
  PROVE  Rules(S, key) = [x \in 1..c |-> [match |-> ToHTTPRouteMatch(keys[x]), sources |-> lists[x]]]
  <1> DEFINE places  == Places(S, key)
             matches == {PathMatchKey(PathOf(p)) : p \in places}
             sharing == [match \in matches |-> {p \in places : PathMatchKey(PathOf(p)) = match}]
             first   == [match \in matches |->
                           CHOOSE p \in sharing[match] :
                             \A q \in sharing[match] : p = q \/ Before(p, q)]
             order   == {m \in matches \X matches : Before(first[m[1]], first[m[2]])}
             pairs   == {p \in places \X places : Before(p[1], p[2])}
             sorted(match) == Ordered(sharing[match], pairs)
             size(x) == Len(lists[x])
  <1>1. Rules(S, key) = [n \in DOMAIN Ordered(matches, order) |->
                           [match   |-> ToHTTPRouteMatch(Ordered(matches, order)[n]),
                            sources |-> sorted(Ordered(matches, order)[n])]]
    BY DEF Rules
  <1>2. IsFiniteSet(places) /\ IsOrder(places, pairs)
    BY PlacesFinite, BeforeIsOrder DEF BeforeIn
  <1>3. \A p, q \in places : <<p, q>> \in pairs <=> Before(p, q)
    OBVIOUS
  <1>4. /\ c \in Nat /\ keys = [x \in 1..c |-> keys[x]]
        /\ \A x, z \in 1..c : keys[x] = keys[z] => x = z
    BY DEF ListsRules
  <1>5. \A x \in 1..c :
          /\ size(x) \in Nat /\ lists[x] = [y \in 1..size(x) |-> lists[x][y]] /\ 1 \in 1..size(x)
          /\ \A y \in 1..size(x) : lists[x][y] \in places /\ PathMatchKey(PathOf(lists[x][y])) = keys[x]
          /\ \A y, z \in 1..size(x) : y < z => Before(lists[x][y], lists[x][z])
    BY DEF ListsRules
  <1>6. \A p \in places : \E x \in 1..c : \E y \in 1..size(x) : lists[x][y] = p
    BY DEF ListsRules
  <1>7. \A x, z \in 1..c : x < z => Before(lists[x][1], lists[z][1])
    BY DEF ListsRules
  <1>8. \A match \in matches :
          /\ sharing[match] \subseteq places
          /\ \A p \in places : p \in sharing[match] <=> PathMatchKey(PathOf(p)) = match
    OBVIOUS
  <1>9. \A match \in matches :
          first[match] = CHOOSE p \in sharing[match] : \A q \in sharing[match] : p = q \/ Before(p, q)
    OBVIOUS
  <1>10. \A m, n \in matches : <<m, n>> \in order <=> Before(first[m], first[n])
    BY DEF order
  <1>11. IsFiniteSet(matches)
    <2> DEFINE f == [p \in places |-> PathMatchKey(PathOf(p))]
    <2>1. matches = {f[p] : p \in DOMAIN f} /\ DOMAIN f = places
      OBVIOUS
    <2> HIDE DEF f, matches
    <2> QED
      BY <1>2, <2>1, ImageFinite
  <1>12. /\ \A x \in 1..c : keys[x] \in matches
         /\ \A match \in matches : \E x \in 1..c : keys[x] = match
    <2>1. ASSUME NEW x \in 1..c PROVE keys[x] \in matches
      <3>1. lists[x][1] \in places /\ PathMatchKey(PathOf(lists[x][1])) = keys[x]
        BY <1>5
      <3> QED
        BY <3>1
    <2>2. ASSUME NEW match \in matches PROVE \E x \in 1..c : keys[x] = match
      <3>1. PICK p \in places : PathMatchKey(PathOf(p)) = match
        BY <2>2
      <3>2. PICK x \in 1..c : \E y \in 1..size(x) : lists[x][y] = p
        BY <1>6
      <3>3. PICK y \in 1..size(x) : lists[x][y] = p
        BY <3>2
      <3>4. PathMatchKey(PathOf(lists[x][y])) = keys[x]
        BY <1>5
      <3> QED
        BY <3>1, <3>3, <3>4
    <2> HIDE DEF matches
    <2> QED
      BY <2>1, <2>2
  <1> HIDE DEF places, pairs, sharing, first, order, size, matches
  <1>13. ASSUME NEW x \in 1..c, NEW q \in sharing[keys[x]]
         PROVE  \E y \in 1..size(x) : lists[x][y] = q
    <2>1. q \in places /\ PathMatchKey(PathOf(q)) = keys[x]
      BY <1>8, <1>12, <1>13
    <2>2. PICK z \in 1..c : \E y \in 1..size(z) : lists[z][y] = q
      BY <1>6, <2>1
    <2>3. PICK y \in 1..size(z) : lists[z][y] = q
      BY <2>2
    <2>4. PathMatchKey(PathOf(lists[z][y])) = keys[z]
      BY <1>5
    <2>5. z = x
      BY <1>4, <2>1, <2>3, <2>4
    <2> QED
      BY <2>2, <2>5
  <1>14. ASSUME NEW x \in 1..c
         PROVE  \A y \in 1..size(x) : lists[x][y] \in sharing[keys[x]]
    BY <1>5, <1>8, <1>12
  <1>15. ASSUME NEW x \in 1..c PROVE first[keys[x]] = lists[x][1]
    <2> DEFINE T == sharing[keys[x]]
               f == lists[x][1]
               First(p) == \A q \in T : p = q \/ Before(p, q)
    <2>1. f \in T
      BY <1>5, <1>14
    <2>2. First(f)
      <3> SUFFICES ASSUME NEW q \in T PROVE f = q \/ Before(f, q)
        OBVIOUS
      <3>1. PICK y \in 1..size(x) : lists[x][y] = q
        BY <1>13
      <3>2. y = 1 \/ 1 < y
        BY <1>5
      <3> QED
        BY <1>5, <3>1, <3>2
    <2>3. first[keys[x]] = CHOOSE p \in T : First(p)
      BY <1>9, <1>12
    <2>4. T \subseteq places
      BY <1>8, <1>12
    <2> HIDE DEF T, f
    <2>5. \A p \in T : First(p) => p = f
      <3> SUFFICES ASSUME NEW p \in T, First(p), p # f PROVE FALSE
        OBVIOUS
      <3>1. Before(p, f) /\ Before(f, p)
        BY <2>1, <2>2
      <3> QED
        BY <3>1, <2>1, <2>4, <1>2, <1>3 DEF IsOrder
    <2>6. (CHOOSE p \in T : First(p)) \in T /\ First(CHOOSE p \in T : First(p))
      BY <2>1, <2>2
    <2>7. (CHOOSE p \in T : First(p)) = f
      BY <2>5, <2>6
    <2> QED
      BY <2>3, <2>7 DEF f
  <1>16. IsOrder(matches, order)
    <2>1. ASSUME NEW m \in matches
          PROVE  first[m] \in places /\ PathMatchKey(PathOf(first[m])) = m
      <3>1. PICK x \in 1..c : keys[x] = m
        BY <1>12
      <3>2. lists[x][1] \in places /\ PathMatchKey(PathOf(lists[x][1])) = keys[x]
        BY <1>5
      <3> QED
        BY <3>1, <3>2, <1>15
    <2>2. \A m, n \in matches : m # n => first[m] # first[n]
      BY <2>1
    <2> QED
      BY <1>2, <1>3, <1>10, <2>1, <2>2 DEF IsOrder
  <1>17. Ordered(matches, order) = keys
    <2>1. \A x, z \in 1..c : x < z => <<keys[x], keys[z]>> \in order
      BY <1>7, <1>10, <1>12, <1>15
    <2> QED
      BY <1>4, <1>11, <1>12, <1>16, <2>1, OrderedIs
  <1>18. ASSUME NEW x \in 1..c PROVE sorted(keys[x]) = lists[x]
    <2> DEFINE T == sharing[keys[x]]
               s == lists[x]
               n == size(x)
    <2>1. T \subseteq places
      BY <1>8, <1>12
    <2>2. IsFiniteSet(T)
      BY <1>2, <2>1, FS_Subset
    <2>3. IsOrder(T, pairs)
      BY <1>2, <2>1 DEF IsOrder
    <2>4. n \in Nat /\ s = [y \in 1..n |-> s[y]]
      BY <1>5
    <2>5. \A y \in 1..n : s[y] \in T
      BY <1>14
    <2>6. \A q \in T : \E y \in 1..n : s[y] = q
      BY <1>13
    <2>7. \A y, z \in 1..n : y < z => <<s[y], s[z]>> \in pairs
      BY <1>3, <1>5
    <2> HIDE DEF T, s, n
    <2>8. Ordered(T, pairs) = s
      BY <2>2, <2>3, <2>4, <2>5, <2>6, <2>7, OrderedIs
    <2> QED
      BY <2>8 DEF T, s
  <1>19. DOMAIN keys = 1..c
    BY <1>4
  <1> HIDE DEF sorted
  <1> QED
    BY <1>1, <1>17, <1>18, <1>19

LEMMA PlaceIs ==
  ASSUME NEW S, NEW key, NEW p, p = [ing |-> p.ing, rule |-> p.rule, path |-> p.path],
         [ing |-> p.ing, rule |-> p.rule] \in Members(S, key),
         p.path \in DOMAIN p.ing.rules[p.rule].paths
  PROVE  p \in Places(S, key)
  <1>1. PICK m \in Members(S, key) : m = [ing |-> p.ing, rule |-> p.rule]
    OBVIOUS
  <1>2. p \in [ing : {m.ing}, rule : {m.rule}, path : DOMAIN m.ing.rules[m.rule].paths]
    BY <1>1
  <1> QED
    BY <1>2 DEF Places

\* A path of a group, as a place.
LEMMA PathAsPlace ==
  ASSUME TypeInv, ListInv, Collected, NEW k, NEW p, ValidPath(ingressList, p), InGroup(ingressList, p, k)
  PROVE  /\ OutPlace(ingressList, p) \in Places(ingresses, k)
         /\ PathOf(OutPlace(ingressList, p)) = PathIn(ingressList, p)
         /\ k.ns = ingressList[p.ingress].ns
  <1> DEFINE q == OutPlace(ingressList, p)
  <1>1. /\ q = [ing |-> q.ing, rule |-> q.rule, path |-> q.path]
        /\ q.ing = ingressList[p.ingress] /\ q.rule = p.rule /\ q.path = p.path
    BY DEF OutPlace
  <1>2. /\ q.ing \in ingresses /\ q.rule \in DOMAIN q.ing.rules
        /\ GroupKey(q.ing, q.ing.rules[q.rule].host) = k
    BY <1>1, ListFacts DEF InGroup, Collected
  <1>3. [ing |-> q.ing, rule |-> q.rule] \in Members(ingresses, k)
    BY <1>2, MemberIs
  <1>4. q.path \in DOMAIN q.ing.rules[q.rule].paths
    BY <1>1 DEF ValidPath
  <1>5. PathOf(q) = PathIn(ingressList, p)
    BY <1>1 DEF PathOf, PathIn
  <1> HIDE DEF q
  <1>6. q \in Places(ingresses, k)
    BY <1>1, <1>3, <1>4, PlaceIs
  <1> QED
    BY <1>1, <1>2, <1>5, <1>6 DEF q, GroupKey

\* Pointers and places are in the same order.
LEMMA PathsAsPlacesInOrder ==
  ASSUME TypeInv, ListInv, Collected, NEW k,
         NEW p, ValidPath(ingressList, p), InGroup(ingressList, p, k),
         NEW q, ValidPath(ingressList, q), InGroup(ingressList, q, k), PathBefore(p, q)
  PROVE  Before(OutPlace(ingressList, p), OutPlace(ingressList, q))
  <1>1. ingressList[p.ingress].ns = ingressList[q.ingress].ns
    BY DEF InGroup, GroupKey
  <1>2. p.ingress \in DOMAIN ingressList /\ q.ingress \in DOMAIN ingressList
    BY DEF ValidPath
  <1>3. p.ingress < q.ingress => Precedes(ingressList[p.ingress].name, ingressList[q.ingress].name)
    BY <1>1, <1>2, ListFacts DEF Collected
  <1> QED
    BY <1>3 DEF PathBefore, RuleBefore, Before, OutPlace

\* A place of the group is under its match key.
LEMMA PlaceAsPath ==
  ASSUME TypeInv, OnceInv, ListInv, phase \in {"rules", "backends"},
         NEW place \in Places(ingresses, current)
  PROVE  \E key \in DOMAIN pathsByKey : \E n \in DOMAIN pathsByKey[key] :
           OutPlace(ingressList, pathsByKey[key][n]) = place
  <1>1. /\ place = [ing |-> place.ing, rule |-> place.rule, path |-> place.path]
        /\ place.ing \in ingresses /\ place.rule \in DOMAIN place.ing.rules
        /\ place.path \in DOMAIN place.ing.rules[place.rule].paths
        /\ place.rule \in Nat \ {0} /\ place.path \in Nat
        /\ current = GroupKey(place.ing, place.ing.rules[place.rule].host)
    BY PlaceFacts DEF TypeInv
  <1>2. PICK x \in DOMAIN ingressList : ingressList[x] = place.ing
    BY <1>1, ListFacts
  <1>3. PICK p : p = [ingress |-> x, rule |-> place.rule, path |-> place.path]
    OBVIOUS
  <1>4. p.ingress = x /\ p.rule = place.rule /\ p.path = place.path
    BY <1>3
  <1>5. p \in Pointer
    <2>1. x \in Nat
      BY RuleNumbers
    <2> QED
      BY <1>1, <1>3, <2>1 DEF Pointer
  <1>6. ValidPath(ingressList, p)
    BY <1>1, <1>2, <1>4 DEF ValidPath
  <1>7. p \in AllPlaces
    BY <1>5, <1>6, PathIsPlace
  <1>8. p.rule # 0 /\ KeyOf(ingressList, p.ingress, p.rule) = current
    BY <1>1, <1>2, <1>4 DEF KeyOf
  <1>9. UnderKey(p)
    BY <1>7, <1>8 DEF OnceInv, PathsOnce, Building, Visited
  <1>10. OutPlace(ingressList, p) = place
    BY <1>1, <1>2, <1>4 DEF OutPlace
  <1> QED
    BY <1>9, <1>10 DEF UnderKey, InSeq

(***************************************************************************)
(* A route without errors is the route of its group                        *)
(***************************************************************************)
\* The places under the match keys.
PlacesUnder(x) ==
  [y \in DOMAIN pathsByKey[matchKeys[x]] |-> OutPlace(ingressList, pathsByKey[matchKeys[x]][y])]

LEMMA PathsAreListed ==
  ASSUME TypeInv, OnceInv, ListInv, PathsInOrder, phase \in {"rules", "backends"},
         NEW lists, lists = [x \in DOMAIN matchKeys |-> PlacesUnder(x)]
  PROVE  ListsRules(ingresses, current, Len(matchKeys), matchKeys, lists)
  <1> DEFINE c == Len(matchKeys)
             P(x) == pathsByKey[matchKeys[x]]
  <1>1. Building /\ Collected
    BY DEF Building, Collected
  <1>2. /\ c \in Nat /\ DOMAIN matchKeys = 1..c /\ matchKeys = [x \in 1..c |-> matchKeys[x]]
    <2>1. matchKeys \in Seq(MatchKey)
      BY DEF TypeInv, TypeOK
    <2> QED
      BY <2>1
  <1>3. \A x, z \in 1..c : matchKeys[x] = matchKeys[z] => x = z
    BY <1>1, <1>2 DEF OnceInv, PathsOnce, NoRepeats
  <1> HIDE DEF c
  <1>4. ASSUME NEW x \in 1..c
        PROVE  /\ matchKeys[x] \in DOMAIN pathsByKey
               /\ P(x) \in Seq(Pointer) /\ Len(P(x)) \in Nat /\ DOMAIN P(x) = 1..Len(P(x)) /\ P(x) # <<>>
               /\ 1 \in 1..Len(P(x))
    <2>1. matchKeys[x] \in DOMAIN pathsByKey
      BY <1>1, <1>2 DEF TypeInv, Linked, PathsLinked
    <2>2. P(x) \in Seq(Pointer) /\ P(x) # <<>>
      BY <1>1, <2>1 DEF TypeInv, TypeOK, MapOf, PathsInOrder
    <2> HIDE DEF P
    <2> QED
      BY <2>1, <2>2
  <1>5. ASSUME NEW x \in 1..c, NEW y \in DOMAIN P(x)
        PROVE  /\ ValidPath(ingressList, P(x)[y]) /\ InGroup(ingressList, P(x)[y], current)
               /\ PathMatchKey(PathIn(ingressList, P(x)[y])) = matchKeys[x]
    BY <1>1, <1>4 DEF TypeInv, Linked, PathsLinked
  <1>6. \A x \in 1..c : lists[x] = [y \in DOMAIN P(x) |-> OutPlace(ingressList, P(x)[y])]
    BY <1>2 DEF PlacesUnder
  <1>7. ASSUME NEW x \in 1..c
        PROVE  /\ Len(lists[x]) \in Nat /\ lists[x] = [y \in 1..Len(lists[x]) |-> lists[x][y]]
               /\ Len(lists[x]) = Len(P(x)) /\ DOMAIN P(x) = 1..Len(lists[x])
               /\ 1 \in 1..Len(lists[x])
               /\ \A y \in 1..Len(lists[x]) : lists[x][y] = OutPlace(ingressList, P(x)[y])
    <2>1. PICK n \in Nat : n = Len(P(x))
      BY <1>4
    <2>2. lists[x] = [y \in 1..n |-> OutPlace(ingressList, P(x)[y])] /\ DOMAIN P(x) = 1..n
      BY <1>4, <1>6, <2>1
    <2>3. Len(lists[x]) = n
      <3> HIDE DEF P
      <3> QED
        BY <2>2
    <2>4. 1 \in 1..n
      BY <1>4, <2>1
    <2> HIDE DEF P
    <2> QED
      BY <2>1, <2>2, <2>3, <2>4
  <1>8. ASSUME NEW x \in 1..c, NEW y \in 1..Len(lists[x])
        PROVE  lists[x][y] \in Places(ingresses, current) /\ PathMatchKey(PathOf(lists[x][y])) = matchKeys[x]
    <2>1. y \in DOMAIN P(x) /\ lists[x][y] = OutPlace(ingressList, P(x)[y])
      BY <1>7
    <2>2. /\ ValidPath(ingressList, P(x)[y]) /\ InGroup(ingressList, P(x)[y], current)
          /\ PathMatchKey(PathIn(ingressList, P(x)[y])) = matchKeys[x]
      BY <1>5, <2>1
    <2> HIDE DEF P
    <2>3. /\ OutPlace(ingressList, P(x)[y]) \in Places(ingresses, current)
          /\ PathOf(OutPlace(ingressList, P(x)[y])) = PathIn(ingressList, P(x)[y])
      BY <1>1, <2>2, PathAsPlace
    <2> QED
      BY <2>1, <2>2, <2>3
  <1>9. ASSUME NEW x \in 1..c, NEW z \in 1..c, NEW y \in DOMAIN P(x), NEW u \in DOMAIN P(z),
               PathBefore(P(x)[y], P(z)[u])
        PROVE  Before(OutPlace(ingressList, P(x)[y]), OutPlace(ingressList, P(z)[u]))
    BY <1>1, <1>5, <1>9, PathsAsPlacesInOrder
  <1>10. ASSUME NEW x \in 1..c, NEW y \in 1..Len(lists[x]), NEW z \in 1..Len(lists[x]), y < z
         PROVE  Before(lists[x][y], lists[x][z])
    <2>1. y \in DOMAIN P(x) /\ z \in DOMAIN P(x)
      BY <1>7
    <2>2. PathBefore(P(x)[y], P(x)[z])
      BY <1>1, <1>4, <1>10, <2>1 DEF PathsInOrder
    <2>3. lists[x][y] = OutPlace(ingressList, P(x)[y]) /\ lists[x][z] = OutPlace(ingressList, P(x)[z])
      BY <1>7
    <2> HIDE DEF P
    <2> QED
      BY <1>9, <2>1, <2>2, <2>3
  <1>11. ASSUME NEW x \in 1..c, NEW z \in 1..c, x < z PROVE Before(lists[x][1], lists[z][1])
    <2>1. PathBefore(P(x)[1], P(z)[1])
      BY <1>1, <1>2, <1>11 DEF PathsInOrder
    <2>2. 1 \in DOMAIN P(x) /\ 1 \in DOMAIN P(z)
      BY <1>7
    <2>3. lists[x][1] = OutPlace(ingressList, P(x)[1]) /\ lists[z][1] = OutPlace(ingressList, P(z)[1])
      BY <1>7
    <2> HIDE DEF P
    <2> QED
      BY <1>9, <2>1, <2>2, <2>3
  <1>12. ASSUME NEW place \in Places(ingresses, current)
         PROVE  \E x \in 1..c : \E y \in 1..Len(lists[x]) : lists[x][y] = place
    <2>1. PICK key \in DOMAIN pathsByKey : \E n \in DOMAIN pathsByKey[key] :
            OutPlace(ingressList, pathsByKey[key][n]) = place
      BY PlaceAsPath
    <2>2. PICK n \in DOMAIN pathsByKey[key] : OutPlace(ingressList, pathsByKey[key][n]) = place
      BY <2>1
    <2>3. PICK x \in 1..c : matchKeys[x] = key
      BY <1>1, <1>2 DEF OnceInv, PathsOnce, InSeq
    <2>4. n \in DOMAIN P(x) /\ P(x)[n] = pathsByKey[key][n]
      BY <2>2, <2>3
    <2>5. n \in 1..Len(lists[x]) /\ lists[x][n] = OutPlace(ingressList, P(x)[n])
      BY <1>7, <2>4
    <2> QED
      BY <2>2, <2>4, <2>5
  <1> HIDE DEF P
  <1>13. \A x \in 1..c :
           /\ Len(lists[x]) \in Nat /\ lists[x] = [y \in 1..Len(lists[x]) |-> lists[x][y]]
           /\ 1 \in 1..Len(lists[x])
           /\ \A y \in 1..Len(lists[x]) :
                lists[x][y] \in Places(ingresses, current) /\ PathMatchKey(PathOf(lists[x][y])) = matchKeys[x]
           /\ \A y, z \in 1..Len(lists[x]) : y < z => Before(lists[x][y], lists[x][z])
    BY <1>7, <1>8, <1>10
  <1>14. ListsRules(ingresses, current, c, matchKeys, lists)
    BY <1>2, <1>3, <1>11, <1>12, <1>13 DEF ListsRules
  <1> QED
    BY <1>14 DEF c

LEMMA RouteIsGroups ==
  ASSUME TypeInv, SourcesInv, OnceInv, ListInv, GatheredInv, PathsInOrder, RouteNamed,
         phase = "rules", i > Len(matchKeys), errors = {}
  PROVE  OutRoute(ingressList, route) = GroupRoute(ingresses, current)
  <1> DEFINE c     == Len(matchKeys)
             lists == [x \in DOMAIN matchKeys |-> PlacesUnder(x)]
             made  == [x \in DOMAIN route.rules |->
                        [match   |-> route.rules[x].match,
                         sources |-> [y \in DOMAIN route.sources[x] |->
                                        OutPlace(ingressList, route.sources[x][y])]]]
  <1>1. Building /\ Collected /\ i \in Nat
    BY DEF Building, Collected, TypeInv, TypeOK
  <1>2. /\ IsRoute(route) /\ current \in DOMAIN ruleGroups
        /\ current = [ns |-> route.ns, class |-> route.class, host |-> route.host]
    BY <1>1 DEF TypeInv, Linked, PathsLinked
  <1>3. matchKeys \in Seq(MatchKey) /\ c \in Nat /\ DOMAIN matchKeys = 1..c
    BY DEF TypeInv, TypeOK
  <1>4. /\ Len(route.sources) = i - 1
        /\ \A x \in DOMAIN route.sources :
             x \in DOMAIN matchKeys /\ route.sources[x] = pathsByKey[matchKeys[x]]
    BY DEF OnceInv, RouteTakesAll
  <1>5. DOMAIN route.sources = 1..Len(route.sources)
    BY <1>2 DEF IsRoute
  <1>6. DOMAIN route.sources = 1..c
    <2>1. PICK m \in Nat : m = i - 1
      BY <1>1, <1>3 DEF TypeInv, TypeOK
    <2>2. DOMAIN route.sources = 1..m /\ \A x \in 1..m : x \in 1..c
      BY <1>3, <1>4, <1>5, <2>1
    <2> HIDE DEF c
    <2>3. m >= c
      BY <1>1, <1>3, <2>1 DEF c
    <2>4. m = 0 \/ m \in 1..c
      <3>0. \A n \in Nat : n = 0 \/ n \in 1..n
        OBVIOUS
      <3>1. m = 0 \/ m \in 1..m
        BY <2>1, <3>0, Zenon
      <3> QED
        BY <3>1, <2>2
    <2>5. m = c
      BY <1>3, <2>1, <2>3, <2>4
    <2> QED
      BY <2>2, <2>5
  <1>7. DOMAIN route.rules = 1..c
    <2>1. Len(route.rules) = Len(route.sources)
      BY <1>1 DEF SourcesInv, RouteSound, Sound
    <2>2. DOMAIN route.rules = 1..Len(route.rules)
      BY <1>2 DEF IsRoute
    <2> QED
      BY <2>1, <2>2, <1>5, <1>6
  <1>8. ListsRules(ingresses, current, c, matchKeys, lists)
    BY PathsAreListed
  <1>9. Rules(ingresses, current) = [x \in 1..c |-> [match |-> ToHTTPRouteMatch(matchKeys[x]), sources |-> lists[x]]]
    BY <1>8, RulesAre DEF TypeInv
  <1>10. ASSUME NEW x \in 1..c
         PROVE  [y \in DOMAIN route.sources[x] |-> OutPlace(ingressList, route.sources[x][y])] = lists[x]
    <2>1. route.sources[x] = pathsByKey[matchKeys[x]]
      BY <1>4, <1>6
    <2>2. lists[x] = PlacesUnder(x)
      BY <1>3
    <2> QED
      BY <2>1, <2>2 DEF PlacesUnder
  <1>11. ASSUME NEW x \in 1..c PROVE route.rules[x].match = ToHTTPRouteMatch(matchKeys[x])
    <2>1. route.sources[x] = pathsByKey[matchKeys[x]] /\ matchKeys[x] \in DOMAIN pathsByKey
      BY <1>1, <1>3, <1>4, <1>6 DEF TypeInv, Linked, PathsLinked
    <2>2. pathsByKey[matchKeys[x]] # <<>> /\ pathsByKey[matchKeys[x]] \in Seq(Pointer)
      BY <1>1, <2>1 DEF PathsInOrder, TypeInv, TypeOK, MapOf
    <2>3. 1 \in DOMAIN pathsByKey[matchKeys[x]]
      BY <2>2
    <2>4. PICK p : p = pathsByKey[matchKeys[x]][1]
      OBVIOUS
    <2>5. /\ ValidPath(ingressList, p) /\ PathMatchKey(PathIn(ingressList, p)) = matchKeys[x]
      BY <1>1, <2>1, <2>3, <2>4 DEF TypeInv, Linked, PathsLinked
    <2>6. p.rule # 0
      BY <2>5, PathNumbers
    <2>7. SourceFits(ingressList, route, route.rules[x].match, p)
      BY <1>1, <1>7, <2>1, <2>3, <2>4 DEF SourcesInv, RouteSound, Sound, RuleFits
    <2>8. ToHTTPRouteMatch(PathIn(ingressList, p)) = route.rules[x].match
      BY <2>6, <2>7 DEF SourceFits
    <2> QED
      BY <2>5, <2>8 DEF ToHTTPRouteMatch, PathMatchKey
  <1>12. made = Rules(ingresses, current)
    <2> HIDE DEF lists
    <2> QED
      BY <1>7, <1>9, <1>10, <1>11
  <1>13. route.name = RouteName(Owner(ingresses, current).name, current.host)
    BY <1>1, <1>2, GroupOwner DEF RouteNamed
  <1>14. OutRoute(ingressList, route) =
           [name |-> route.name, ns |-> route.ns, class |-> route.class, host |-> route.host, rules |-> made]
    BY DEF OutRoute
  <1>15. route.ns = current.ns /\ route.class = current.class /\ route.host = current.host
    BY <1>2
  <1> HIDE DEF made
  <1> QED
    BY <1>12, <1>13, <1>14, <1>15 DEF GroupRoute

\* The route of a default backend that resolves.
LEMMA DefaultIsDefault ==
  ASSUME NEW list, NEW n, NEW rt, NEW ref,
         rt = [ns |-> list[n].ns, name |-> DefaultRouteName(list[n].name),
               class |-> GetIngressClass(list[n]), host |-> <<>>,
               rules |-> <<[name |-> 0, match |-> Nothing, backendRefs |-> ref]>>,
               sources |-> << <<[ingress |-> n, rule |-> 0, path |-> 0]>> >>]
  PROVE  OutRoute(list, rt) = DefaultRoute(list[n])
  <1>1. PICK p : p = [ingress |-> n, rule |-> 0, path |-> 0]
    OBVIOUS
  <1>2. DOMAIN rt.rules = {1} /\ rt.rules[1].match = Nothing
    OBVIOUS
  <1>3. rt.sources[1] = <<p>> /\ DOMAIN rt.sources[1] = {1} /\ rt.sources[1][1] = p
    BY <1>1
  <1>4. OutPlace(list, p) = [ing |-> list[n], rule |-> 0, path |-> 0]
    BY <1>1 DEF OutPlace
  <1>5. \A a : [x \in {1} |-> a] = <<a>>
    OBVIOUS
  <1>6. [y \in DOMAIN rt.sources[1] |-> OutPlace(list, rt.sources[1][y])]
          = <<[ing |-> list[n], rule |-> 0, path |-> 0]>>
    BY <1>3, <1>4, <1>5
  <1>7. [x \in DOMAIN rt.rules |->
           [match   |-> rt.rules[x].match,
            sources |-> [y \in DOMAIN rt.sources[x] |-> OutPlace(list, rt.sources[x][y])]]]
          = <<[match |-> Nothing, sources |-> <<[ing |-> list[n], rule |-> 0, path |-> 0]>>]>>
    <2>1. \A x \in {1} : x = 1
      OBVIOUS
    <2> QED
      BY <1>2, <1>5, <1>6
  <1>8. /\ rt.name = DefaultRouteName(list[n].name) /\ rt.ns = list[n].ns
        /\ rt.class = GetIngressClass(list[n]) /\ rt.host = <<>>
    OBVIOUS
  <1> QED
    BY <1>7, <1>8 DEF OutRoute, DefaultRoute

(***************************************************************************)
(* What has been found without fault                                       *)
(***************************************************************************)
LEMMA QuietGroupsChecked ==
  ASSUME GroupsChecked, UNCHANGED <<ingressList, ruleGroups>>, errors \subseteq errors',
         phase = "groups" \/ Building \/ phase \in Afterwards, Left \subseteq Left'
  PROVE  GroupsChecked'
  BY DEF GroupsChecked

\* All paths of a group whose route has been built have been looked at.
LEMMA RouteBuiltChecked ==
  ASSUME TypeInv, OnceInv, GroupsChecked, RulesChecked, KeysChecked, RouteBuilt
  PROVE  GroupsChecked'
  <1>1. /\ phase = "rules" /\ i > Len(matchKeys) /\ phase' = "groups"
        /\ UNCHANGED <<ingressList, ruleGroups, pending, errors>>
    BY DEF RouteBuilt, groupVars, Goto
  <1>2. Building /\ Left = pending \union {current} /\ Left' = pending
    BY <1>1 DEF Building, Left
  <1>3. current \in DOMAIN ruleGroups /\ current.ns = ruleGroups[current].ns
    BY <1>2 DEF TypeInv, Linked, PathsLinked, GroupsLinked
  <1>4. \A x \in DOMAIN matchKeys :
          /\ matchKeys[x].type # "other"
          /\ errors = {} => ~MatchFails(matchKeys[x])
          /\ errors = {} =>
               \A y \in DOMAIN pathsByKey[matchKeys[x]] :
                 Resolves(current.ns, PathIn(ingressList, pathsByKey[matchKeys[x]][y]).backend)
    <2>1. \A x \in DOMAIN matchKeys : x < i
      BY <1>1 DEF TypeInv, TypeOK
    <2> QED
      BY <1>1, <2>1 DEF KeysChecked
  <1>5. ASSUME NEW n \in DOMAIN ruleGroups[current].rules,
               NEW y \in DOMAIN RuleOf(ingressList, ruleGroups[current].rules[n]).paths
        PROVE  /\ ~Unknown(RuleOf(ingressList, ruleGroups[current].rules[n]).paths[y])
               /\ errors = {} =>
                    Good(current.ns, RuleOf(ingressList, ruleGroups[current].rules[n]).paths[y])
    <2>1. PICK m : m = ruleGroups[current].rules[n]
      OBVIOUS
    <2>2. InGroup(ingressList, m, current)
      BY <1>3, <2>1 DEF TypeInv, Linked, GroupsLinked
    <2>3. PICK p : p = [ingress |-> m.ingress, rule |-> m.rule, path |-> y]
      OBVIOUS
    <2>4. p.ingress = m.ingress /\ p.rule = m.rule /\ p.path = y
      BY <2>3
    <2>5. ValidPath(ingressList, p)
      BY <2>1, <2>2, <2>4 DEF InGroup, ValidPath, RuleOf
    <2>6. p \in Pointer /\ p.rule # 0
      <3>1. p.ingress \in Nat /\ p.rule \in Nat
        BY <2>2, <2>4, RuleNumbers DEF InGroup
      <3>2. p.path \in Nat /\ p.rule # 0
        BY <2>5, PathNumbers
      <3> QED
        BY <2>3, <2>4, <3>1, <3>2 DEF Pointer
    <2>7. p \in AllPlaces
      BY <2>5, <2>6, PathIsPlace
    <2>8. UnderKey(p)
      BY <1>1, <1>2, <2>2, <2>4, <2>6, <2>7 DEF OnceInv, PathsOnce, Visited, KeyOf, InGroup
    <2>9. PICK key : key = PathMatchKey(PathIn(ingressList, p))
      OBVIOUS
    <2>10. key \in DOMAIN pathsByKey /\ \E z \in DOMAIN pathsByKey[key] : pathsByKey[key][z] = p
      BY <2>8, <2>9 DEF UnderKey, InSeq, PathAt, PathIn
    <2>11. PICK x \in DOMAIN matchKeys : matchKeys[x] = key
      BY <1>2, <2>10 DEF OnceInv, PathsOnce, InSeq
    <2>12. /\ key.type # "other" /\ (errors = {} => ~MatchFails(key))
           /\ errors = {} => Resolves(current.ns, PathIn(ingressList, p).backend)
      BY <1>4, <2>10, <2>11
    <2>13. RuleOf(ingressList, ruleGroups[current].rules[n]).paths[y] = PathIn(ingressList, p)
      BY <2>1, <2>4 DEF RuleOf, PathIn
    <2> QED
      BY <2>9, <2>12, <2>13 DEF Unknown, Good, PathMatchKey
  <1>6. \A n \in DOMAIN ruleGroups[current].rules : RuleOf(ingressList, ruleGroups[current].rules[n]).http
    BY <1>1, <1>2 DEF RulesChecked
  <1>7. Sane(ingressList, ruleGroups[current])
    BY <1>5, <1>6 DEF Sane
  <1>8. errors = {} => Converts(ingressList, ruleGroups[current])
    BY <1>3, <1>5 DEF Converts
  <1> QED
    BY <1>1, <1>2, <1>7, <1>8 DEF GroupsChecked

LEMMA NextGroupsChecked ==
  TypeInv /\ OnceInv /\ GroupsChecked /\ RulesChecked /\ KeysChecked /\ [Next]_vars => GroupsChecked'
  <1> USE DEF groupVars, pathVars, buildVars, outVars, Goto
  <1> SUFFICES ASSUME TypeInv, OnceInv, GroupsChecked, RulesChecked, KeysChecked, [Next]_vars
               PROVE  GroupsChecked'
    OBVIOUS
  <1>1. CASE FromMap \/ AddIngressRule \/ AddDefaultBackend
    BY <1>1 DEF FromMap, AddIngressRule, AddDefaultBackend, GroupsChecked, Building, Afterwards
  <1>2. CASE SortRuleGroups
    BY <1>2 DEF SortRuleGroups, GroupsChecked, Left
  <1>3. CASE NextRuleGroup
    <2>1. phase = "groups" /\ phase' = "paths" /\ UNCHANGED <<ingressList, ruleGroups, errors>>
      BY <1>3 DEF NextRuleGroup
    <2>2. pending \subseteq pending' \union {current'}
      BY <1>3 DEF NextRuleGroup
    <2>3. Left \subseteq Left'
      BY <2>1, <2>2 DEF Left, Building
    <2> QED
      BY <2>1, <2>3, QuietGroupsChecked
  <1>4. CASE GroupIngressPath \/ PathsGrouped \/ ToHTTPRouteRule \/ ConfigureBackendRef \/ AppendRule
    <2>1. /\ Building /\ UNCHANGED <<ingressList, ruleGroups, pending, current>> /\ errors \subseteq errors'
          /\ Building' \/ phase' = "panicked"
      BY <1>4 DEF GroupIngressPath, PathsGrouped, ToHTTPRouteRule, ConfigureBackendRef, AppendRule, Building
    <2>2. CASE Building'
      <3>1. phase # "groups" /\ phase' # "groups"
        BY <2>1, <2>2 DEF Building
      <3>2. Left \subseteq Left'
        BY <2>1, <2>2, <3>1 DEF Left
      <3> QED
        BY <2>1, <3>2, QuietGroupsChecked
    <2>3. CASE phase' = "panicked"
      BY <2>3 DEF GroupsChecked, Building, Afterwards
    <2> QED
      BY <2>1, <2>2, <2>3
  <1>5. CASE RouteBuilt
    BY <1>5, RouteBuiltChecked
  <1>6. CASE GroupsBuilt
    <2>1. UNCHANGED <<ingressList, ruleGroups, errors>> /\ phase = "groups" /\ pending = {}
      BY <1>6 DEF GroupsBuilt
    <2> QED
      BY <2>1, QuietGroupsChecked DEF Left
  <1>7. CASE DefaultBackendRoute \/ DefaultsBuilt \/ NextGateway \/ AddListener \/ GatewayBuilt
             \/ GatewaysBuilt \/ IndexRoute \/ RoutesIndexed
    <2>1. UNCHANGED <<ingressList, ruleGroups>> /\ errors \subseteq errors' /\ phase \in Afterwards
      BY <1>7 DEF DefaultBackendRoute, DefaultsBuilt, NextGateway, AddListener, GatewayBuilt, GatewaysBuilt,
           IndexRoute, RoutesIndexed, Afterwards
    <2> QED
      BY <2>1, QuietGroupsChecked DEF Left, Building, Afterwards
  <1>8. CASE UNCHANGED vars
    BY <1>8 DEF vars, GroupsChecked, Left, Building
  <1> QED
    BY <1>1, <1>2, <1>3, <1>4, <1>5, <1>6, <1>7, <1>8 DEF Next, Convert, Terminating

LEMMA NextRulesChecked == TypeInv /\ RulesChecked /\ [Next]_vars => RulesChecked'
  <1> USE DEF groupVars, pathVars, buildVars, outVars, Goto
  <1> SUFFICES ASSUME TypeInv, RulesChecked, [Next]_vars, Building',
                      NEW n \in DOMAIN ruleGroups'[current'].rules, phase' = "paths" => n < i'
               PROVE  RuleOf(ingressList', ruleGroups'[current'].rules[n]).http
    BY DEF RulesChecked
  <1>1. CASE NextRuleGroup
    <2>1. phase' = "paths" /\ i' = 1 /\ \E k \in pending : current' = k /\ ruleGroups' = ruleGroups /\ phase = "groups"
      BY <1>1 DEF NextRuleGroup
    <2>2. current' \in DOMAIN ruleGroups
      BY <2>1 DEF TypeInv, Linked, PendingLinked
    <2>3. ruleGroups[current'].rules \in Seq([ingress : Nat, rule : Nat])
      BY <2>2 DEF TypeInv, TypeOK, MapOf, RuleGroup
    <2>4. n \in Nat /\ n >= 1
      BY <2>1, <2>3
    <2> QED
      BY <2>1, <2>4
  <1>2. CASE Building /\ UNCHANGED <<ingressList, ruleGroups, current>>
    <2>1. current \in DOMAIN ruleGroups
      BY <1>2 DEF TypeInv, Linked, PathsLinked
    <2>2. ruleGroups[current].rules \in Seq([ingress : Nat, rule : Nat])
      BY <2>1 DEF TypeInv, TypeOK, MapOf, RuleGroup
    <2>3. i \in Nat /\ n \in Nat /\ n <= Len(ruleGroups[current].rules)
      BY <1>2, <2>2 DEF TypeInv, TypeOK
    <2>4. Len(ruleGroups[current].rules) \in Nat
      BY <2>2
    <2>5. CASE GroupIngressPath
      <3>1. CASE i' = i
        <4>1. phase = "paths" /\ phase' = "paths"
          BY <2>5 DEF GroupIngressPath, Building
        <4> QED
          BY <1>2, <3>1, <4>1 DEF RulesChecked
      <3>2. CASE i' # i
        <4>1. i' = i + 1 /\ RuleOf(ingressList, ruleGroups[current].rules[i]).http /\ phase = "paths" /\ phase' = "paths"
          BY <2>5, <3>2 DEF GroupIngressPath, RuleOf
        <4>2. n < i \/ n = i
          BY <2>3, <4>1
        <4> QED
          BY <1>2, <4>1, <4>2 DEF RulesChecked
      <3> QED
        BY <3>1, <3>2
    <2>6. CASE PathsGrouped
      <3>1. phase = "paths" /\ i > Len(ruleGroups[current].rules)
        BY <2>6 DEF PathsGrouped
      <3>2. n < i
        BY <2>3, <2>4, <3>1
      <3> QED
        BY <1>2, <3>1, <3>2 DEF RulesChecked
    <2>7. CASE phase \in {"rules", "backends"}
      BY <1>2, <2>7 DEF RulesChecked
    <2>8. CASE UNCHANGED vars
      <3>1. UNCHANGED <<phase, i>>
        BY <2>8 DEF vars
      <3> QED
        BY <1>2, <3>1 DEF RulesChecked
    <2>9. CASE phase = "paths"
      <3>1. Next => GroupIngressPath \/ PathsGrouped
        BY <2>9 DEF Next, Convert, Terminating, Ended, FromMap, AddIngressRule, AddDefaultBackend,
              SortRuleGroups, NextRuleGroup, ToHTTPRouteRule, ConfigureBackendRef, AppendRule,
              RouteBuilt, GroupsBuilt, DefaultBackendRoute, DefaultsBuilt, NextGateway,
              AddListener, GatewayBuilt, GatewaysBuilt, IndexRoute, RoutesIndexed
      <3> QED
        BY <2>5, <2>6, <2>8, <3>1
    <2> QED
      BY <1>2, <2>7, <2>9 DEF Building
  <1>3. CASE UNCHANGED vars
    BY <1>2, <1>3 DEF vars, Building
  <1>4. CASE Next /\ ~NextRuleGroup
    <2>1. Building /\ UNCHANGED <<ingressList, ruleGroups, current>>
      BY <1>4 DEF Next, Convert, Terminating, Ended, vars, FromMap, AddIngressRule, AddDefaultBackend,
            SortRuleGroups, GroupIngressPath, PathsGrouped, ToHTTPRouteRule, ConfigureBackendRef, AppendRule,
            RouteBuilt, GroupsBuilt, DefaultBackendRoute, DefaultsBuilt, NextGateway,
            AddListener, GatewayBuilt, GatewaysBuilt, IndexRoute, RoutesIndexed, Building, AfterGateways
    <2> QED
      BY <1>2, <2>1
  <1> QED
    BY <1>1, <1>3, <1>4

LEMMA NextKeysChecked == TypeInv /\ KeysChecked /\ [Next]_vars => KeysChecked'
  <1> USE DEF groupVars, pathVars, buildVars, outVars, Goto
  <1> SUFFICES ASSUME TypeInv, KeysChecked, [Next]_vars, phase' \in {"rules", "backends"}
               PROVE  KeysChecked'
    BY DEF KeysChecked
  <1> DEFINE P(x) == pathsByKey[matchKeys[x]]
             Fine(x, y) == Resolves(current.ns, PathIn(ingressList, P(x)[y]).backend)
  <1>1. CASE PathsGrouped
    <2>1. phase' = "rules" /\ i' = 1 /\ matchKeys' = matchKeys
      BY <1>1 DEF PathsGrouped
    <2>2. \A x \in DOMAIN matchKeys : ~(x < 1)
      BY DEF TypeInv, TypeOK
    <2>3. \A x \in DOMAIN matchKeys' : ~(x < i' \/ (x = i' /\ phase' = "backends"))
      BY <2>1, <2>2
    <2>4. \A x \in DOMAIN matchKeys' : \A y : ~(x < i' \/ (x = i' /\ phase' = "backends" /\ y < j'))
      BY <2>3
    <2> QED
      BY <2>3, <2>4 DEF KeysChecked
  <1>2. CASE phase \in {"rules", "backends"} /\ UNCHANGED <<ingressList, matchKeys, pathsByKey, current>>
    <2>1. \A x \in DOMAIN matchKeys : x \in Nat /\ (x < i + 1 => x < i \/ x = i)
      BY DEF TypeInv, TypeOK
    <2>2. \A x \in DOMAIN matchKeys :
            /\ x < i \/ (x = i /\ phase = "backends") => matchKeys[x].type # "other"
            /\ (x < i \/ (x = i /\ phase = "backends")) /\ errors = {} => ~MatchFails(matchKeys[x])
            /\ errors = {} =>
                 \A y \in DOMAIN P(x) : x < i \/ (x = i /\ phase = "backends" /\ y < j) => Fine(x, y)
      BY <1>2 DEF KeysChecked
    <2>3. \/ ToHTTPRouteRule \/ ConfigureBackendRef \/ AppendRule
          \/ UNCHANGED <<phase, i, j, errors>>
      BY <1>2 DEF Next, Convert, Terminating, Ended, vars, FromMap, AddIngressRule, AddDefaultBackend,
            SortRuleGroups, NextRuleGroup, GroupIngressPath, PathsGrouped, RouteBuilt, GroupsBuilt,
            DefaultBackendRoute, DefaultsBuilt, NextGateway, AddListener, GatewayBuilt, GatewaysBuilt,
            IndexRoute, RoutesIndexed
    <2> HIDE DEF P, Fine
    <2>4. \A x \in DOMAIN matchKeys :
            /\ x < i' \/ (x = i' /\ phase' = "backends") => matchKeys[x].type # "other"
            /\ (x < i' \/ (x = i' /\ phase' = "backends")) /\ errors' = {} => ~MatchFails(matchKeys[x])
            /\ errors' = {} =>
                 \A y \in DOMAIN P(x) : x < i' \/ (x = i' /\ phase' = "backends" /\ y < j') => Fine(x, y)
      <3>1. CASE ToHTTPRouteRule
        <4>1. phase = "rules" /\ errors \subseteq errors'
          BY <3>1 DEF ToHTTPRouteRule
        <4>2. CASE i' = i + 1
          <5>1. MatchFails(matchKeys[i]) /\ phase' = "rules" /\ errors' # {}
            <6>1. i # i + 1
              BY DEF TypeInv, TypeOK
            <6> QED
              BY <3>1, <4>2, <6>1 DEF ToHTTPRouteRule
          <5>2. matchKeys[i].type # "other"
            BY <5>1 DEF MatchFails
          <5> QED
            BY <2>1, <2>2, <4>1, <4>2, <5>1, <5>2
        <4>3. CASE i' # i + 1
          <5>1. /\ i' = i /\ phase' = "backends" /\ j' = 1 /\ errors' = errors
                /\ matchKeys[i].type # "other" /\ ~MatchFails(matchKeys[i])
            BY <3>1, <4>3 DEF ToHTTPRouteRule
          <5>2. ASSUME NEW x \in DOMAIN matchKeys, NEW y \in DOMAIN P(x) PROVE ~(y < 1)
            <6>1. matchKeys[x] \in DOMAIN pathsByKey
              BY <1>2 DEF TypeInv, Linked, PathsLinked, Building
            <6>2. P(x) \in Seq(Pointer)
              BY <6>1 DEF TypeInv, TypeOK, MapOf, P
            <6> QED
              BY <6>2
          <5> QED
            BY <2>2, <4>1, <5>1, <5>2
        <4> QED
          BY <4>2, <4>3
      <3>2. CASE ConfigureBackendRef
        <4> DEFINE p == pathsByKey[matchKeys[i]][j]
        <4>1. /\ phase = "backends" /\ phase' = "backends" /\ i' = i /\ j' = j + 1 /\ errors \subseteq errors'
              /\ j <= Len(pathsByKey[matchKeys[i]])
          BY <3>2 DEF ConfigureBackendRef
        <4>2. errors' = {} => Resolves(route.ns, BackendAt(p))
          BY <3>2 DEF ConfigureBackendRef
        <4>3. current.ns = route.ns
          BY <4>1 DEF TypeInv, Linked, PathsLinked, Building
        <4>4. BackendAt(p) = PathIn(ingressList, p).backend
          BY <4>1, CurrentBackend DEF BackendAt, PathAt, PathIn
        <4>5. errors' = {} => Fine(i, j)
          BY <4>2, <4>3, <4>4 DEF Fine, P
        <4>6. \A x \in DOMAIN matchKeys : \A y \in DOMAIN P(x) : y < j + 1 => y < j \/ y = j
          <5> SUFFICES ASSUME NEW x \in DOMAIN matchKeys, NEW y \in DOMAIN P(x) PROVE y < j + 1 => y < j \/ y = j
            OBVIOUS
          <5>1. matchKeys[x] \in DOMAIN pathsByKey
            BY <1>2 DEF TypeInv, Linked, PathsLinked, Building
          <5>2. P(x) \in Seq(Pointer)
            BY <5>1 DEF TypeInv, TypeOK, MapOf, P
          <5>3. y \in Nat /\ j \in Nat
            BY <5>2 DEF TypeInv, TypeOK
          <5> QED
            BY <5>3
        <4> HIDE DEF p
        <4> QED
          BY <2>2, <4>1, <4>5, <4>6
      <3>3. CASE AppendRule
        <4>1. /\ phase = "backends" /\ phase' = "rules" /\ i' = i + 1 /\ errors = errors'
              /\ j > Len(P(i))
          BY <3>3 DEF AppendRule, P
        <4>2. i \in DOMAIN matchKeys /\ matchKeys[i] \in DOMAIN pathsByKey
          BY <4>1 DEF TypeInv, Linked, RuleLinked, PathsLinked, Building
        <4>3. P(i) \in Seq(Pointer)
          BY <4>2 DEF TypeInv, TypeOK, MapOf, P
        <4>4. \A y \in DOMAIN P(i) : y < j
          BY <4>1, <4>3 DEF TypeInv, TypeOK
        <4>5. \A x \in DOMAIN matchKeys : x < i' => x < i \/ x = i
          BY <2>1, <4>1
        <4> QED
          BY <2>2, <4>1, <4>4, <4>5
      <3>4. CASE UNCHANGED <<phase, i, j, errors>>
        BY <2>2, <3>4
      <3> QED
        BY <2>3, <3>1, <3>2, <3>3, <3>4
    <2> QED
      BY <1>2, <2>4 DEF KeysChecked, P, Fine
  <1>3. PathsGrouped \/ (phase \in {"rules", "backends"} /\ UNCHANGED <<ingressList, matchKeys, pathsByKey, current>>)
    BY DEF Next, Convert, Terminating, Ended, vars, FromMap, AddIngressRule, AddDefaultBackend,
          SortRuleGroups, NextRuleGroup, GroupIngressPath, PathsGrouped, ToHTTPRouteRule, ConfigureBackendRef,
          AppendRule, RouteBuilt, GroupsBuilt, DefaultBackendRoute, DefaultsBuilt, NextGateway,
          AddListener, GatewayBuilt, GatewaysBuilt, IndexRoute, RoutesIndexed, AfterGateways
  <1> QED
    BY <1>1, <1>2, <1>3

LEMMA NextDefaultsChecked == TypeInv /\ DefaultsChecked /\ [Next]_vars => DefaultsChecked'
  <1> USE DEF groupVars, pathVars, buildVars, outVars, Goto
  <1> SUFFICES ASSUME TypeInv, DefaultsChecked, [Next]_vars, errors' = {}, phase' \in Afterwards,
                      NEW n \in DOMAIN defaultBackends', phase' = "defaults" => n < i'
               PROVE  Resolves(ingressList'[defaultBackends'[n]].ns,
                               ingressList'[defaultBackends'[n]].defaultBackend[1])
    BY DEF DefaultsChecked
  <1>1. \A m \in DOMAIN defaultBackends : m \in Nat \ {0} /\ m <= Len(defaultBackends)
    BY DEF TypeInv, TypeOK
  <1>2. i \in Nat /\ Len(defaultBackends) \in Nat
    BY DEF TypeInv, TypeOK
  <1>3. CASE GroupsBuilt
    <2>1. phase' = "defaults" /\ i' = 1 /\ defaultBackends' = defaultBackends
      BY <1>3 DEF GroupsBuilt
    <2>2. ~(n < 1)
      BY <1>1, <2>1
    <2> QED
      BY <2>1, <2>2
  <1>4. CASE DefaultBackendRoute
    <2> DEFINE p == [ingress |-> defaultBackends[i], rule |-> 0, path |-> 0]
    <2>1. /\ UNCHANGED <<ingressList, defaultBackends>> /\ phase = "defaults" /\ phase' = "defaults" /\ i' = i + 1
          /\ errors \subseteq errors'
          /\ errors' = {} => Resolves(ingressList[defaultBackends[i]].ns, BackendAt(p))
      BY <1>4 DEF DefaultBackendRoute
    <2>2. BackendAt(p) = ingressList[defaultBackends[i]].defaultBackend[1]
      BY DEF BackendAt
    <2>3. n < i \/ n = i
      BY <1>1, <1>2, <2>1
    <2> QED
      BY <2>1, <2>2, <2>3 DEF DefaultsChecked, Afterwards
  <1>5. CASE DefaultsBuilt
    <2>1. /\ UNCHANGED <<ingressList, defaultBackends, errors>> /\ phase = "defaults" /\ i > Len(defaultBackends)
      BY <1>5 DEF DefaultsBuilt
    <2>2. n < i
      BY <1>1, <1>2, <2>1
    <2> QED
      BY <2>1, <2>2 DEF DefaultsChecked, Afterwards
  <1>6. CASE NextGateway \/ AddListener \/ GatewayBuilt \/ GatewaysBuilt \/ IndexRoute \/ RoutesIndexed
    <2>1. UNCHANGED <<ingressList, defaultBackends>> /\ errors \subseteq errors' /\ phase \in Afterwards \ {"defaults"}
      BY <1>6 DEF NextGateway, AddListener, GatewayBuilt, GatewaysBuilt, IndexRoute, RoutesIndexed, Afterwards
    <2> QED
      BY <2>1 DEF DefaultsChecked
  <1>7. CASE UNCHANGED vars
    BY <1>7 DEF vars, DefaultsChecked
  <1> QED
    BY <1>3, <1>4, <1>5, <1>6, <1>7 DEF Next, Convert, Terminating, FromMap, AddIngressRule, AddDefaultBackend,
          SortRuleGroups, NextRuleGroup, GroupIngressPath, PathsGrouped, ToHTTPRouteRule, ConfigureBackendRef,
          AppendRule, RouteBuilt, Afterwards

LEMMA NextGatewaysChecked == TypeInv /\ GatewaysChecked /\ [Next]_vars => GatewaysChecked'
  <1> USE DEF groupVars, pathVars, buildVars, outVars, Goto
  <1> SUFFICES ASSUME TypeInv, GatewaysChecked, [Next]_vars, errors' = {},
                      phase' \in {"gateways", "listeners", "index", "done"},
                      NEW g \in DOMAIN listeners', phase' \in {"gateways", "listeners"} => g \notin pending'
               PROVE  NoSlash(g.class) /\ g \in DOMAIN gateways'
    BY DEF GatewaysChecked
  <1>1. CASE DefaultsBuilt
    BY <1>1 DEF DefaultsBuilt
  <1>2. CASE NextGateway
    <2>1. PICK k \in pending :
            /\ pending' = pending \ {k}
            /\ IF "/" \in {k.class[n] : n \in DOMAIN k.class}
               THEN /\ errors' = errors \union {"gatewayKey"}
                    /\ UNCHANGED <<phase, j, current, gateways>>
               ELSE /\ gateways' = Put(gateways, k, <<>>)
                    /\ current' = k
                    /\ phase' = "listeners" /\ j' = 1
                    /\ UNCHANGED errors
      BY <1>2 DEF NextGateway
    <2>2. phase = "gateways" /\ listeners' = listeners
      BY <1>2 DEF NextGateway
    <2>3. /\ "/" \notin {k.class[n] : n \in DOMAIN k.class} /\ gateways' = Put(gateways, k, <<>>)
          /\ phase' = "listeners" /\ errors = {}
      BY <2>1
    <2>4. DOMAIN gateways' = DOMAIN gateways \union {k}
      BY <2>3 DEF Put
    <2>5. CASE g = k
      BY <2>3, <2>4, <2>5 DEF NoSlash
    <2>6. CASE g # k
      BY <2>1, <2>2, <2>3, <2>4, <2>6 DEF GatewaysChecked
    <2> QED
      BY <2>5, <2>6
  <1>3. CASE AddListener \/ GatewayBuilt \/ GatewaysBuilt \/ IndexRoute \/ RoutesIndexed
    <2>1. /\ UNCHANGED <<listeners, errors, pending>> /\ phase \in {"gateways", "listeners", "index"}
          /\ phase = "gateways" => pending = {}
          /\ phase = "listeners" => phase' \in {"gateways", "listeners"}
      BY <1>3 DEF AddListener, GatewayBuilt, GatewaysBuilt, IndexRoute, RoutesIndexed
    <2>2. DOMAIN gateways' = DOMAIN gateways
      <3>1. AddListener => DOMAIN gateways' = DOMAIN gateways
        BY DEF AddListener
      <3>2. ~AddListener => gateways' = gateways
        BY <1>3 DEF GatewayBuilt, GatewaysBuilt, IndexRoute, RoutesIndexed
      <3> QED
        BY <3>1, <3>2
    <2> QED
      BY <2>1, <2>2 DEF GatewaysChecked
  <1>4. CASE UNCHANGED vars
    BY <1>4 DEF vars, GatewaysChecked
  <1> QED
    BY <1>1, <1>2, <1>3, <1>4 DEF Next, Convert, Terminating, Ended, FromMap, AddIngressRule, AddDefaultBackend,
          SortRuleGroups, NextRuleGroup, GroupIngressPath, PathsGrouped, ToHTTPRouteRule, ConfigureBackendRef,
          AppendRule, RouteBuilt, GroupsBuilt, DefaultBackendRoute, vars

(***************************************************************************)
(* What is reported is at fault                                            *)
(***************************************************************************)
\* A path of a group that is looked at is a place of it.
LEMMA PathAtFault ==
  ASSUME TypeInv, OnceInv, ListInv, GatheredInv, Building,
         NEW p, ValidPath(ingressList, p), InGroup(ingressList, p, current),
         \/ MatchFails(PathMatchKey(PathIn(ingressList, p)))
         \/ ~Resolves(current.ns, PathIn(ingressList, p).backend)
  PROVE  Fails(ingresses)
  <1>1. Collected
    BY DEF Building, Collected
  <1>2. current \in Groups(ingresses)
    BY <1>1, GroupsAre DEF TypeInv, Linked, PathsLinked
  <1>3. PICK q : q = OutPlace(ingressList, p)
    OBVIOUS
  <1>4. q \in Places(ingresses, current) /\ PathOf(q) = PathIn(ingressList, p)
    BY <1>1, <1>3, PathAsPlace
  <1> QED
    BY <1>2, <1>4 DEF Fails, FailsWith, Resolves

LEMMA RulePanics ==
  ASSUME TypeInv, ListInv, Collected, NEW m, m.ingress \in DOMAIN ingressList,
         m.rule \in DOMAIN ingressList[m.ingress].rules,
         ~RuleOf(ingressList, m).http \/ \E n \in DOMAIN RuleOf(ingressList, m).paths : Unknown(RuleOf(ingressList, m).paths[n])
  PROVE  Panics(ingresses)
  <1>1. PICK ing \in ingresses : ing = ingressList[m.ingress]
    BY ListFacts DEF Collected
  <1>2. PICK r : r = RuleOf(ingressList, m)
    OBVIOUS
  <1>3. r \in ToSet(ing.rules)
    BY <1>1, <1>2 DEF RuleOf, ToSet
  <1>4. ~r.http \/ \E n \in DOMAIN r.paths : r.paths[n].type = "other"
    BY <1>2 DEF Unknown
  <1> QED
    BY <1>3, <1>4 DEF Panics

\* Every Gateway that is listed is that of a group.
LEMMA ListedGateway ==
  ASSUME TypeInv, ListenersInOrder, phase \in Afterwards \/ phase = "groups" \/ Building,
         NEW g \in DOMAIN listeners
  PROVE  \E k \in DOMAIN ruleGroups : GatewayOf(k) = g
  <1>1. listeners[g] # <<>> /\ Listed(g, listeners[g], ListenersLeft)
    BY DEF ListenersInOrder
  <1>2. PICK ks \in [1..Len(listeners[g]) -> DOMAIN ruleGroups] :
          \A x \in 1..Len(listeners[g]) : GatewayOf(ks[x]) = g
    BY <1>1 DEF Listed
  <1>3. listeners[g] \in Seq([host : String, certs : Seq(STRING)])
    BY DEF TypeInv, TypeOK, MapOf
  <1>4. 1 \in 1..Len(listeners[g])
    BY <1>1, <1>3
  <1> QED
    BY <1>2, <1>4

\* The Ingresses never change, so what is wrong with them stays wrong.
LEMMA FaultsStay ==
  ASSUME FaultsReal, UNCHANGED ingresses, errors' = errors \/ Fails(ingresses), errors' # {} \/ phase' # "failed",
         phase' = "panicked" => phase = "panicked" \/ Panics(ingresses)
  PROVE  FaultsReal'
  <1>1. Fails(ingresses) => Fails(ingresses')
    OBVIOUS
  <1>2. Panics(ingresses) => Panics(ingresses')
    OBVIOUS
  <1> QED
    BY <1>1, <1>2 DEF FaultsReal

LEMMA ToHTTPRouteRuleFaults ==
  ASSUME TypeInv, OnceInv, ListInv, GatheredInv, PathsInOrder, FaultsReal, ToHTTPRouteRule
  PROVE  FaultsReal'
  <1> USE DEF groupVars, pathVars, buildVars, outVars
  <1>1. phase = "rules" /\ i <= Len(matchKeys) /\ UNCHANGED ingresses
    BY DEF ToHTTPRouteRule
  <1>2. i \in DOMAIN matchKeys /\ matchKeys[i] \in DOMAIN pathsByKey
    <2>1. i \in DOMAIN matchKeys
      BY <1>1 DEF TypeInv, TypeOK
    <2> QED
      BY <1>1, <2>1 DEF TypeInv, Linked, PathsLinked, Building
  <1>3. pathsByKey[matchKeys[i]] # <<>> /\ pathsByKey[matchKeys[i]] \in Seq(Pointer)
    BY <1>1, <1>2 DEF PathsInOrder, Building, TypeInv, TypeOK, MapOf
  <1>4. 1 \in DOMAIN pathsByKey[matchKeys[i]]
    BY <1>3
  <1>5. PICK p : p = pathsByKey[matchKeys[i]][1]
    OBVIOUS
  <1>6. /\ ValidPath(ingressList, p) /\ InGroup(ingressList, p, current)
        /\ PathMatchKey(PathIn(ingressList, p)) = matchKeys[i]
    BY <1>1, <1>2, <1>4, <1>5 DEF TypeInv, Linked, PathsLinked, Building
  <1>7. CASE phase' = "panicked"
    <2>1. matchKeys[i].type = "other" /\ errors' = errors
      BY <1>1, <1>7 DEF ToHTTPRouteRule
    <2>2. PathIn(ingressList, p).type = "other"
      BY <1>6, <2>1 DEF PathMatchKey
    <2>3. Unknown(RuleOf(ingressList, p).paths[p.path]) /\ p.path \in DOMAIN RuleOf(ingressList, p).paths
      BY <1>6, <2>2 DEF Unknown, RuleOf, PathIn, ValidPath
    <2>4. Panics(ingresses)
      BY <1>1, <1>6, <2>3, RulePanics DEF ValidPath, Collected
    <2> QED
      BY <1>1, <1>7, <2>1, <2>4, FaultsStay
  <1>8. CASE phase' # "panicked"
    <2>1. phase' # "failed"
      BY <1>1, <1>8 DEF ToHTTPRouteRule
    <2>2. errors' = errors \/ MatchFails(matchKeys[i])
      BY DEF ToHTTPRouteRule
    <2>3. MatchFails(matchKeys[i]) => Fails(ingresses)
      BY <1>1, <1>6, PathAtFault DEF Building
    <2> QED
      BY <1>1, <1>8, <2>1, <2>2, <2>3, FaultsStay
  <1> QED
    BY <1>7, <1>8

LEMMA ConfigureBackendRefFaults ==
  ASSUME TypeInv, OnceInv, ListInv, GatheredInv, FaultsReal, ConfigureBackendRef
  PROVE  FaultsReal'
  <1> USE DEF groupVars, pathVars, buildVars, outVars
  <1>1. phase = "backends" /\ phase' = "backends" /\ j <= Len(pathsByKey[matchKeys[i]]) /\ UNCHANGED ingresses
    BY DEF ConfigureBackendRef
  <1>2. PICK p : p = pathsByKey[matchKeys[i]][j]
    OBVIOUS
  <1>3. ValidPath(ingressList, p) /\ InGroup(ingressList, p, current) /\ p.rule # 0
    BY <1>1, <1>2, CurrentBackend
  <1>4. BackendAt(p) = PathIn(ingressList, p).backend
    BY <1>3 DEF BackendAt, PathAt, PathIn
  <1>5. current.ns = route.ns
    BY <1>1 DEF TypeInv, Linked, PathsLinked, Building
  <1>6. errors' = errors \/ ~Resolves(route.ns, BackendAt(p))
    BY <1>2 DEF ConfigureBackendRef
  <1>7. ~Resolves(route.ns, BackendAt(p)) => Fails(ingresses)
    BY <1>1, <1>3, <1>4, <1>5, PathAtFault DEF Building
  <1> QED
    BY <1>1, <1>6, <1>7, FaultsStay

LEMMA DefaultBackendRouteFaults ==
  ASSUME TypeInv, ListInv, FaultsReal, DefaultBackendRoute
  PROVE  FaultsReal'
  <1> USE DEF groupVars, pathVars, buildVars, outVars
  <1>1. phase = "defaults" /\ phase' = "defaults" /\ i <= Len(defaultBackends) /\ UNCHANGED ingresses
    BY DEF DefaultBackendRoute
  <1>2. i \in DOMAIN defaultBackends
    BY <1>1 DEF TypeInv, TypeOK
  <1>3. PICK n \in DOMAIN ingressList : n = defaultBackends[i] /\ ingressList[n].defaultBackend # <<>>
    BY <1>2 DEF TypeInv, Linked, DefaultsLinked
  <1>4. PICK ing \in ingresses : ing = ingressList[n]
    BY <1>1, ListFacts
  <1>5. BackendAt([ingress |-> n, rule |-> 0, path |-> 0]) = ing.defaultBackend[1]
    BY <1>4 DEF BackendAt
  <1>6. errors' = errors \/ ~Resolves(ing.ns, ing.defaultBackend[1])
    BY <1>3, <1>4, <1>5 DEF DefaultBackendRoute
  <1>7. ~Resolves(ing.ns, ing.defaultBackend[1]) => Fails(ingresses)
    BY <1>3, <1>4 DEF Fails, FailsWith, Resolves, HasDefault
  <1> QED
    BY <1>1, <1>6, <1>7, FaultsStay

LEMMA NextGatewayFaults ==
  ASSUME TypeInv, OnceInv, ListInv, GatheredInv, ListenersInOrder, FaultsReal, NextGateway
  PROVE  FaultsReal'
  <1> USE DEF groupVars, pathVars, buildVars, outVars
  <1>1. phase = "gateways" /\ phase' \in {"gateways", "listeners"} /\ UNCHANGED ingresses
    BY DEF NextGateway
  <1>2. PICK g \in pending : errors' = errors \/ "/" \in {g.class[n] : n \in DOMAIN g.class}
    BY DEF NextGateway
  <1>3. g \in DOMAIN listeners
    BY <1>1 DEF TypeInv, Linked, PendingLinked
  <1>4. PICK k \in DOMAIN ruleGroups : GatewayOf(k) = g
    BY <1>1, <1>3, ListedGateway DEF Afterwards
  <1>5. k \in Groups(ingresses)
    BY <1>1, GroupsAre DEF Collected
  <1>6. g.class = k.class
    BY <1>4 DEF GatewayOf
  <1>7. "/" \in {g.class[n] : n \in DOMAIN g.class} => Fails(ingresses)
    BY <1>5, <1>6 DEF Fails, FailsWith, ToSet
  <1> QED
    BY <1>1, <1>2, <1>7, FaultsStay

LEMMA GroupIngressPathFaults ==
  ASSUME TypeInv, ListInv, FaultsReal, GroupIngressPath
  PROVE  FaultsReal'
  <1> USE DEF groupVars, pathVars, buildVars, outVars
  <1>1. phase = "paths" /\ i <= Len(ruleGroups[current].rules) /\ UNCHANGED <<ingresses, errors>>
    BY DEF GroupIngressPath
  <1>2. current \in DOMAIN ruleGroups
    BY <1>1 DEF TypeInv, Linked, PathsLinked, Building
  <1>3. ruleGroups[current] \in RuleGroup
    BY <1>2 DEF TypeInv, TypeOK, MapOf
  <1>4. i \in DOMAIN ruleGroups[current].rules
    BY <1>1, <1>3 DEF TypeInv, TypeOK, RuleGroup
  <1>5. PICK m : m = ruleGroups[current].rules[i]
    OBVIOUS
  <1>6. m.ingress \in DOMAIN ingressList /\ m.rule \in DOMAIN ingressList[m.ingress].rules
    BY <1>2, <1>4, <1>5 DEF TypeInv, Linked, GroupsLinked, InGroup
  <1>7. phase' \in {"paths", "panicked"} /\ (phase' = "panicked" => ~RuleOf(ingressList, m).http)
    BY <1>1, <1>5 DEF GroupIngressPath, RuleOf
  <1>8. phase' = "panicked" => Panics(ingresses)
    BY <1>1, <1>6, <1>7, RulePanics DEF Collected
  <1> QED
    BY <1>1, <1>7, <1>8, FaultsStay

LEMMA NextFaultsReal ==
  TypeInv /\ OnceInv /\ ListInv /\ GatheredInv /\ PathsInOrder /\ ListenersInOrder /\ FaultsReal
    /\ [Next]_vars => FaultsReal'
  <1> USE DEF groupVars, pathVars, buildVars, outVars, Goto
  <1> SUFFICES ASSUME TypeInv, OnceInv, ListInv, GatheredInv, PathsInOrder, ListenersInOrder, FaultsReal,
                      [Next]_vars
               PROVE  FaultsReal'
    OBVIOUS
  <1>1. CASE \/ FromMap \/ AddIngressRule \/ AddDefaultBackend \/ SortRuleGroups \/ NextRuleGroup \/ PathsGrouped
             \/ AppendRule \/ RouteBuilt \/ GroupsBuilt \/ DefaultsBuilt \/ AddListener \/ GatewayBuilt
             \/ GatewaysBuilt \/ IndexRoute \/ RoutesIndexed \/ UNCHANGED vars
    <2>1. UNCHANGED <<ingresses, errors>> /\ (phase' = "panicked" => phase = "panicked")
      BY <1>1 DEF FromMap, AddIngressRule, AddDefaultBackend, SortRuleGroups, NextRuleGroup, PathsGrouped,
            AppendRule, RouteBuilt, GroupsBuilt, DefaultsBuilt, AddListener, GatewayBuilt, GatewaysBuilt,
            IndexRoute, RoutesIndexed, vars, AfterGateways
    <2>2. phase' = "failed" => errors' # {}
      BY <1>1 DEF FromMap, AddIngressRule, AddDefaultBackend, SortRuleGroups, NextRuleGroup, PathsGrouped,
            AppendRule, RouteBuilt, GroupsBuilt, DefaultsBuilt, AddListener, GatewayBuilt, GatewaysBuilt,
            IndexRoute, RoutesIndexed, vars, AfterGateways, FaultsReal
    <2> QED
      BY <2>1, <2>2, FaultsStay
  <1> QED
    BY <1>1, ToHTTPRouteRuleFaults, ConfigureBackendRefFaults, DefaultBackendRouteFaults, NextGatewayFaults,
       GroupIngressPathFaults DEF Next, Convert, Terminating

LEMMA NextChecked ==
  TypeInv /\ OnceInv /\ ListInv /\ GatheredInv /\ PathsInOrder /\ ListenersInOrder /\ CheckedInv
    /\ [Next]_vars => CheckedInv'
  BY NextGroupsChecked, NextRulesChecked, NextKeysChecked, NextDefaultsChecked, NextGatewaysChecked,
     NextFaultsReal DEF CheckedInv

(***************************************************************************)
(* The routes come in the order of the groups                              *)
(***************************************************************************)
LEMMA NextCurrentFirst == CurrentFirst /\ [Next]_vars => CurrentFirst'
  <1> USE DEF groupVars, pathVars, buildVars, outVars, Goto
  <1> SUFFICES ASSUME CurrentFirst, [Next]_vars, Building' PROVE \A l \in pending' : ~KeyPrecedes(l, current')
    BY DEF CurrentFirst
  <1>1. CASE NextRuleGroup
    <2>1. PICK k \in pending : (\A l \in pending : ~KeyPrecedes(l, k)) /\ current' = k /\ pending' = pending \ {k}
      BY <1>1 DEF NextRuleGroup
    <2> QED
      BY <2>1
  <1>2. CASE ~NextRuleGroup
    <2>1. Building /\ UNCHANGED <<pending, current>>
      BY <1>2 DEF Next, Convert, Terminating, Ended, vars, Building, FromMap, AddIngressRule, AddDefaultBackend,
            SortRuleGroups, GroupIngressPath, PathsGrouped, ToHTTPRouteRule, ConfigureBackendRef,
            AppendRule, RouteBuilt, GroupsBuilt, DefaultBackendRoute, DefaultsBuilt, NextGateway,
            AddListener, GatewayBuilt, GatewaysBuilt, IndexRoute, RoutesIndexed, AfterGateways
    <2> QED
      BY <2>1 DEF CurrentFirst
  <1> QED
    BY <1>1, <1>2

\* Steps that build no route and leave no group.
LEMMA QuietRoutesInOrder ==
  ASSUME RoutesInOrder, UNCHANGED <<ingresses, ingressList, ruleGroups, defaultBackends, httpRoutes>>,
         errors \subseteq errors', phase = "groups" \/ Building \/ phase \in Afterwards, Left' = Left,
         \A n, ks : Routed(n, ks) => DefaultsBuiltSoFar' = DefaultsBuiltSoFar
  PROVE  RoutesInOrder'
  <1> SUFFICES ASSUME errors' = {}
               PROVE  \E n \in 0..Len(httpRoutes') : \E ks \in [1..n -> DOMAIN ruleGroups'] : Routed(n, ks)'
    BY DEF RoutesInOrder
  <1>1. PICK n \in 0..Len(httpRoutes) : \E ks \in [1..n -> DOMAIN ruleGroups] : Routed(n, ks)
    BY DEF RoutesInOrder
  <1>2. PICK ks \in [1..n -> DOMAIN ruleGroups] : Routed(n, ks)
    BY <1>1
  <1>3. Routed(n, ks)'
    BY <1>2 DEF Routed
  <1> QED
    BY <1>1, <1>2, <1>3

LEMMA SortRuleGroupsInOrder ==
  ASSUME SourcesInv, SortRuleGroups
  PROVE  RoutesInOrder'
  <1> USE DEF groupVars, pathVars, buildVars, outVars, Goto
  <1> DEFINE ks == [x \in 1..0 |-> 0]
  <1>1. /\ phase' = "groups" /\ httpRoutes' = httpRoutes /\ pending' = DOMAIN ruleGroups
        /\ UNCHANGED <<ruleGroups, defaultBackends>> /\ phase = "aggregate"
    BY DEF SortRuleGroups
  <1>2. httpRoutes' = <<>> /\ Len(httpRoutes') = 0
    BY <1>1, EmptyIsSeq DEF SourcesInv, NothingBuilt
  <1>3. Left' = DOMAIN ruleGroups' /\ DefaultsBuiltSoFar' = 0
    BY <1>1 DEF Left, DefaultsBuiltSoFar
  <1>4. 1..0 = {} /\ 0 \in 0..Len(httpRoutes')
    BY <1>2
  <1>5. ks \in [1..0 -> DOMAIN ruleGroups']
    BY <1>4
  <1>6. DefaultsBuiltSoFar' \in 0..Len(defaultBackends')
    BY <1>1, <1>3, EmptyIsSeq
  <1> HIDE DEF ks
  <1>7. Routed(0, ks)'
    BY <1>2, <1>3, <1>4, <1>6 DEF Routed, Visits, Ascends
  <1> QED
    BY <1>4, <1>5, <1>7 DEF RoutesInOrder

\* One more group is visited: the one that comes first of those left.
LEMMA VisitNext ==
  ASSUME NEW n \in Nat, NEW ks, NEW left, NEW k \in left, NEW rest, rest \subseteq left, k \notin rest,
         Visits(n, ks, left), \A l \in rest : ~KeyPrecedes(l, k),
         NEW new, new[n + 1] = k, \A x \in 1..n : new[x] = ks[x]
  PROVE  Visits(n + 1, new, rest)
  <1>1. \A x \in 1..(n + 1) : x \in 1..n \/ x = n + 1
    OBVIOUS
  <1>2. \A x, y \in 1..(n + 1) : x < y => x \in 1..n /\ (y \in 1..n \/ y = n + 1)
    OBVIOUS
  <1>3. Ascends(n + 1, new)
    <2> SUFFICES ASSUME NEW x \in 1..(n + 1), NEW y \in 1..(n + 1), x < y
                 PROVE  new[x] # new[y] /\ ~KeyPrecedes(new[y], new[x])
      BY DEF Ascends
    <2>1. x \in 1..n /\ new[x] = ks[x] /\ ks[x] \notin left
      BY <1>2 DEF Visits
    <2>2. CASE y \in 1..n
      BY <2>1, <2>2 DEF Visits, Ascends
    <2>3. CASE y = n + 1
      BY <2>1, <2>3 DEF Visits
    <2> QED
      BY <1>2, <2>2, <2>3
  <1>4. \A x \in 1..(n + 1) : new[x] \notin rest /\ \A l \in rest : ~KeyPrecedes(l, new[x])
    BY <1>1 DEF Visits
  <1> QED
    BY <1>3, <1>4 DEF Visits

LEMMA RouteBuiltInOrder ==
  ASSUME TypeInv, SourcesInv, OnceInv, ListInv, GatheredInv, PathsInOrder, RouteNamed, CurrentFirst,
         RoutesInOrder, RouteBuilt
  PROVE  RoutesInOrder'
  <1> USE DEF groupVars, pathVars, buildVars, outVars, Goto
  <1> SUFFICES ASSUME errors' = {}
               PROVE  \E n \in 0..Len(httpRoutes') : \E ks \in [1..n -> DOMAIN ruleGroups'] : Routed(n, ks)'
    BY DEF RoutesInOrder
  <1>1. /\ phase = "rules" /\ i > Len(matchKeys) /\ phase' = "groups" /\ httpRoutes' = Append(httpRoutes, route)
        /\ UNCHANGED <<ingresses, ingressList, ruleGroups, defaultBackends, pending, current, errors>>
    BY DEF RouteBuilt
  <1>2. /\ Left = pending \union {current} /\ Left' = pending /\ Building
        /\ DefaultsBuiltSoFar = 0 /\ DefaultsBuiltSoFar' = 0
    BY <1>1 DEF Left, Building, DefaultsBuiltSoFar
  <1>3. current \notin pending /\ current \in DOMAIN ruleGroups
    BY <1>2 DEF OnceInv, CurrentTaken, TypeInv, Linked, PathsLinked
  <1>4. PICK n \in 0..Len(httpRoutes) : \E ks \in [1..n -> DOMAIN ruleGroups] : Routed(n, ks)
    BY <1>1, <1>2 DEF RoutesInOrder
  <1>5. PICK ks \in [1..n -> DOMAIN ruleGroups] : Routed(n, ks)
    BY <1>4
  <1>6. n \in Nat /\ Len(httpRoutes) = n
    BY <1>2, <1>4, <1>5 DEF Routed
  <1>7. IsSequence(httpRoutes)
    BY DEF TypeInv, TypeOK, IsSeqOf
  <1>8. /\ Len(httpRoutes') = n + 1 /\ httpRoutes'[n + 1] = route
        /\ \A x \in DOMAIN httpRoutes : httpRoutes'[x] = httpRoutes[x]
    BY <1>1, <1>6, <1>7, AppendOwn
  <1>9. DOMAIN httpRoutes = 1..n
    BY <1>6, <1>7 DEF IsSequence
  <1>19. PICK new : new = [x \in 1..(n + 1) |-> IF x = n + 1 THEN current ELSE ks[x]]
    OBVIOUS
  <1>10. new \in [1..(n + 1) -> DOMAIN ruleGroups]
    BY <1>3, <1>6, <1>19
  <1>11. new[n + 1] = current /\ \A x \in 1..n : new[x] = ks[x]
    BY <1>6, <1>19
  <1>12. Visits(n + 1, new, pending)
    <2>1. PICK left : left = pending \union {current}
      OBVIOUS
    <2>2. Visits(n, ks, left)
      BY <1>2, <1>5, <2>1 DEF Routed
    <2>3. current \in left /\ pending \subseteq left /\ current \notin pending
      BY <1>3, <2>1
    <2>4. \A l \in pending : ~KeyPrecedes(l, current)
      BY <1>2 DEF CurrentFirst
    <2> QED
      BY <1>6, <1>11, <2>2, <2>3, <2>4, VisitNext
  <1>13. \A k \in DOMAIN ruleGroups \ pending : \E x \in 1..(n + 1) : new[x] = k
    <2> SUFFICES ASSUME NEW k \in DOMAIN ruleGroups \ pending PROVE \E x \in 1..(n + 1) : new[x] = k
      OBVIOUS
    <2>1. CASE k = current
      BY <1>6, <1>11, <2>1
    <2>2. CASE k # current
      <3>1. PICK x \in 1..n : ks[x] = k
        BY <1>2, <1>5, <2>2 DEF Routed
      <3> QED
        BY <1>6, <1>11, <3>1
    <2> QED
      BY <2>1, <2>2
  <1>14. \A x \in 1..(n + 1) : OutRoute(ingressList, httpRoutes'[x]) = GroupRoute(ingresses, new[x])
    <2> SUFFICES ASSUME NEW x \in 1..(n + 1)
                 PROVE  OutRoute(ingressList, httpRoutes'[x]) = GroupRoute(ingresses, new[x])
      OBVIOUS
    <2>1. CASE x = n + 1
      <3>1. OutRoute(ingressList, route) = GroupRoute(ingresses, current)
        BY <1>1, RouteIsGroups
      <3> QED
        BY <1>8, <1>11, <2>1, <3>1
    <2>2. CASE x # n + 1
      <3>1. x \in 1..n
        BY <1>6, <2>2
      <3> QED
        BY <1>5, <1>8, <1>9, <1>11, <3>1 DEF Routed
    <2> QED
      BY <2>1, <2>2
  <1>15. DefaultsBuiltSoFar' \in 0..Len(defaultBackends') /\ Len(httpRoutes') = (n + 1) + DefaultsBuiltSoFar'
    BY <1>2, <1>6, <1>8 DEF TypeInv, TypeOK
  <1>16. \A x \in 1..DefaultsBuiltSoFar' : FALSE
    BY <1>2
  <1>17. Routed(n + 1, new)'
    BY <1>1, <1>2, <1>12, <1>13, <1>14, <1>15, <1>16 DEF Routed
  <1>18. n + 1 \in 0..Len(httpRoutes') /\ new \in [1..(n + 1) -> DOMAIN ruleGroups']
    BY <1>1, <1>6, <1>8, <1>10
  <1> QED
    BY <1>17, <1>18

LEMMA DefaultBackendRouteInOrder ==
  ASSUME TypeInv, RoutesInOrder, DefaultBackendRoute
  PROVE  RoutesInOrder'
  <1> USE DEF groupVars, pathVars, buildVars, outVars, Goto
  <1> SUFFICES ASSUME errors' = {}
               PROVE  \E n \in 0..Len(httpRoutes') : \E ks \in [1..n -> DOMAIN ruleGroups'] : Routed(n, ks)'
    BY DEF RoutesInOrder
  <1> DEFINE m == defaultBackends[i]
             p == [ingress |-> m, rule |-> 0, path |-> 0]
             rt == [ns |-> ingressList[m].ns, name |-> DefaultRouteName(ingressList[m].name),
                    class |-> GetIngressClass(ingressList[m]), host |-> <<>>,
                    rules |-> <<[name |-> 0, match |-> Nothing,
                                 backendRefs |-> <<ToBackendRef(ingressList[m].ns, BackendAt(p))>>]>>,
                    sources |-> << <<p>> >>]
  <1>1. /\ phase = "defaults" /\ phase' = "defaults" /\ i <= Len(defaultBackends) /\ i' = i + 1
        /\ UNCHANGED <<ingresses, ingressList, ruleGroups, defaultBackends, pending, current>>
    BY DEF DefaultBackendRoute
  <1>2. errors = {} /\ httpRoutes' = Append(httpRoutes, rt)
    BY DEF DefaultBackendRoute
  <1>3. OutRoute(ingressList, rt) = DefaultRoute(ingressList[m])
    BY DefaultIsDefault
  <1> HIDE DEF rt
  <1>4. /\ Left = {} /\ Left' = {} /\ DefaultsBuiltSoFar = i - 1 /\ DefaultsBuiltSoFar' = i
    <2>1. ~Building /\ ~Building'
      BY <1>1 DEF Building
    <2>2. DefaultsBuiltSoFar = i - 1 /\ DefaultsBuiltSoFar' = i' - 1
      BY <1>1, <2>1 DEF DefaultsBuiltSoFar
    <2>3. (i + 1) - 1 = i
      BY DEF TypeInv, TypeOK
    <2>4. Left = {} /\ Left' = {}
      BY <1>1, <2>1 DEF Left
    <2> QED
      BY <1>1, <2>2, <2>3, <2>4
  <1>5. PICK n \in 0..Len(httpRoutes) : \E ks \in [1..n -> DOMAIN ruleGroups] : Routed(n, ks)
    BY <1>1, <1>2 DEF RoutesInOrder, Afterwards
  <1>6. PICK ks \in [1..n -> DOMAIN ruleGroups] : Routed(n, ks)
    BY <1>5
  <1>7. n \in Nat /\ i \in Nat \ {0} /\ Len(httpRoutes) = n + (i - 1)
    <2>1. n \in Nat
      BY <1>5
    <2>2. Len(httpRoutes) = n + (i - 1)
      BY <1>4, <1>6 DEF Routed
    <2> QED
      BY <2>1, <2>2 DEF TypeInv, TypeOK
  <1>8. IsSequence(httpRoutes)
    BY DEF TypeInv, TypeOK, IsSeqOf
  <1>9. /\ Len(httpRoutes') = n + i /\ httpRoutes'[n + i] = rt
        /\ \A x \in DOMAIN httpRoutes : httpRoutes'[x] = httpRoutes[x]
    <2>1. (n + (i - 1)) + 1 = n + i
      BY <1>7
    <2> QED
      BY <1>2, <1>7, <1>8, <2>1, AppendOwn
  <1>10. DOMAIN httpRoutes = 1..(n + (i - 1))
    BY <1>7, <1>8 DEF IsSequence
  <1>11. \A x \in 1..n : OutRoute(ingressList, httpRoutes'[x]) = GroupRoute(ingresses, ks[x])
    <2> SUFFICES ASSUME NEW x \in 1..n PROVE OutRoute(ingressList, httpRoutes'[x]) = GroupRoute(ingresses, ks[x])
      OBVIOUS
    <2>1. x \in DOMAIN httpRoutes
      BY <1>7, <1>10
    <2> QED
      BY <1>6, <1>9, <2>1 DEF Routed
  <1>12. \A x \in 1..i : OutRoute(ingressList, httpRoutes'[n + x]) = DefaultRoute(ingressList[defaultBackends[x]])
    <2> SUFFICES ASSUME NEW x \in 1..i
                 PROVE  OutRoute(ingressList, httpRoutes'[n + x]) = DefaultRoute(ingressList[defaultBackends[x]])
      OBVIOUS
    <2>1. CASE x = i
      BY <1>3, <1>9, <2>1
    <2>2. CASE x # i
      <3>1. x \in 1..(i - 1) /\ n + x \in DOMAIN httpRoutes
        BY <1>7, <1>10, <2>2
      <3>2. OutRoute(ingressList, httpRoutes[n + x]) = DefaultRoute(ingressList[defaultBackends[x]])
        BY <1>4, <1>6, <3>1 DEF Routed
      <3> QED
        BY <1>9, <3>1, <3>2
    <2> QED
      BY <2>1, <2>2
  <1>13. i \in 0..Len(defaultBackends)
    BY <1>1, <1>7
  <1>14. Visits(n, ks, {}) /\ \A k \in DOMAIN ruleGroups \ {} : \E x \in 1..n : ks[x] = k
    BY <1>4, <1>6 DEF Routed
  <1>15. Routed(n, ks)'
    BY <1>1, <1>4, <1>9, <1>11, <1>12, <1>13, <1>14 DEF Routed
  <1>16. n \in 0..Len(httpRoutes')
    BY <1>7, <1>9
  <1> QED
    BY <1>1, <1>6, <1>15, <1>16

LEMMA NextRuleGroupInOrder ==
  ASSUME RoutesInOrder, NextRuleGroup
  PROVE  RoutesInOrder'
  <1> USE DEF groupVars, pathVars, buildVars, outVars, Goto
  <1>1. PICK k \in pending : current' = k /\ pending' = pending \ {k}
    BY DEF NextRuleGroup
  <1>2. /\ phase = "groups" /\ phase' = "paths"
        /\ UNCHANGED <<ingresses, ingressList, ruleGroups, defaultBackends, httpRoutes, errors>>
    BY DEF NextRuleGroup
  <1>3. Left = pending /\ Left' = pending' \union {current'}
    BY <1>2 DEF Left, Building
  <1>4. Left' = Left
    BY <1>1, <1>3
  <1>5. DefaultsBuiltSoFar = 0 /\ DefaultsBuiltSoFar' = 0
    BY <1>2 DEF DefaultsBuiltSoFar, Building
  <1> QED
    BY <1>2, <1>4, <1>5, QuietRoutesInOrder

\* The default backends are started with none and left when all are done.
LEMMA DefaultsInOrder ==
  ASSUME TypeInv, RoutesInOrder, GroupsBuilt \/ DefaultsBuilt
  PROVE  RoutesInOrder'
  <1> USE DEF groupVars, pathVars, buildVars, outVars, Goto
  <1>1. CASE GroupsBuilt
    <2>1. /\ phase = "groups" /\ phase' = "defaults" /\ pending = {} /\ i' = 1
          /\ UNCHANGED <<ingresses, ingressList, ruleGroups, defaultBackends, httpRoutes, errors, pending>>
      BY <1>1 DEF GroupsBuilt
    <2>2. Left = {} /\ Left' = {}
      BY <2>1 DEF Left, Building
    <2>3. DefaultsBuiltSoFar = 0 /\ DefaultsBuiltSoFar' = 0
      BY <2>1 DEF DefaultsBuiltSoFar, Building
    <2> QED
      BY <2>1, <2>2, <2>3, QuietRoutesInOrder
  <1>2. CASE DefaultsBuilt
    <2>1. /\ phase = "defaults" /\ phase' = "gateways" /\ i > Len(defaultBackends)
          /\ UNCHANGED <<ingresses, ingressList, ruleGroups, defaultBackends, httpRoutes, errors>>
      BY <1>2 DEF DefaultsBuilt
    <2>2. Left = {} /\ Left' = {}
      BY <2>1 DEF Left, Building
    <2>3. DefaultsBuiltSoFar = i - 1 /\ DefaultsBuiltSoFar' = Len(defaultBackends)
      BY <2>1 DEF DefaultsBuiltSoFar, Building
    <2>4. ASSUME NEW n, NEW ks, Routed(n, ks) PROVE DefaultsBuiltSoFar' = DefaultsBuiltSoFar
      <3>1. i - 1 \in 0..Len(defaultBackends)
        BY <2>3, <2>4 DEF Routed
      <3> QED
        BY <2>1, <2>3, <3>1 DEF TypeInv, TypeOK
    <2> QED
      BY <2>1, <2>2, <2>4, QuietRoutesInOrder DEF Afterwards
  <1> QED
    BY <1>1, <1>2

LEMMA NextRoutesInOrder ==
  TypeInv /\ SourcesInv /\ OnceInv /\ ListInv /\ GatheredInv /\ PathsInOrder /\ RouteNamed /\ CurrentFirst
    /\ RoutesInOrder /\ [Next]_vars => RoutesInOrder'
  <1> USE DEF groupVars, pathVars, buildVars, outVars, Goto
  <1> SUFFICES ASSUME TypeInv, SourcesInv, OnceInv, ListInv, GatheredInv, PathsInOrder, RouteNamed, CurrentFirst,
                      RoutesInOrder, [Next]_vars
               PROVE  RoutesInOrder'
    OBVIOUS
  <1>1. CASE FromMap \/ AddIngressRule \/ AddDefaultBackend
    <2>1. phase' = "aggregate"
      BY <1>1 DEF FromMap, AddIngressRule, AddDefaultBackend
    <2> QED
      BY <2>1 DEF RoutesInOrder, Building, Afterwards
  <1>2. CASE phase' = "panicked"
    BY <1>2 DEF RoutesInOrder, Building, Afterwards
  <1>3. CASE /\ phase' # "panicked"
             /\ GroupIngressPath \/ PathsGrouped \/ ToHTTPRouteRule \/ ConfigureBackendRef \/ AppendRule
    <2>1. /\ phase \in {"paths", "rules", "backends"} /\ phase' \in {"paths", "rules", "backends"}
          /\ UNCHANGED <<ingresses, ingressList, ruleGroups, defaultBackends, httpRoutes, pending, current>>
          /\ errors \subseteq errors'
      BY <1>3 DEF GroupIngressPath, PathsGrouped, ToHTTPRouteRule, ConfigureBackendRef, AppendRule
    <2>2. Building /\ Building'
      BY <2>1 DEF Building
    <2>3. Left' = Left
      BY <2>1, <2>2 DEF Left, Building
    <2>4. DefaultsBuiltSoFar = 0 /\ DefaultsBuiltSoFar' = 0
      BY <2>2 DEF DefaultsBuiltSoFar
    <2> QED
      BY <2>1, <2>2, <2>3, <2>4, QuietRoutesInOrder
  <1>4. CASE NextGateway \/ AddListener \/ GatewayBuilt \/ GatewaysBuilt \/ IndexRoute \/ RoutesIndexed
    <2>1. /\ phase \in Afterwards \ {"defaults"} /\ phase' \in Afterwards \ {"defaults"}
          /\ UNCHANGED <<ingresses, ingressList, ruleGroups, defaultBackends, httpRoutes>>
          /\ errors \subseteq errors'
      BY <1>4 DEF NextGateway, AddListener, GatewayBuilt, GatewaysBuilt, IndexRoute, RoutesIndexed, AfterGateways,
            Afterwards
    <2>2. Left = {} /\ Left' = {}
      BY <2>1 DEF Left, Building, Afterwards
    <2>3. DefaultsBuiltSoFar = Len(defaultBackends) /\ DefaultsBuiltSoFar' = Len(defaultBackends)
      BY <2>1 DEF DefaultsBuiltSoFar, Building, Afterwards
    <2> QED
      BY <2>1, <2>2, <2>3, QuietRoutesInOrder
  <1>5. CASE UNCHANGED vars
    <2>1. UNCHANGED <<ingresses, ingressList, ruleGroups, defaultBackends, httpRoutes, phase, pending, current, errors, i>>
      BY <1>5 DEF vars
    <2>2. Left' = Left /\ DefaultsBuiltSoFar' = DefaultsBuiltSoFar
      BY <2>1 DEF Left, DefaultsBuiltSoFar, Building
    <2>3. CASE phase = "groups" \/ Building \/ phase \in Afterwards
      BY <2>1, <2>2, <2>3, QuietRoutesInOrder
    <2>4. CASE ~(phase = "groups" \/ Building \/ phase \in Afterwards)
      BY <2>1, <2>4 DEF RoutesInOrder, Building
    <2> QED
      BY <2>3, <2>4
  <1> QED
    BY <1>1, <1>2, <1>3, <1>4, <1>5, SortRuleGroupsInOrder, NextRuleGroupInOrder, RouteBuiltInOrder, DefaultsInOrder,
       DefaultBackendRouteInOrder DEF Next, Convert, Terminating

(***************************************************************************)
(* The listeners come in the order of the groups                           *)
(***************************************************************************)
\* Leaving a group of another Gateway.
LEMMA StillListed ==
  ASSUME NEW g, NEW ls, NEW left, Listed(g, ls, left), NEW rest, rest \subseteq left,
         \A k \in left \ rest : GatewayOf(k) # g
  PROVE  Listed(g, ls, rest)
  <1>1. PICK ks \in [1..Len(ls) -> DOMAIN ruleGroups] :
          /\ Visits(Len(ls), ks, left)
          /\ \A x \in 1..Len(ls) : GatewayOf(ks[x]) = g /\ ls[x] = ListenerOf(ruleGroups[ks[x]])
          /\ \A k \in DOMAIN ruleGroups \ left : GatewayOf(k) = g => \E x \in 1..Len(ls) : ks[x] = k
    BY DEF Listed
  <1>2. Visits(Len(ls), ks, rest)
    BY <1>1 DEF Visits
  <1>3. \A k \in DOMAIN ruleGroups \ rest : GatewayOf(k) = g => \E x \in 1..Len(ls) : ks[x] = k
    BY <1>1
  <1> QED
    BY <1>1, <1>2, <1>3 DEF Listed

\* Leaving the next group of this Gateway.
LEMMA AlsoListed ==
  ASSUME NEW T, NEW ls \in Seq(T), NEW left, NEW k \in left, k \in DOMAIN ruleGroups,
         Listed(GatewayOf(k), ls, left), NEW rest, rest = left \ {k}, \A l \in left : ~KeyPrecedes(l, k),
         NEW new, new = Append(ls, ListenerOf(ruleGroups[k]))
  PROVE  Listed(GatewayOf(k), new, rest)
  <1>1. PICK ks \in [1..Len(ls) -> DOMAIN ruleGroups] :
          /\ Visits(Len(ls), ks, left)
          /\ \A x \in 1..Len(ls) : GatewayOf(ks[x]) = GatewayOf(k) /\ ls[x] = ListenerOf(ruleGroups[ks[x]])
          /\ \A m \in DOMAIN ruleGroups \ left : GatewayOf(m) = GatewayOf(k) => \E x \in 1..Len(ls) : ks[x] = m
    BY DEF Listed
  <1>2. IsSequence(ls)
    BY OwnElements
  <1>3. PICK n \in Nat : n = Len(ls) /\ DOMAIN ls = 1..n
    BY <1>2 DEF IsSequence
  <1>4. Len(new) = n + 1 /\ new[n + 1] = ListenerOf(ruleGroups[k]) /\ \A x \in 1..n : new[x] = ls[x]
    BY <1>2, <1>3, AppendOwn
  <1>5. PICK js : js = [x \in 1..(n + 1) |-> IF x = n + 1 THEN k ELSE ks[x]]
    OBVIOUS
  <1>6. js \in [1..(n + 1) -> DOMAIN ruleGroups]
    BY <1>3, <1>5
  <1>7. js[n + 1] = k /\ \A x \in 1..n : js[x] = ks[x]
    BY <1>3, <1>5
  <1>8. Visits(n + 1, js, rest)
    <2>1. Visits(n, ks, left)
      BY <1>1, <1>3
    <2>2. rest \subseteq left /\ k \notin rest /\ \A l \in rest : ~KeyPrecedes(l, k)
      OBVIOUS
    <2> QED
      BY <1>3, <1>7, <2>1, <2>2, VisitNext
  <1>9. \A x \in 1..(n + 1) : GatewayOf(js[x]) = GatewayOf(k) /\ new[x] = ListenerOf(ruleGroups[js[x]])
    <2> SUFFICES ASSUME NEW x \in 1..(n + 1)
                 PROVE  GatewayOf(js[x]) = GatewayOf(k) /\ new[x] = ListenerOf(ruleGroups[js[x]])
      OBVIOUS
    <2>1. CASE x = n + 1
      BY <1>4, <1>7, <2>1
    <2>2. CASE x # n + 1
      <3>1. x \in 1..n
        BY <1>3, <2>2
      <3> QED
        BY <1>1, <1>3, <1>4, <1>7, <3>1
    <2> QED
      BY <2>1, <2>2
  <1>10. ASSUME NEW m \in DOMAIN ruleGroups \ rest, GatewayOf(m) = GatewayOf(k)
         PROVE  \E x \in 1..(n + 1) : js[x] = m
    <2>1. CASE m = k
      BY <1>3, <1>7, <2>1
    <2>2. CASE m # k
      <3>1. PICK x \in 1..n : ks[x] = m
        BY <1>1, <1>3, <1>10, <2>2
      <3> QED
        BY <1>3, <1>7, <3>1
    <2> QED
      BY <2>1, <2>2
  <1> DEFINE Lists(c) ==
               \E js1 \in [1..c -> DOMAIN ruleGroups] :
                 /\ Visits(c, js1, rest)
                 /\ \A x \in 1..c : GatewayOf(js1[x]) = GatewayOf(k) /\ new[x] = ListenerOf(ruleGroups[js1[x]])
                 /\ \A m \in DOMAIN ruleGroups \ rest : GatewayOf(m) = GatewayOf(k) => \E x \in 1..c : js1[x] = m
  <1>11. Lists(n + 1)
    BY <1>6, <1>8, <1>9, <1>10
  <1> HIDE DEF Lists
  <1>12. Lists(Len(new))
    BY <1>4, <1>11
  <1> QED
    BY <1>12 DEF Listed, Lists

LEMMA NextRuleGroupListed ==
  ASSUME TypeInv, ListenersInOrder, NextRuleGroup
  PROVE  ListenersInOrder'
  <1> USE DEF groupVars, pathVars, buildVars, outVars, Goto
  <1>1. /\ phase = "groups" /\ phase' = "paths" /\ UNCHANGED <<ingresses, ingressList, ruleGroups>>
    BY DEF NextRuleGroup
  <1>2. PICK k \in pending :
          /\ \A l \in pending : ~KeyPrecedes(l, k)
          /\ LET rg    == ruleGroups[k]
                 gwKey == [ns |-> rg.ns, class |-> rg.class]
                 old   == IF gwKey \in DOMAIN listeners THEN listeners[gwKey] ELSE <<>>
             IN  listeners' = Put(listeners, gwKey,
                   Append(old, [host |-> ListenerHost(rg), certs |-> Secrets(rg.tls)]))
          /\ pending' = pending \ {k}
    BY DEF NextRuleGroup
  <1>3. k \in DOMAIN ruleGroups
    BY <1>1 DEF TypeInv, Linked, PendingLinked
  <1>4. PICK gw : gw = GatewayOf(k)
    OBVIOUS
  <1>5. gw = [ns |-> ruleGroups[k].ns, class |-> ruleGroups[k].class]
    BY <1>3, <1>4 DEF TypeInv, Linked, GroupsLinked, GatewayOf
  <1>6. PICK old : old = IF gw \in DOMAIN listeners THEN listeners[gw] ELSE <<>>
    OBVIOUS
  <1>7. PICK new : new = Append(old, ListenerOf(ruleGroups[k]))
    OBVIOUS
  <1>8. listeners' = Put(listeners, gw, new)
    BY <1>2, <1>5, <1>6, <1>7 DEF ListenerOf
  <1>9. DOMAIN listeners' = DOMAIN listeners \union {gw} /\ listeners'[gw] = new
        /\ \A g \in DOMAIN listeners : g # gw => listeners'[g] = listeners[g]
    BY <1>8 DEF Put
  <1>10. ListenersLeft = pending /\ ListenersLeft' = pending \ {k}
    BY <1>1, <1>2 DEF ListenersLeft, Building
  <1>11. /\ \A m \in DOMAIN ruleGroups \ pending : GatewayOf(m) \in DOMAIN listeners
         /\ \A g \in DOMAIN listeners : listeners[g] # <<>> /\ Listed(g, listeners[g], pending)
    BY <1>1, <1>10 DEF ListenersInOrder
  <1>12. old \in Seq([host : String, certs : Seq(STRING)])
    <2> DEFINE T == [host : String, certs : Seq(STRING)]
    <2>1. gw \in DOMAIN listeners => listeners[gw] \in Seq(T)
      BY DEF TypeInv, TypeOK, MapOf
    <2>2. <<>> \in Seq(T)
      OBVIOUS
    <2> QED
      BY <1>6, <2>1, <2>2
  <1>13. Listed(gw, old, pending)
    <2>1. CASE gw \in DOMAIN listeners
      BY <1>6, <1>11, <2>1
    <2>2. CASE gw \notin DOMAIN listeners
      <3>1. old = <<>> /\ Len(old) = 0 /\ 1..0 = {}
        BY <1>6, <2>2, EmptyIsSeq
      <3>2. PICK ks : ks = [x \in 1..0 |-> k]
        OBVIOUS
      <3>3. ks \in [1..Len(old) -> DOMAIN ruleGroups]
        BY <3>1, <3>2
      <3>4. Visits(0, ks, pending)
        BY <3>1 DEF Visits, Ascends
      <3>5. \A m \in DOMAIN ruleGroups \ pending : GatewayOf(m) # gw
        BY <1>11, <2>2
      <3> QED
        BY <3>1, <3>3, <3>4, <3>5 DEF Listed
    <2> QED
      BY <2>1, <2>2
  <1>14. Listed(gw, new, pending \ {k})
    BY <1>2, <1>3, <1>4, <1>7, <1>12, <1>13, AlsoListed
  <1>15. new # <<>>
    <2>1. IsSequence(old)
      BY <1>12, OwnElements
    <2>2. Len(new) = Len(old) + 1 /\ Len(old) \in Nat
      BY <1>7, <2>1, AppendOwn DEF IsSequence
    <2> QED
      BY <2>2, EmptyIsSeq
  <1>16. ASSUME NEW g \in DOMAIN listeners'
         PROVE  listeners'[g] # <<>> /\ Listed(g, listeners'[g], pending \ {k})
    <2>1. CASE g = gw
      BY <1>9, <1>14, <1>15, <2>1
    <2>2. CASE g # gw
      <3>1. g \in DOMAIN listeners /\ listeners'[g] = listeners[g]
        BY <1>9, <2>2
      <3>2. \A m \in pending \ (pending \ {k}) : GatewayOf(m) # g
        BY <1>4, <2>2
      <3>3. Listed(g, listeners[g], pending)
        BY <1>11, <3>1
      <3>4. Listed(g, listeners[g], pending \ {k})
        BY <3>2, <3>3, StillListed
      <3> QED
        BY <1>11, <3>1, <3>4
    <2> QED
      BY <2>1, <2>2
  <1>17. \A m \in DOMAIN ruleGroups \ (pending \ {k}) : GatewayOf(m) \in DOMAIN listeners'
    BY <1>4, <1>9, <1>11
  <1>18. \A g, ls, left : Listed(g, ls, left) => Listed(g, ls, left)'
    BY <1>1 DEF Listed
  <1> QED
    BY <1>1, <1>10, <1>16, <1>17, <1>18 DEF ListenersInOrder

\* Steps that visit no group.
LEMMA QuietListed ==
  ASSUME ListenersInOrder, UNCHANGED <<ruleGroups, listeners>>, ListenersLeft' = ListenersLeft,
         phase = "groups" \/ Building \/ phase \in Afterwards,
         phase' \notin {"list", "aggregate"}
  PROVE  ListenersInOrder'
  <1>1. \A g, ls, left : Listed(g, ls, left) => Listed(g, ls, left)'
    BY DEF Listed
  <1> QED
    BY <1>1 DEF ListenersInOrder

LEMMA NextListenersInOrder == TypeInv /\ ListenersInOrder /\ [Next]_vars => ListenersInOrder'
  <1> USE DEF groupVars, pathVars, buildVars, outVars, Goto
  <1> SUFFICES ASSUME TypeInv, ListenersInOrder, [Next]_vars PROVE ListenersInOrder'
    OBVIOUS
  <1>1. CASE FromMap \/ AddIngressRule \/ AddDefaultBackend
    <2>1. phase \in {"list", "aggregate"} /\ phase' = "aggregate" /\ listeners' = listeners
      BY <1>1 DEF FromMap, AddIngressRule, AddDefaultBackend
    <2> QED
      BY <2>1 DEF ListenersInOrder, Building, Afterwards
  <1>2. CASE SortRuleGroups
    <2>1. /\ phase = "aggregate" /\ phase' = "groups" /\ pending' = DOMAIN ruleGroups
          /\ UNCHANGED <<ruleGroups, listeners>>
      BY <1>2 DEF SortRuleGroups
    <2>2. listeners = EmptyMap
      BY <2>1 DEF ListenersInOrder
    <2>3. DOMAIN listeners' = {}
      BY <2>1, <2>2 DEF EmptyMap
    <2>4. ListenersLeft' = DOMAIN ruleGroups'
      BY <2>1 DEF ListenersLeft
    <2> QED
      BY <2>1, <2>3, <2>4 DEF ListenersInOrder
  <1>3. CASE phase' = "panicked"
    BY <1>3 DEF ListenersInOrder, Building, Afterwards
  <1>4. CASE /\ phase' # "panicked"
             /\ \/ GroupIngressPath \/ PathsGrouped \/ ToHTTPRouteRule \/ ConfigureBackendRef \/ AppendRule
                \/ RouteBuilt
    <2>1. /\ phase \in {"paths", "rules", "backends"} /\ phase' \in {"groups", "paths", "rules", "backends"}
          /\ UNCHANGED <<ruleGroups, listeners, pending>>
      BY <1>4 DEF GroupIngressPath, PathsGrouped, ToHTTPRouteRule, ConfigureBackendRef, AppendRule, RouteBuilt
    <2>2. ListenersLeft' = ListenersLeft
      BY <2>1 DEF ListenersLeft, Building
    <2> QED
      BY <2>1, <2>2, QuietListed DEF Building
  <1>5. CASE \/ GroupsBuilt \/ DefaultBackendRoute \/ DefaultsBuilt \/ NextGateway \/ AddListener \/ GatewayBuilt
             \/ GatewaysBuilt \/ IndexRoute \/ RoutesIndexed
    <2>1. /\ phase \in Afterwards \/ (phase = "groups" /\ pending = {})
          /\ phase' \in Afterwards /\ UNCHANGED <<ruleGroups, listeners>>
      BY <1>5 DEF GroupsBuilt, DefaultBackendRoute, DefaultsBuilt, NextGateway, AddListener, GatewayBuilt,
            GatewaysBuilt, IndexRoute, RoutesIndexed, AfterGateways, Afterwards
    <2>2. ListenersLeft = {} /\ ListenersLeft' = {}
      BY <2>1 DEF ListenersLeft, Building, Afterwards
    <2> QED
      BY <2>1, <2>2, QuietListed DEF Afterwards
  <1>6. CASE UNCHANGED vars
    <2>1. UNCHANGED <<ruleGroups, listeners, phase, pending>>
      BY <1>6 DEF vars
    <2>2. ListenersLeft' = ListenersLeft
      BY <2>1 DEF ListenersLeft, Building
    <2>3. CASE phase \in {"list", "aggregate"}
      BY <2>1, <2>3 DEF ListenersInOrder, Building, Afterwards
    <2>4. CASE phase \notin {"list", "aggregate"}
      <3>1. CASE phase = "groups" \/ Building \/ phase \in Afterwards
        BY <2>1, <2>2, <2>4, <3>1, QuietListed
      <3>2. CASE ~(phase = "groups" \/ Building \/ phase \in Afterwards)
        BY <2>1, <2>4, <3>2 DEF ListenersInOrder, Building
      <3> QED
        BY <3>1, <3>2
    <2> QED
      BY <2>3, <2>4
  <1> QED
    BY <1>1, <1>2, <1>3, <1>4, <1>5, <1>6, NextRuleGroupListed DEF Next, Convert, Terminating

(***************************************************************************)
(* The Gateways have their listeners in order                              *)
(***************************************************************************)
LEMMA ListenersShape ==
  ASSUME NEW l
  PROVE  /\ IsSeq(GatewayListeners(l)) /\ DOMAIN GatewayListeners(l) = 1..Len(GatewayListeners(l))
         /\ Len(GatewayListeners(l)) \in {1, 2}
  <1> DEFINE listener(scheme, port, certs) ==
               [name |-> ListenerName(l.host, scheme), host |-> l.host, port |-> port, certs |-> certs]
  <1>1. PICK a : a = listener("http", 80, <<>>)
    OBVIOUS
  <1>2. PICK b : b = listener("https", 443, l.certs)
    OBVIOUS
  <1>3. PICK gl : gl = GatewayListeners(l)
    OBVIOUS
  <1>4. gl = <<a>> \/ gl = <<a, b>>
    <2>1. gl = <<a>> \o IF l.certs = <<>> THEN <<>> ELSE <<b>>
      BY <1>1, <1>2, <1>3 DEF GatewayListeners
    <2> QED
      BY <2>1, OneAfterOther
  <1> HIDE DEF listener
  <1>5. CASE gl = <<a>>
    BY <1>3, <1>5, SingleIsSeq
  <1>6. CASE gl = <<a, b>>
    <2>1. gl \in Seq({a, b}) /\ Len(gl) = 2
      BY <1>6
    <2> QED
      BY <1>3, <2>1, SeqOfAny
  <1> QED
    BY <1>4, <1>5, <1>6

\* One more listener is turned into those of the Gateway.
LEMMA SpreadNext ==
  ASSUME NEW gl, IsSeq(gl), NEW ls, NEW n \in Nat, Spread(gl, ls, n),
         NEW gl2, gl2 = gl \o GatewayListeners(ls[n + 1])
  PROVE  Spread(gl2, ls, n + 1)
  <1>1. PICK u : u = GatewayListeners(ls[n + 1])
    OBVIOUS
  <1>2. IsSeq(u) /\ DOMAIN u = 1..Len(u) /\ Len(u) \in {1, 2}
    BY <1>1, ListenersShape
  <1>3. PICK c \in {1, 2} : c = Len(u) /\ DOMAIN u = 1..c
    BY <1>2
  <1>4. PICK m \in Nat : m = Len(gl)
    BY IsSeqShape
  <1>5. PICK at \in [1..m -> (1..n) \X {1, 2}] :
          /\ \A z \in 1..m : at[z][2] \in DOMAIN GatewayListeners(ls[at[z][1]])
                             /\ gl[z] = GatewayListeners(ls[at[z][1]])[at[z][2]]
          /\ \A x \in 1..n : \A y \in DOMAIN GatewayListeners(ls[x]) : \E z \in 1..m : at[z] = <<x, y>>
          /\ \A y, z \in 1..m : y < z =>
               at[y][1] < at[z][1] \/ (at[y][1] = at[z][1] /\ at[y][2] < at[z][2])
    <2>1. SpreadUpTo(gl, m, ls, n)
      BY <1>4 DEF Spread
    <2> QED
      BY <2>1 DEF SpreadUpTo
  <1>6. /\ Len(gl2) = m + c /\ \A z \in 1..m : gl2[z] = gl[z]
        /\ \A z \in 1..c : gl2[m + z] = u[z]
    BY <1>1, <1>2, <1>3, <1>4, ConcatSeq
  <1>7. PICK new : new = [z \in 1..(m + c) |-> IF z \in 1..m THEN at[z] ELSE <<n + 1, z - m>>]
    OBVIOUS
  <1>8. \A z \in 1..(m + c) : z \in 1..m \/ (z - m \in 1..c /\ z = m + (z - m))
    BY <1>3
  <1>9. \A z \in 1..m : z \in 1..(m + c) /\ new[z] = at[z] /\ at[z] \in (1..n) \X {1, 2}
    BY <1>3, <1>5, <1>7
  <1>10. \A z \in 1..c : m + z \in 1..(m + c) /\ new[m + z] = <<n + 1, z>> /\ z \in {1, 2}
    <2>1. \A z \in 1..c : m + z \in 1..(m + c) /\ m + z \notin 1..m /\ (m + z) - m = z /\ z \in {1, 2}
      <3>1. \A m1, c1 \in Nat : \A z \in 1..c1 : m1 + z \in 1..(m1 + c1) /\ m1 + z \notin 1..m1 /\ (m1 + z) - m1 = z
        OBVIOUS
      <3>2. c \in Nat
        OBVIOUS
      <3>3. \A z \in 1..c : z \in {1, 2}
        OBVIOUS
      <3> QED
        BY <3>1, <3>2, <3>3
    <2> QED
      BY <1>7, <2>1
  <1>11. new \in [1..(m + c) -> (1..(n + 1)) \X {1, 2}]
    <2>1. ASSUME NEW z \in 1..(m + c) PROVE new[z] \in (1..(n + 1)) \X {1, 2}
      <3>1. CASE z \in 1..m
        <4>1. \A e \in (1..n) \X {1, 2} : e \in (1..(n + 1)) \X {1, 2}
          OBVIOUS
        <4> QED
          BY <1>9, <3>1, <4>1
      <3>2. CASE z \notin 1..m
        <4>1. PICK y \in 1..c : z = m + y
          BY <1>8, <3>2
        <4>2. new[z] = <<n + 1, y>> /\ y \in {1, 2}
          BY <1>10, <4>1
        <4>3. n + 1 \in 1..(n + 1)
          OBVIOUS
        <4> QED
          BY <4>2, <4>3
      <3> QED
        BY <3>1, <3>2
    <2> QED
      BY <1>7, <2>1
  <1>12. ASSUME NEW z \in 1..(m + c)
         PROVE  /\ new[z][2] \in DOMAIN GatewayListeners(ls[new[z][1]])
                /\ gl2[z] = GatewayListeners(ls[new[z][1]])[new[z][2]]
    <2>1. CASE z \in 1..m
      BY <1>5, <1>6, <1>9, <2>1
    <2>2. CASE z \notin 1..m
      <3>1. PICK y \in 1..c : z = m + y
        BY <1>8, <2>2
      <3>2. new[z] = <<n + 1, y>> /\ new[z][1] = n + 1 /\ new[z][2] = y
        BY <1>10, <3>1
      <3> QED
        BY <1>1, <1>3, <1>6, <3>1, <3>2
    <2> QED
      BY <2>1, <2>2
  <1>13. ASSUME NEW x \in 1..(n + 1), NEW y \in DOMAIN GatewayListeners(ls[x])
         PROVE  \E z \in 1..(m + c) : new[z] = <<x, y>>
    <2>1. CASE x = n + 1
      <3>1. y \in 1..c
        BY <1>1, <1>3, <1>13, <2>1
      <3> QED
        BY <1>10, <2>1, <3>1
    <2>2. CASE x # n + 1
      <3>1. x \in 1..n
        BY <2>2
      <3>2. PICK z \in 1..m : at[z] = <<x, y>>
        BY <1>5, <1>13, <3>1
      <3> QED
        BY <1>9, <3>2
    <2> QED
      BY <2>1, <2>2
  <1>14. ASSUME NEW y \in 1..(m + c), NEW z \in 1..(m + c), y < z
         PROVE  new[y][1] < new[z][1] \/ (new[y][1] = new[z][1] /\ new[y][2] < new[z][2])
    <2>1. CASE z \in 1..m
      <3>1. y \in 1..m
        BY <1>14, <2>1
      <3> QED
        BY <1>5, <1>9, <1>14, <2>1, <3>1
    <2>2. CASE z \notin 1..m
      <3>1. PICK w \in 1..c : z = m + w
        BY <1>8, <2>2
      <3>2. new[z] = <<n + 1, w>> /\ new[z][1] = n + 1 /\ new[z][2] = w
        BY <1>10, <3>1
      <3>3. CASE y \in 1..m
        <4>1. new[y] \in (1..n) \X {1, 2}
          BY <1>9, <3>3
        <4>2. new[y][1] < n + 1
          BY <4>1
        <4> QED
          BY <3>2, <4>2
      <3>4. CASE y \notin 1..m
        <4>1. PICK v \in 1..c : y = m + v
          BY <1>8, <3>4
        <4>2. new[y] = <<n + 1, v>>
          <5>1. new[m + v] = <<n + 1, v>>
            BY <1>10
          <5> QED
            BY <4>1, <5>1
        <4>4. new[y][1] = n + 1 /\ new[y][2] = v
          BY <4>2
        <4>3. v < w
          BY <1>3, <1>14, <3>1, <4>1
        <4> QED
          BY <3>2, <4>4, <4>3
      <3> QED
        BY <3>3, <3>4
    <2> QED
      BY <2>1, <2>2
  <1>15. SpreadUpTo(gl2, m + c, ls, n + 1)
    BY <1>11, <1>12, <1>13, <1>14 DEF SpreadUpTo
  <1>16. SpreadUpTo(gl2, Len(gl2), ls, n + 1)
    BY <1>6, <1>15
  <1> QED
    BY <1>16 DEF Spread

LEMMA NextGatewaySpread ==
  ASSUME TypeInv, GatewaysInOrder, NextGateway
  PROVE  GatewaysInOrder'
  <1> USE DEF groupVars, pathVars, buildVars, outVars, Goto
  <1>1. phase = "gateways" /\ listeners' = listeners
    BY DEF NextGateway
  <1>2. PICK k \in pending :
          /\ pending' = pending \ {k}
          /\ IF "/" \in {k.class[n] : n \in DOMAIN k.class}
             THEN UNCHANGED <<phase, j, current, gateways>>
             ELSE /\ gateways' = Put(gateways, k, <<>>)
                  /\ current' = k
                  /\ phase' = "listeners" /\ j' = 1
    BY DEF NextGateway
  <1>3. \A g \in DOMAIN gateways :
          g \in DOMAIN listeners /\ g \notin pending /\ Spread(gateways[g], listeners[g], Len(listeners[g]))
    BY <1>1 DEF GatewaysInOrder
  <1>4. k \in DOMAIN listeners
    BY <1>1 DEF TypeInv, Linked, PendingLinked
  <1>5. CASE UNCHANGED <<phase, j, current, gateways>>
    BY <1>1, <1>2, <1>3, <1>5 DEF GatewaysInOrder, Building
  <1>6. CASE /\ gateways' = Put(gateways, k, <<>>)
             /\ current' = k
             /\ phase' = "listeners" /\ j' = 1
    <2>1. /\ DOMAIN gateways' = DOMAIN gateways \union {k} /\ gateways'[k] = <<>>
          /\ \A g \in DOMAIN gateways : g # k => gateways'[g] = gateways[g]
      BY <1>6 DEF Put
    <2>2. Spread(<<>>, listeners[k], 0)
      <3>1. Len(<<>>) = 0 /\ 1..0 = {}
        BY EmptyIsSeq
      <3>2. PICK at : at = [z \in 1..0 |-> <<1, 1>>]
        OBVIOUS
      <3>3. at \in [1..0 -> (1..0) \X {1, 2}]
        BY <3>1, <3>2
      <3>4. SpreadUpTo(<<>>, 0, listeners[k], 0)
        BY <3>1, <3>3 DEF SpreadUpTo
      <3> QED
        BY <3>1, <3>4 DEF Spread
    <2>3. 1 - 1 = 0 /\ 0 <= Len(listeners[k])
      BY <1>4 DEF TypeInv, TypeOK, MapOf
    <2>4. ASSUME NEW g \in DOMAIN gateways'
          PROVE  /\ g \in DOMAIN listeners /\ g \notin pending'
                 /\ Spread(gateways'[g], listeners[g], IF g = current' THEN j' - 1 ELSE Len(listeners[g]))
      <3>1. CASE g = k
        BY <1>2, <1>4, <1>6, <2>1, <2>2, <2>3, <3>1
      <3>2. CASE g # k
        BY <1>2, <1>3, <1>6, <2>1, <3>2
      <3> QED
        BY <3>1, <3>2
    <2> QED
      BY <1>1, <1>2, <1>6, <2>3, <2>4 DEF GatewaysInOrder, Building
  <1> QED
    BY <1>2, <1>5, <1>6

LEMMA AddListenerSpread ==
  ASSUME TypeInv, GatewaysInOrder, AddListener
  PROVE  GatewaysInOrder'
  <1> USE DEF groupVars, pathVars, buildVars, outVars, Goto
  <1>1. /\ phase = "listeners" /\ phase' = "listeners" /\ UNCHANGED <<listeners, pending, current>>
        /\ j <= Len(listeners[current]) /\ j' = j + 1
    BY DEF AddListener
  <1>2. current \in DOMAIN gateways /\ current \in DOMAIN listeners
    BY <1>1 DEF TypeInv, Linked, GatewayLinked
  <1>3. PICK new : new = gateways[current] \o GatewayListeners(listeners[current][j])
    OBVIOUS
  <1>4. gateways' = [gateways EXCEPT ![current] = new]
    BY <1>3 DEF AddListener
  <1>5. /\ DOMAIN gateways' = DOMAIN gateways /\ gateways'[current] = new
        /\ \A g \in DOMAIN gateways : g # current => gateways'[g] = gateways[g]
    BY <1>2, <1>4
  <1>6. \A g \in DOMAIN gateways :
          /\ g \in DOMAIN listeners /\ g \notin pending
          /\ Spread(gateways[g], listeners[g], IF g = current THEN j - 1 ELSE Len(listeners[g]))
    BY <1>1 DEF GatewaysInOrder
  <1>7. PICK n \in Nat : n = j - 1
    BY DEF TypeInv, TypeOK
  <1>8. n + 1 = j /\ j' - 1 = j
    BY <1>1, <1>7 DEF TypeInv, TypeOK
  <1>9. IsSeq(gateways[current])
    BY <1>2 DEF TypeInv, TypeOK, IsSeqOf, IsSequence, IsSeq
  <1>10. Spread(new, listeners[current], j)
    <2>1. Spread(gateways[current], listeners[current], n)
      BY <1>2, <1>6, <1>7
    <2>2. new = gateways[current] \o GatewayListeners(listeners[current][n + 1])
      BY <1>3, <1>8
    <2>3. Spread(new, listeners[current], n + 1)
      BY <1>9, <2>1, <2>2, SpreadNext
    <2> QED
      BY <1>8, <2>3
  <1>11. ASSUME NEW g \in DOMAIN gateways'
         PROVE  /\ g \in DOMAIN listeners /\ g \notin pending
                /\ Spread(gateways'[g], listeners[g], IF g = current THEN j' - 1 ELSE Len(listeners[g]))
    <2>1. CASE g = current
      BY <1>2, <1>5, <1>6, <1>8, <1>10, <2>1
    <2>2. CASE g # current
      BY <1>5, <1>6, <2>2
    <2> QED
      BY <2>1, <2>2
  <1>12. current \notin pending /\ j' - 1 <= Len(listeners[current])
    BY <1>1, <1>2, <1>6, <1>8
  <1> QED
    BY <1>1, <1>11, <1>12 DEF GatewaysInOrder, Building

LEMMA GatewayBuiltSpread ==
  ASSUME TypeInv, GatewaysInOrder, GatewayBuilt
  PROVE  GatewaysInOrder'
  <1> USE DEF groupVars, pathVars, buildVars, outVars, Goto
  <1>1. /\ phase = "listeners" /\ phase' = "gateways" /\ UNCHANGED <<listeners, pending, gateways>>
        /\ j > Len(listeners[current])
    BY DEF GatewayBuilt
  <1>2. current \in DOMAIN listeners /\ j - 1 <= Len(listeners[current])
    BY <1>1 DEF TypeInv, Linked, GatewayLinked, GatewaysInOrder
  <1>3. j - 1 = Len(listeners[current])
    <2>1. listeners[current] \in Seq([host : String, certs : Seq(STRING)])
      BY <1>2 DEF TypeInv, TypeOK, MapOf
    <2>2. Len(listeners[current]) \in Nat /\ j \in Nat
      BY <2>1 DEF TypeInv, TypeOK
    <2> QED
      BY <1>1, <1>2, <2>2
  <1>4. \A g \in DOMAIN gateways :
          g \in DOMAIN listeners /\ g \notin pending /\ Spread(gateways[g], listeners[g], Len(listeners[g]))
    BY <1>1, <1>3 DEF GatewaysInOrder
  <1> QED
    BY <1>1, <1>4 DEF GatewaysInOrder, Building

LEMMA NextGatewaysInOrder == TypeInv /\ GatewaysInOrder /\ [Next]_vars => GatewaysInOrder'
  <1> USE DEF groupVars, pathVars, buildVars, outVars, Goto
  <1> SUFFICES ASSUME TypeInv, GatewaysInOrder, [Next]_vars PROVE GatewaysInOrder'
    OBVIOUS
  <1>1. CASE \/ FromMap \/ AddIngressRule \/ AddDefaultBackend \/ SortRuleGroups \/ NextRuleGroup \/ GroupIngressPath
             \/ PathsGrouped \/ ToHTTPRouteRule \/ ConfigureBackendRef \/ AppendRule \/ RouteBuilt \/ GroupsBuilt
             \/ DefaultBackendRoute
    <2>1. /\ phase \in {"list", "aggregate", "groups", "defaults"} \/ Building
          /\ phase' \notin {"gateways", "listeners", "index", "done"} /\ gateways' = gateways
      BY <1>1 DEF Building, FromMap, AddIngressRule, AddDefaultBackend, SortRuleGroups, NextRuleGroup, GroupIngressPath,
            PathsGrouped, ToHTTPRouteRule, ConfigureBackendRef, AppendRule, RouteBuilt, GroupsBuilt, DefaultBackendRoute
    <2> QED
      BY <2>1 DEF GatewaysInOrder
  <1>2. CASE DefaultsBuilt
    <2>1. phase = "defaults" /\ phase' = "gateways" /\ gateways' = gateways
      BY <1>2 DEF DefaultsBuilt
    <2>2. DOMAIN gateways' = {}
      BY <2>1 DEF GatewaysInOrder, EmptyMap
    <2> QED
      BY <2>1, <2>2 DEF GatewaysInOrder, Building
  <1>3. CASE GatewaysBuilt \/ IndexRoute \/ RoutesIndexed
    <2>1. /\ phase \in {"gateways", "index"} /\ phase' \in {"failed", "index", "done"}
          /\ UNCHANGED <<listeners, gateways>>
      BY <1>3 DEF GatewaysBuilt, IndexRoute, RoutesIndexed, AfterGateways
    <2> QED
      BY <2>1 DEF GatewaysInOrder, Building
  <1>4. CASE UNCHANGED vars
    BY <1>4 DEF vars, GatewaysInOrder, Building
  <1> QED
    BY <1>1, <1>2, <1>3, <1>4, NextGatewaySpread, AddListenerSpread, GatewayBuiltSpread DEF Next, Convert, Terminating

LEMMA NextOrder ==
  TypeInv /\ SourcesInv /\ OnceInv /\ ListInv /\ GatheredInv /\ PathsInOrder /\ RouteNamed /\ OrderInv
    /\ [Next]_vars => OrderInv'
  BY NextCurrentFirst, NextRoutesInOrder, NextListenersInOrder, NextGatewaysInOrder DEF OrderInv

(***************************************************************************)
(* The index                                                               *)
(***************************************************************************)
LEMMA NextIndex == TypeInv /\ IndexInv /\ [Next]_vars => IndexInv'
  <1> USE DEF groupVars, pathVars, buildVars, outVars, Goto
  <1> SUFFICES ASSUME TypeInv, IndexInv, [Next]_vars PROVE IndexInv'
    OBVIOUS
  <1>1. CASE IndexRoute
    <2>1. /\ phase = "index" /\ phase' = "index" /\ i <= Len(httpRoutes) /\ httpRoutes' = httpRoutes /\ i' = i + 1
          /\ routeByKey' = Put(routeByKey, NameOf(httpRoutes[i]), httpRoutes[i])
      BY <1>1 DEF IndexRoute, NameOf
    <2>2. i \in Nat \ {0} /\ i' - 1 = i
      BY <2>1 DEF TypeInv, TypeOK
    <2>3. Indexed(routeByKey, i - 1)
      BY <2>1 DEF IndexInv
    <2>4. DOMAIN routeByKey' = DOMAIN routeByKey \union {NameOf(httpRoutes[i])}
      BY <2>1 DEF Put
    <2>5. \A x \in 1..i : x \in 1..(i - 1) \/ x = i
      BY <2>2
    <2>6. \A x \in 1..i : NameOf(httpRoutes[x]) \in DOMAIN routeByKey'
      BY <2>3, <2>4, <2>5 DEF Indexed
    <2>7. ASSUME NEW key \in DOMAIN routeByKey'
          PROVE  \E x \in 1..i :
                   /\ key = NameOf(httpRoutes[x]) /\ routeByKey'[key] = httpRoutes[x]
                   /\ \A y \in 1..i : x < y => NameOf(httpRoutes[y]) # key
      <3>1. CASE key = NameOf(httpRoutes[i])
        <4>1. routeByKey'[key] = httpRoutes[i]
          BY <2>1, <3>1 DEF Put
        <4>2. \A y \in 1..i : ~(i < y)
          BY <2>2
        <4>3. i \in 1..i
          BY <2>2
        <4> QED
          BY <3>1, <4>1, <4>2, <4>3
      <3>2. CASE key # NameOf(httpRoutes[i])
        <4>1. key \in DOMAIN routeByKey /\ routeByKey'[key] = routeByKey[key]
          BY <2>1, <2>4, <3>2 DEF Put
        <4>2. PICK x \in 1..(i - 1) :
                /\ key = NameOf(httpRoutes[x]) /\ routeByKey[key] = httpRoutes[x]
                /\ \A y \in 1..(i - 1) : x < y => NameOf(httpRoutes[y]) # key
          BY <2>3, <4>1 DEF Indexed
        <4>3. x \in 1..i
          BY <2>2
        <4>4. \A y \in 1..i : x < y => NameOf(httpRoutes[y]) # key
          BY <2>5, <3>2, <4>2
        <4> QED
          BY <4>1, <4>2, <4>3, <4>4
      <3> QED
        BY <3>1, <3>2
    <2>8. PICK n : n = i
      OBVIOUS
    <2>9. Indexed(routeByKey, n)'
      <3>1. PICK index : index = routeByKey'
        OBVIOUS
      <3>2. Indexed(index, n)
        BY <2>6, <2>7, <2>8, <3>1 DEF Indexed
      <3>3. Indexed(index, n)'
        BY <2>1, <3>2 DEF Indexed, NameOf
      <3> QED
        BY <3>1, <3>3 DEF Indexed
    <2> QED
      BY <2>1, <2>2, <2>8, <2>9 DEF IndexInv
  <1>2. CASE RoutesIndexed
    <2>1. /\ phase = "index" /\ phase' = "done" /\ i > Len(httpRoutes) /\ UNCHANGED <<httpRoutes, routeByKey>>
      BY <1>2 DEF RoutesIndexed
    <2>2. i - 1 <= Len(httpRoutes) /\ Indexed(routeByKey, i - 1)
      BY <2>1 DEF IndexInv
    <2>3. i - 1 = Len(httpRoutes)
      <3>1. i \in Nat /\ Len(httpRoutes) \in Nat
        BY DEF TypeInv, TypeOK, IsSeqOf, IsSequence
      <3> QED
        BY <2>1, <2>2, <3>1
    <2>4. Indexed(routeByKey, Len(httpRoutes))
      BY <2>2, <2>3
    <2>5. Indexed(routeByKey, Len(httpRoutes))'
      BY <2>1, <2>4 DEF Indexed
    <2> QED
      BY <2>1, <2>5 DEF IndexInv
  <1>3. CASE GatewaysBuilt
    <2>1. /\ phase = "gateways" /\ phase' \in {"failed", "index"} /\ i' = 1 /\ UNCHANGED <<httpRoutes, routeByKey>>
      BY <1>3 DEF GatewaysBuilt, AfterGateways
    <2>2. DOMAIN routeByKey = {} /\ routeByKey = EmptyMap
      BY <2>1 DEF IndexInv, EmptyMap
    <2>3. 1 - 1 = 0 /\ 1..0 = {} /\ 0 <= Len(httpRoutes)
      BY DEF TypeInv, TypeOK, IsSeqOf, IsSequence
    <2>4. Indexed(routeByKey, 0)'
      BY <2>1, <2>2, <2>3 DEF Indexed
    <2> QED
      BY <2>1, <2>2, <2>3, <2>4 DEF IndexInv
  <1>4. CASE UNCHANGED vars
    BY <1>4 DEF vars, IndexInv, Indexed
  <1>5. CASE Next /\ ~(IndexRoute \/ RoutesIndexed \/ GatewaysBuilt)
    <2>1. (phase \notin {"index", "done"} /\ phase' \notin {"index", "done"} /\ routeByKey' = routeByKey) \/ UNCHANGED vars
      BY <1>5 DEF Next, Convert, Terminating, Ended, vars, FromMap, AddIngressRule, AddDefaultBackend, SortRuleGroups,
            NextRuleGroup, GroupIngressPath, PathsGrouped, ToHTTPRouteRule, ConfigureBackendRef,
            AppendRule, RouteBuilt, GroupsBuilt, DefaultBackendRoute, DefaultsBuilt, NextGateway,
            AddListener, GatewayBuilt
    <2> QED
      BY <1>4, <2>1 DEF IndexInv
  <1> QED
    BY <1>1, <1>2, <1>3, <1>4, <1>5

(***************************************************************************)
(* The invariant                                                           *)
(***************************************************************************)
LEMMA InitOutcome ==
  Init => ListInv /\ GatheredInv /\ PathsInOrder /\ RouteNamed /\ CheckedInv /\ OrderInv /\ IndexInv
  <1> SUFFICES ASSUME Init PROVE ListInv /\ GatheredInv /\ PathsInOrder /\ RouteNamed /\ CheckedInv /\ OrderInv /\ IndexInv
    OBVIOUS
  <1>1. phase = "list" /\ ~Building /\ phase \notin Afterwards
    BY DEF Init, Building, Afterwards
  <1>2. ListInv
    BY <1>1 DEF ListInv
  <1>3. GatheredInv
    BY DEF Init, GatheredInv, EmptyMap
  <1>4. PathsInOrder /\ RouteNamed
    BY <1>1 DEF PathsInOrder, RouteNamed
  <1>5. errors = {} /\ listeners = EmptyMap /\ gateways = EmptyMap /\ routeByKey = EmptyMap
    BY DEF Init
  <1>6. CheckedInv
    BY <1>1, <1>5 DEF CheckedInv, GroupsChecked, RulesChecked, KeysChecked, DefaultsChecked, GatewaysChecked, FaultsReal
  <1>7. OrderInv
    BY <1>1, <1>5 DEF OrderInv, CurrentFirst, RoutesInOrder, ListenersInOrder, GatewaysInOrder
  <1>8. IndexInv
    BY <1>1, <1>5 DEF IndexInv
  <1> QED
    BY <1>2, <1>3, <1>4, <1>6, <1>7, <1>8

LEMMA NextOutcome == OutcomeInv /\ [Next]_vars => OutcomeInv'
  <1> SUFFICES ASSUME OutcomeInv, [Next]_vars PROVE OutcomeInv'
    OBVIOUS
  <1>1. /\ TypeInv /\ SourcesInv /\ OnceInv /\ ListInv /\ GatheredInv /\ PathsInOrder /\ RouteNamed
        /\ CheckedInv /\ OrderInv /\ IndexInv
    BY DEF OutcomeInv
  <1>2. TypeInv' /\ SourcesInv' /\ OnceInv'
    BY <1>1, NextTypeInv, NextSources, NextOnce
  <1>3. ListInv' /\ GatheredInv' /\ PathsInOrder' /\ RouteNamed'
    BY <1>1, NextList, NextGathered, NextPathsInOrder, NextRouteNamed
  <1>4. CheckedInv'
    <2>1. ListenersInOrder
      BY <1>1 DEF OrderInv
    <2> QED
      BY <1>1, <2>1, NextChecked
  <1>5. OrderInv' /\ IndexInv'
    BY <1>1, NextOrder, NextIndex
  <1> QED
    BY <1>2, <1>3, <1>4, <1>5 DEF OutcomeInv

LEMMA OutcomeInvariance == Spec => []OutcomeInv
  <1>1. Init => OutcomeInv
    BY InitTypeInv, InitSourcesInv, InitOnceInv, InitOutcome DEF OutcomeInv
  <1> QED
    BY <1>1, NextOutcome, PTL DEF Spec

(***************************************************************************)
(* The keys of groups without a slash in their classes                     *)
(***************************************************************************)
\* A namespace is the name of an object, and these have no slash.
NamespacesAreNames == \A S \in Inputs : \A ing \in S : NoSlash(ing.ns)

ClassesAreNames(S) == \A k \in Groups(S) : NoSlash(k.class)

LEMMA GroupKeyParts ==
  ASSUME NEW S \in Inputs, NEW k \in Groups(S)
  PROVE  /\ k = [ns |-> k.ns, class |-> k.class, host |-> k.host]
         /\ k.ns \in String /\ k.class \in String /\ k.host \in String
         /\ NamespacesAreNames => NoSlash(k.ns)
  <1>1. PICK ing \in S : k \in {GroupKey(ing, r.host) : r \in ToSet(ing.rules)}
    BY DEF Groups
  <1>2. PICK r \in DOMAIN ing.rules : k = GroupKey(ing, ing.rules[r].host)
    BY <1>1 DEF ToSet
  <1>3. /\ ing.ns \in String /\ GetIngressClass(ing) \in String /\ ing.rules[r].host \in String
    BY InputShape
  <1> QED
    BY <1>2, <1>3 DEF GroupKey, NamespacesAreNames

LEMMA KeyStringsTell ==
  ASSUME NamespacesAreNames, NEW S \in Inputs, ClassesAreNames(S),
         NEW k \in Groups(S), NEW l \in Groups(S), KeyString(k) = KeyString(l)
  PROVE  k = l
  <1>1. /\ k = [ns |-> k.ns, class |-> k.class, host |-> k.host]
        /\ k.ns \in String /\ k.class \in String /\ k.host \in String /\ NoSlash(k.ns) /\ NoSlash(k.class)
    BY GroupKeyParts DEF ClassesAreNames
  <1>2. /\ l = [ns |-> l.ns, class |-> l.class, host |-> l.host]
        /\ l.ns \in String /\ l.class \in String /\ l.host \in String /\ NoSlash(l.ns) /\ NoSlash(l.class)
    BY GroupKeyParts DEF ClassesAreNames
  <1>3. k.ns = l.ns /\ k.class = l.class /\ k.host = l.host
    BY <1>1, <1>2, KeyStringTells
  <1> QED
    BY <1>1, <1>2, <1>3

LEMMA GroupsInOrder ==
  ASSUME NamespacesAreNames, NEW S \in Inputs, ClassesAreNames(S)
  PROVE  IsOrder(Groups(S), InKeyOrder(Groups(S)))
  <1>1. \A k \in Groups(S) : KeyString(k) \in String
    BY GroupKeyParts, KeyStringReads
  <1> QED
    BY <1>1, KeyStringsTell, KeysAreOrdered

LEMMA KeysCompare ==
  ASSUME NamespacesAreNames, NEW S \in Inputs, ClassesAreNames(S),
         NEW k \in Groups(S), NEW l \in Groups(S)
  PROVE  /\ k # l => KeyPrecedes(k, l) \/ KeyPrecedes(l, k)
         /\ KeyPrecedes(k, l) => ~KeyPrecedes(l, k)
  <1>1. IsOrder(Groups(S), InKeyOrder(Groups(S)))
    BY GroupsInOrder
  <1>2. \A x, y \in Groups(S) : <<x, y>> \in InKeyOrder(Groups(S)) <=> KeyPrecedes(x, y)
    BY DEF InKeyOrder
  <1> QED
    BY <1>1, <1>2 DEF IsOrder

\* Visited groups come in the order of their keys.
LEMMA VisitsInKeyOrder ==
  ASSUME NamespacesAreNames, NEW S \in Inputs, ClassesAreNames(S),
         NEW n, NEW ks \in [1..n -> Groups(S)], Ascends(n, ks),
         NEW x \in 1..n, NEW y \in 1..n
  PROVE  x < y => KeyPrecedes(ks[x], ks[y]) /\ ks[x] # ks[y] /\ ~KeyPrecedes(ks[y], ks[x])
  <1>1. ks[x] \in Groups(S) /\ ks[y] \in Groups(S)
    OBVIOUS
  <1>2. ks[x] # ks[y] => KeyPrecedes(ks[x], ks[y]) \/ KeyPrecedes(ks[y], ks[x])
    BY <1>1, KeysCompare
  <1> QED
    BY <1>2 DEF Ascends

(***************************************************************************)
(* The routes of the outcome                                               *)
(***************************************************************************)
DefaultRoutes(S) == {DefaultRoute(ing) : ing \in {x \in S : HasDefault(x)}}
NamedSame(S, name) == {k \in Groups(S) : NameOf(GroupRoute(S, k)) = name}
Kept(S, name) ==
  IF \E d \in DefaultRoutes(S) : NameOf(d) = name
  THEN CHOOSE d \in DefaultRoutes(S) : NameOf(d) = name
  ELSE GroupRoute(S, CHOOSE k \in NamedSame(S, name) : \A l \in NamedSame(S, name) : ~KeyPrecedes(k, l))

LEMMA RoutesAreKept ==
  ASSUME NEW S
  PROVE  Routes(S) = [name \in {NameOf(r) : r \in DefaultRoutes(S) \union {GroupRoute(S, k) : k \in Groups(S)}}
                        |-> Kept(S, name)]
  BY DEF Routes, Kept, DefaultRoutes, NamedSame, NameOf

LEMMA FourIsSeq ==
  ASSUME NEW a, NEW b, NEW c, NEW d
  PROVE  IsSeq(<<a, b, c, d>>)
  <1>1. <<a, b, c, d>> \in Seq({a, b, c, d})
    OBVIOUS
  <1> QED
    BY <1>1, SeqOfAny

\* Two Ingresses whose default routes have one name are the same.
LEMMA DefaultNamesTell ==
  ASSUME NEW S \in Inputs, NEW a \in S, NEW b \in S, NameOf(DefaultRoute(a)) = NameOf(DefaultRoute(b))
  PROVE  a = b
  <1>1. a.ns = b.ns /\ DefaultRouteName(a.name) = DefaultRouteName(b.name)
    BY DEF NameOf, DefaultRoute
  <1>2. a.name \in String /\ b.name \in String
    BY InputShape
  <1>3. IsSeq(a.name) /\ IsSeq(b.name)
    BY <1>2, SeqOfAny DEF String
  <1>4. PICK t : t = <<"-", "default", "-", "backend">>
    OBVIOUS
  <1>5. IsSeq(t)
    BY <1>4, FourIsSeq
  <1>6. a.name \o t = b.name \o t
    BY <1>1, <1>4 DEF DefaultRouteName
  <1>7. /\ Len(a.name) = Len(b.name) /\ \A n \in 1..Len(a.name) : a.name[n] = b.name[n]
    <2>1. PICK u : u = a.name \o t
      OBVIOUS
    <2>2. Len(u) = Len(a.name) + Len(t) /\ \A n \in 1..Len(a.name) : u[n] = a.name[n]
      BY <1>3, <1>5, <2>1, ConcatSeq
    <2>3. Len(u) = Len(b.name) + Len(t) /\ \A n \in 1..Len(b.name) : u[n] = b.name[n]
      BY <1>3, <1>5, <1>6, <2>1, ConcatSeq
    <2>4. Len(a.name) \in Nat /\ Len(b.name) \in Nat /\ Len(t) \in Nat
      BY <1>3, <1>5, IsSeqShape
    <2>5. Len(a.name) = Len(b.name)
      BY <2>2, <2>3, <2>4
    <2> QED
      BY <2>2, <2>3, <2>5
  <1>8. a.name = b.name
    <2>1. DOMAIN a.name = 1..Len(a.name)
      BY <1>3, IsSeqShape
    <2>2. Len(a.name) <= Len(b.name) /\ \A n \in DOMAIN a.name : n \in DOMAIN b.name /\ a.name[n] = b.name[n]
      BY <1>3, <1>7, <2>1, IsSeqShape
    <2>3. Len(b.name) <= Len(a.name)
      BY <1>3, <1>7, IsSeqShape
    <2> QED
      BY <1>2, <2>2, <2>3, SameSeq DEF String
  <1> QED
    BY <1>1, <1>8, InputShape

LEMMA NameOfOut ==
  ASSUME NEW list, NEW rt
  PROVE  NameOf(OutRoute(list, rt)) = NameOf(rt)
  BY DEF NameOf, OutRoute

\* Of r[1..n + d] the first n are the routes of the groups, in order, and the
\* others those of the default backends.
ListsRoutes(S, n, d, ks, r) ==
  /\ n \in Nat /\ d \in Nat /\ ks \in [1..n -> Groups(S)] /\ Ascends(n, ks)
  /\ \A k \in Groups(S) : \E x \in 1..n : ks[x] = k
  /\ \A x \in 1..n : r[x] = GroupRoute(S, ks[x])
  /\ \A x \in 1..d : \E ing \in S : HasDefault(ing) /\ r[n + x] = DefaultRoute(ing)
  /\ \A ing \in S : HasDefault(ing) => \E x \in 1..d : r[n + x] = DefaultRoute(ing)

\* An index keeps the last of every name.
LEMMA LastIsKept ==
  ASSUME NamespacesAreNames, NEW S \in Inputs, ClassesAreNames(S),
         NEW n, NEW d, NEW ks, NEW r, ListsRoutes(S, n, d, ks, r),
         NEW x \in 1..(n + d), \A y \in 1..(n + d) : x < y => NameOf(r[y]) # NameOf(r[x])
  PROVE  r[x] = Kept(S, NameOf(r[x]))
  <1> USE DEF ListsRoutes
  <1>1. PICK name : name = NameOf(r[x])
    OBVIOUS
  <1>2. ASSUME NEW y \in 1..(n + d) PROVE y \in 1..n \/ \E z \in 1..d : y = n + z
    <2>1. CASE y > n
      <3>1. y - n \in 1..d /\ y = n + (y - n)
        BY <2>1
      <3> QED
        BY <3>1
    <2> QED
      BY <2>1
  <1>3. \A z \in 1..d : n + z \in 1..(n + d) /\ \A y \in 1..n : y < n + z
    OBVIOUS
  <1>4. CASE \E e \in DefaultRoutes(S) : NameOf(e) = name
    <2>1. PICK e \in DefaultRoutes(S) : e = CHOOSE e1 \in DefaultRoutes(S) : NameOf(e1) = name
      BY <1>4
    <2>2. NameOf(e) = name
      BY <1>4, <2>1
    <2>3. PICK a \in S : HasDefault(a) /\ e = DefaultRoute(a)
      BY DEF DefaultRoutes
    <2>4. PICK z \in 1..d : r[n + z] = e
      BY <2>3
    <2>5. ~(x < n + z)
      BY <1>1, <1>3, <2>2, <2>4
    <2>6. PICK w \in 1..d : x = n + w
      BY <1>2, <1>3, <2>5
    <2>7. PICK b \in S : r[x] = DefaultRoute(b)
      BY <2>6
    <2>8. a = b
      BY <1>1, <2>2, <2>3, <2>7, DefaultNamesTell
    <2>9. r[x] = e
      BY <2>3, <2>7, <2>8
    <2> QED
      BY <1>1, <1>4, <2>1, <2>9 DEF Kept
  <1>5. CASE ~\E e \in DefaultRoutes(S) : NameOf(e) = name
    <2>1. x \in 1..n
      <3>1. SUFFICES ASSUME NEW z \in 1..d, x = n + z PROVE FALSE
        BY <1>2
      <3>2. PICK b \in S : HasDefault(b) /\ r[x] = DefaultRoute(b)
        BY <3>1
      <3>3. DefaultRoute(b) \in DefaultRoutes(S)
        BY <3>2 DEF DefaultRoutes
      <3> QED
        BY <1>1, <1>5, <3>2, <3>3
    <2>2. PICK k \in Groups(S) : k = ks[x] /\ r[x] = GroupRoute(S, k)
      BY <2>1
    <2>3. k \in NamedSame(S, name)
      BY <1>1, <2>2 DEF NamedSame
    <2>4. ASSUME NEW l \in NamedSame(S, name), l # k
          PROVE  KeyPrecedes(l, k) /\ ~KeyPrecedes(k, l)
      <3>1. l \in Groups(S) /\ NameOf(GroupRoute(S, l)) = name
        BY DEF NamedSame
      <3>2. PICK y \in 1..n : ks[y] = l
        BY <3>1
      <3>3. y \in 1..(n + d) /\ NameOf(r[y]) = name
        BY <3>1, <3>2
      <3>4. ~(x < y) /\ y # x
        BY <1>1, <2>2, <2>4, <3>2, <3>3
      <3>5. y < x
        BY <2>1, <3>4
      <3> QED
        BY <2>1, <2>2, <3>2, <3>5, VisitsInKeyOrder
    <2>5. ~KeyPrecedes(k, k)
      BY KeysCompare
    <2>6. \A l \in NamedSame(S, name) : ~KeyPrecedes(k, l)
      BY <2>4, <2>5
    <2>7. PICK m : m = CHOOSE m1 \in NamedSame(S, name) : \A l \in NamedSame(S, name) : ~KeyPrecedes(m1, l)
      OBVIOUS
    <2>8. m \in NamedSame(S, name) /\ \A l \in NamedSame(S, name) : ~KeyPrecedes(m, l)
      BY <2>3, <2>6, <2>7
    <2>9. m = k
      BY <2>3, <2>4, <2>8
    <2> QED
      BY <1>1, <1>5, <2>2, <2>7, <2>9 DEF Kept
  <1> QED
    BY <1>4, <1>5

\* The classes of the groups of a conversion without errors have no slash.
LEMMA ClassesNamed ==
  ASSUME OutcomeInv, phase = "done"
  PROVE  ClassesAreNames(ingresses)
  <1>1. errors = {} /\ Collected
    BY DEF OutcomeInv, SourcesInv, NoErrors, Collected
  <1>2. DOMAIN ruleGroups = Groups(ingresses)
    BY <1>1, GroupsAre DEF OutcomeInv
  <1>3. ListenersLeft = {}
    BY DEF ListenersLeft, Building
  <1>4. \A k \in DOMAIN ruleGroups : GatewayOf(k) \in DOMAIN listeners
    BY <1>3 DEF OutcomeInv, OrderInv, ListenersInOrder, Afterwards
  <1>5. \A g \in DOMAIN listeners : NoSlash(g.class)
    BY <1>1 DEF OutcomeInv, CheckedInv, GatewaysChecked
  <1>6. \A k : GatewayOf(k).class = k.class
    BY DEF GatewayOf
  <1> QED
    BY <1>2, <1>4, <1>5, <1>6 DEF ClassesAreNames

LEMMA DoneRoutes ==
  ASSUME NamespacesAreNames, OutcomeInv, phase = "done"
  PROVE  [key \in DOMAIN routeByKey |-> AbstractRoute(routeByKey[key])] = Routes(ingresses)
  <1>1. /\ TypeInv /\ OnceInv /\ ListInv /\ GatheredInv /\ errors = {} /\ Collected
        /\ RoutesInOrder /\ Indexed(routeByKey, Len(httpRoutes))
    BY DEF OutcomeInv, SourcesInv, NoErrors, Collected, OrderInv, IndexInv
  <1>2. ingresses \in Inputs /\ DOMAIN ruleGroups = Groups(ingresses) /\ ClassesAreNames(ingresses)
    BY <1>1, GroupsAre, ClassesNamed DEF TypeInv
  <1>3. Left = {} /\ DefaultsBuiltSoFar = Len(defaultBackends)
    BY DEF Left, DefaultsBuiltSoFar, Building
  <1>4. PICK d \in Nat : d = Len(defaultBackends) /\ DOMAIN defaultBackends = 1..d
    BY <1>1 DEF TypeInv, TypeOK
  <1>5. PICK n \in 0..Len(httpRoutes) : \E ks \in [1..n -> DOMAIN ruleGroups] : Routed(n, ks)
    BY <1>1 DEF RoutesInOrder, Afterwards
  <1>6. PICK ks \in [1..n -> DOMAIN ruleGroups] : Routed(n, ks)
    BY <1>5
  <1>7. n \in Nat /\ ks \in [1..n -> Groups(ingresses)]
    BY <1>2, <1>5
  <1>8. /\ Ascends(n, ks) /\ \A k \in Groups(ingresses) : \E x \in 1..n : ks[x] = k
        /\ Len(httpRoutes) = n + d
        /\ \A x \in 1..n : OutRoute(ingressList, httpRoutes[x]) = GroupRoute(ingresses, ks[x])
        /\ \A x \in 1..d : OutRoute(ingressList, httpRoutes[n + x]) = DefaultRoute(ingressList[defaultBackends[x]])
    BY <1>2, <1>3, <1>4, <1>6 DEF Routed, Visits
  <1>9. PICK r : r = [x \in 1..(n + d) |-> OutRoute(ingressList, httpRoutes[x])]
    OBVIOUS
  <1>10. \A x \in 1..(n + d) : r[x] = OutRoute(ingressList, httpRoutes[x]) /\ NameOf(r[x]) = NameOf(httpRoutes[x])
    BY <1>9, NameOfOut
  <1>11. \A x \in 1..n : r[x] = GroupRoute(ingresses, ks[x])
    <2>1. \A x \in 1..n : x \in 1..(n + d)
      BY <1>7
    <2> QED
      BY <1>8, <1>10, <2>1
  <1>12. \A x \in 1..d : n + x \in 1..(n + d) /\ r[n + x] = DefaultRoute(ingressList[defaultBackends[x]])
    <2>1. \A x \in 1..d : n + x \in 1..(n + d)
      BY <1>7
    <2> QED
      BY <1>8, <1>10, <2>1
  <1>13. \A x \in 1..d : \E ing \in ingresses : HasDefault(ing) /\ r[n + x] = DefaultRoute(ing)
    <2> SUFFICES ASSUME NEW x \in 1..d PROVE \E ing \in ingresses : HasDefault(ing) /\ r[n + x] = DefaultRoute(ing)
      OBVIOUS
    <2>1. defaultBackends[x] \in DOMAIN ingressList /\ ingressList[defaultBackends[x]].defaultBackend # <<>>
      BY <1>1, <1>4 DEF TypeInv, Linked, DefaultsLinked
    <2>2. ingressList[defaultBackends[x]] \in ingresses
      BY <1>1, <2>1, ListFacts
    <2> QED
      BY <1>12, <2>1, <2>2 DEF HasDefault
  <1>14. \A ing \in ingresses : HasDefault(ing) => \E x \in 1..d : r[n + x] = DefaultRoute(ing)
    <2> SUFFICES ASSUME NEW ing \in ingresses, HasDefault(ing) PROVE \E x \in 1..d : r[n + x] = DefaultRoute(ing)
      OBVIOUS
    <2>1. PICK m \in DOMAIN ingressList : ingressList[m] = ing
      BY <1>1, ListFacts
    <2>2. InSeq(defaultBackends, m)
      BY <1>1, <2>1 DEF OnceInv, DefaultsOnce, HasDefault
    <2>3. PICK x \in 1..d : defaultBackends[x] = m
      BY <1>4, <2>2 DEF InSeq
    <2> QED
      BY <1>12, <2>1, <2>3
  <1>15. ASSUME NEW x \in 1..(n + d), \A y \in 1..(n + d) : x < y => NameOf(r[y]) # NameOf(r[x])
         PROVE  r[x] = Kept(ingresses, NameOf(r[x]))
    <2>1. ListsRoutes(ingresses, n, d, ks, r)
      BY <1>4, <1>7, <1>8, <1>11, <1>13, <1>14 DEF ListsRoutes
    <2> QED
      BY <1>2, <1>15, <2>1, LastIsKept
  <1>16. ASSUME NEW key \in DOMAIN routeByKey
         PROVE  AbstractRoute(routeByKey[key]) = Kept(ingresses, key) /\ \E x \in 1..(n + d) : key = NameOf(r[x])
    <2>1. PICK x \in 1..(n + d) :
            /\ key = NameOf(httpRoutes[x]) /\ routeByKey[key] = httpRoutes[x]
            /\ \A y \in 1..(n + d) : x < y => NameOf(httpRoutes[y]) # key
      BY <1>1, <1>8 DEF Indexed
    <2>2. r[x] = Kept(ingresses, NameOf(r[x])) /\ key = NameOf(r[x])
      BY <1>10, <1>15, <2>1
    <2>3. AbstractRoute(httpRoutes[x]) = OutRoute(ingressList, httpRoutes[x])
      BY DEF AbstractRoute, AbstractPlace, OutRoute, OutPlace
    <2> QED
      BY <1>10, <2>1, <2>2, <2>3
  <1>17. ASSUME NEW x \in 1..(n + d) PROVE NameOf(r[x]) \in DOMAIN routeByKey
    BY <1>1, <1>8, <1>10 DEF Indexed
  <1>18. PICK all : all = DefaultRoutes(ingresses) \union {GroupRoute(ingresses, k) : k \in Groups(ingresses)}
    OBVIOUS
  <1>19. \A x \in 1..(n + d) : r[x] \in all
    <2> SUFFICES ASSUME NEW x \in 1..(n + d) PROVE r[x] \in all
      OBVIOUS
    <2>1. CASE x \in 1..n
      BY <1>7, <1>11, <1>18, <2>1
    <2>2. CASE x \notin 1..n
      <3>1. x - n \in 1..d /\ x = n + (x - n)
        BY <1>7, <2>2
      <3>2. PICK ing \in ingresses : HasDefault(ing) /\ r[x] = DefaultRoute(ing)
        BY <1>13, <3>1
      <3> QED
        BY <1>18, <3>2 DEF DefaultRoutes
    <2> QED
      BY <2>1, <2>2
  <1>20. \A e \in all : \E x \in 1..(n + d) : r[x] = e
    <2> SUFFICES ASSUME NEW e \in all PROVE \E x \in 1..(n + d) : r[x] = e
      OBVIOUS
    <2>1. CASE e \in DefaultRoutes(ingresses)
      <3>1. PICK ing \in ingresses : HasDefault(ing) /\ e = DefaultRoute(ing)
        BY <2>1 DEF DefaultRoutes
      <3> QED
        BY <1>12, <1>14, <3>1
    <2>2. CASE e \notin DefaultRoutes(ingresses)
      <3>1. PICK k \in Groups(ingresses) : e = GroupRoute(ingresses, k)
        BY <1>18, <2>2
      <3>2. PICK x \in 1..n : ks[x] = k
        BY <1>8
      <3>3. x \in 1..(n + d)
        BY <1>7
      <3> QED
        BY <1>11, <3>1, <3>2, <3>3
    <2> QED
      BY <2>1, <2>2
  <1>21. DOMAIN routeByKey = {NameOf(e) : e \in all}
    BY <1>16, <1>17, <1>19, <1>20
  <1>22. Routes(ingresses) = [name \in {NameOf(e) : e \in all} |-> Kept(ingresses, name)]
    BY <1>18, RoutesAreKept
  <1> QED
    BY <1>16, <1>21, <1>22

(***************************************************************************)
(* The Gateways of the outcome                                             *)
(***************************************************************************)
\* The listeners of a Gateway, by the group and the place among its listeners.
Slots(S, g) ==
  {s \in Groups(S) \X {1, 2} : GatewayOf(s[1]) = g /\ s[2] \in DOMAIN GroupListeners(S, s[1])}
SlotBefore(s, t) == KeyPrecedes(s[1], t[1]) \/ (s[1] = t[1] /\ s[2] < t[2])
SlotOrder(S, g) == {p \in Slots(S, g) \X Slots(S, g) : SlotBefore(p[1], p[2])}
InSlots(S, at) == [n \in DOMAIN at |-> GroupListeners(S, at[n][1])[at[n][2]]]

LEMMA GatewaysAre ==
  ASSUME NEW S
  PROVE  Gateways(S) = [g \in {GatewayOf(k) : k \in Groups(S)} |-> InSlots(S, Ordered(Slots(S, g), SlotOrder(S, g)))]
  BY DEF Gateways, InSlots, Slots, SlotOrder, SlotBefore

LEMMA GroupsFinite ==
  ASSUME NEW S \in Inputs
  PROVE  IsFiniteSet(Groups(S))
  <1> DEFINE f == [ing \in S |-> {GroupKey(ing, r.host) : r \in ToSet(ing.rules)}]
  <1>1. IsFiniteSet(S)
    BY InputShape
  <1>2. ASSUME NEW ing \in S PROVE IsFiniteSet(f[ing])
    <2> DEFINE h == [n \in DOMAIN ing.rules |-> GroupKey(ing, ing.rules[n].host)]
    <2>1. DOMAIN ing.rules = 1..Len(ing.rules) /\ Len(ing.rules) \in Nat
      BY InputShape
    <2>2. IsFiniteSet(DOMAIN ing.rules)
      BY <2>1, IndicesFinite
    <2>3. IsFiniteSet({h[n] : n \in DOMAIN h})
      BY <2>2, ImageFinite
    <2>4. f[ing] = {h[n] : n \in DOMAIN h}
      BY DEF ToSet
    <2> QED
      BY <2>3, <2>4
  <1>3. Groups(S) = UNION {f[ing] : ing \in DOMAIN f}
    BY DEF Groups
  <1> HIDE DEF f
  <1>4. DOMAIN f = S
    BY DEF f
  <1>5. IsFiniteSet(UNION {f[ing] : ing \in DOMAIN f})
    BY <1>1, <1>2, <1>4, UnionFinite
  <1> QED
    BY <1>3, <1>5

LEMMA SlotsOrdered ==
  ASSUME NamespacesAreNames, NEW S \in Inputs, ClassesAreNames(S), NEW g
  PROVE  IsFiniteSet(Slots(S, g)) /\ IsOrder(Slots(S, g), SlotOrder(S, g))
  <1>1. IsFiniteSet(Slots(S, g))
    <2>1. IsFiniteSet({1, 2})
      <3>1. {1, 2} = 1..2
        OBVIOUS
      <3> QED
        BY <3>1, IndicesFinite
    <2>2. IsFiniteSet(Groups(S) \X {1, 2})
      BY <2>1, GroupsFinite, FS_Product
    <2> QED
      BY <2>2, FS_Subset DEF Slots
  <1>2. \A s \in Slots(S, g) : s[1] \in Groups(S) /\ s[2] \in {1, 2} /\ s = <<s[1], s[2]>>
    BY DEF Slots
  <1>3. \A s, t \in Slots(S, g) : <<s, t>> \in SlotOrder(S, g) <=> SlotBefore(s, t)
    BY DEF SlotOrder
  <1>4. ASSUME NEW s \in Slots(S, g), NEW t \in Slots(S, g), s # t PROVE SlotBefore(s, t) \/ SlotBefore(t, s)
    <2>1. CASE s[1] = t[1]
      <3>1. s[2] # t[2]
        BY <1>2, <1>4, <2>1
      <3>2. s[2] < t[2] \/ t[2] < s[2]
        BY <1>2, <3>1
      <3> QED
        BY <2>1, <3>2 DEF SlotBefore
    <2>2. CASE s[1] # t[1]
      BY <1>2, <2>2, KeysCompare DEF SlotBefore
    <2> QED
      BY <2>1, <2>2
  <1>5. ASSUME NEW s \in Slots(S, g), NEW t \in Slots(S, g), NEW u \in Slots(S, g), SlotBefore(s, t), SlotBefore(t, u)
        PROVE  SlotBefore(s, u)
    <2>1. IsOrder(Groups(S), InKeyOrder(Groups(S)))
      BY GroupsInOrder
    <2>2. \A x, y \in Groups(S) : <<x, y>> \in InKeyOrder(Groups(S)) <=> KeyPrecedes(x, y)
      BY DEF InKeyOrder
    <2>3. \A x, y, z \in Groups(S) : KeyPrecedes(x, y) /\ KeyPrecedes(y, z) => KeyPrecedes(x, z)
      BY <2>1, <2>2 DEF IsOrder
    <2>4. s[2] < t[2] /\ t[2] < u[2] => s[2] < u[2]
      BY <1>2
    <2> QED
      BY <1>2, <1>5, <2>3, <2>4 DEF SlotBefore
  <1>6. ASSUME NEW s \in Slots(S, g) PROVE ~SlotBefore(s, s)
    <2>1. ~KeyPrecedes(s[1], s[1]) /\ ~(s[2] < s[2])
      BY <1>2, KeysCompare
    <2> QED
      BY <2>1 DEF SlotBefore
  <1> QED
    BY <1>1, <1>3, <1>4, <1>5, <1>6 DEF IsOrder

\* The listeners of a Gateway, group by group.
LEMMA DoneListeners ==
  ASSUME NamespacesAreNames, OutcomeInv, phase = "done", NEW g \in DOMAIN gateways
  PROVE  [n \in DOMAIN gateways[g] |-> AbstractListener(gateways[g][n])]
           = InSlots(ingresses, Ordered(Slots(ingresses, g), SlotOrder(ingresses, g)))
  <1>1. /\ TypeInv /\ OnceInv /\ ListInv /\ GatheredInv /\ Collected /\ ListenersInOrder /\ GatewaysInOrder
    BY DEF OutcomeInv, Collected, OrderInv
  <1>2. ingresses \in Inputs /\ DOMAIN ruleGroups = Groups(ingresses) /\ ClassesAreNames(ingresses)
    BY <1>1, GroupsAre, ClassesNamed DEF TypeInv
  <1>3. PICK S : S = ingresses
    OBVIOUS
  <1>4. PICK ls : ls = listeners[g]
    OBVIOUS
  <1>5. PICK l : l = Len(ls)
    OBVIOUS
  <1>6. PICK gl : gl = gateways[g]
    OBVIOUS
  <1>7. PICK m \in Nat : m = Len(gl) /\ DOMAIN gl = 1..m
    <2>1. IsSequence(gl)
      BY <1>1, <1>6 DEF TypeInv, TypeOK, IsSeqOf
    <2> QED
      BY <2>1 DEF IsSequence
  <1>8. g \in DOMAIN listeners /\ SpreadUpTo(gl, m, ls, l)
    <2>1. Spread(gl, ls, l) /\ g \in DOMAIN listeners
      BY <1>1, <1>4, <1>5, <1>6 DEF GatewaysInOrder
    <2> QED
      BY <1>7, <2>1 DEF Spread
  <1>9. Listed(g, ls, {})
    <2>1. ListenersLeft = {}
      BY DEF ListenersLeft, Building
    <2> QED
      BY <1>1, <1>4, <1>8, <2>1 DEF ListenersInOrder, Afterwards
  <1>10. PICK ks \in [1..l -> Groups(S)] :
           /\ Visits(l, ks, {})
           /\ \A x \in 1..l : GatewayOf(ks[x]) = g /\ ls[x] = ListenerOf(ruleGroups[ks[x]])
           /\ \A k \in Groups(S) : GatewayOf(k) = g => \E x \in 1..l : ks[x] = k
    BY <1>2, <1>3, <1>5, <1>9 DEF Listed
  <1>11. PICK at \in [1..m -> (1..l) \X {1, 2}] :
           /\ \A z \in 1..m :
                /\ at[z][2] \in DOMAIN GatewayListeners(ls[at[z][1]])
                /\ gl[z] = GatewayListeners(ls[at[z][1]])[at[z][2]]
           /\ \A x \in 1..l : \A y \in DOMAIN GatewayListeners(ls[x]) :
                \E z \in 1..m : at[z] = <<x, y>>
           /\ \A y, z \in 1..m : y < z =>
                at[y][1] < at[z][1] \/ (at[y][1] = at[z][1] /\ at[y][2] < at[z][2])
    BY <1>8 DEF SpreadUpTo
  <1>12. \A z \in 1..m : at[z][1] \in 1..l /\ at[z][2] \in {1, 2}
    BY <1>11
  <1>13. \A x \in 1..l :
           /\ ks[x] \in Groups(S)
           /\ DOMAIN GroupListeners(S, ks[x]) = DOMAIN GatewayListeners(ls[x])
           /\ \A n \in DOMAIN GroupListeners(S, ks[x]) :
                GroupListeners(S, ks[x])[n] = AbstractListener(GatewayListeners(ls[x])[n])
    <2> SUFFICES ASSUME NEW x \in 1..l
                 PROVE  /\ ks[x] \in Groups(S)
                        /\ DOMAIN GroupListeners(S, ks[x]) = DOMAIN GatewayListeners(ls[x])
                        /\ \A n \in DOMAIN GroupListeners(S, ks[x]) :
                             GroupListeners(S, ks[x])[n] = AbstractListener(GatewayListeners(ls[x])[n])
      OBVIOUS
    <2>1. PICK k \in DOMAIN ruleGroups : k = ks[x]
      BY <1>2, <1>3
    <2>2. ls[x] = ListenerOf(ruleGroups[k])
      BY <1>10, <2>1
    <2>3. /\ DOMAIN GroupListeners(ingresses, k) = DOMAIN GatewayListeners(ListenerOf(ruleGroups[k]))
          /\ \A n \in DOMAIN GroupListeners(ingresses, k) :
               GroupListeners(ingresses, k)[n] = AbstractListener(GatewayListeners(ListenerOf(ruleGroups[k]))[n])
      BY <1>1, GroupListenersAre
    <2> QED
      BY <1>2, <1>3, <2>1, <2>2, <2>3
  <1>14. PICK s : s = [z \in 1..m |-> <<ks[at[z][1]], at[z][2]>>]
    OBVIOUS
  <1>15. \A z \in 1..m : s[z][1] = ks[at[z][1]] /\ s[z][2] = at[z][2] /\ s[z] = <<ks[at[z][1]], at[z][2]>>
    BY <1>14
  <1>16. \A z \in 1..m : s[z] \in Slots(S, g)
    <2> SUFFICES ASSUME NEW z \in 1..m PROVE s[z] \in Slots(S, g)
      OBVIOUS
    <2>1. ks[at[z][1]] \in Groups(S) /\ GatewayOf(ks[at[z][1]]) = g
      BY <1>10, <1>12
    <2>2. at[z][2] \in DOMAIN GroupListeners(S, ks[at[z][1]])
      BY <1>11, <1>12, <1>13
    <2>3. s[z] \in Groups(S) \X {1, 2}
      <3>1. PICK u, v : u = ks[at[z][1]] /\ v = at[z][2]
        OBVIOUS
      <3>2. u \in Groups(S) /\ v \in {1, 2} /\ s[z] = <<u, v>>
        BY <1>12, <1>15, <2>1, <3>1
      <3> QED
        BY <3>2
    <2> QED
      BY <1>15, <2>1, <2>2, <2>3 DEF Slots
  <1>17. \A e \in Slots(S, g) : \E z \in 1..m : s[z] = e
    <2> SUFFICES ASSUME NEW e \in Slots(S, g) PROVE \E z \in 1..m : s[z] = e
      OBVIOUS
    <2>1. /\ e = <<e[1], e[2]>> /\ e[1] \in Groups(S) /\ GatewayOf(e[1]) = g
          /\ e[2] \in DOMAIN GroupListeners(S, e[1])
      BY DEF Slots
    <2>2. PICK x \in 1..l : ks[x] = e[1]
      BY <1>10, <2>1
    <2>3. e[2] \in DOMAIN GatewayListeners(ls[x])
      BY <1>13, <2>1, <2>2
    <2>4. PICK z \in 1..m : at[z] = <<x, e[2]>>
      BY <1>11, <2>3
    <2>5. at[z][1] = x /\ at[z][2] = e[2]
      BY <2>4
    <2>6. s[z] = <<ks[x], e[2]>>
      BY <1>15, <2>5
    <2> QED
      BY <2>1, <2>2, <2>6
  <1>18. \A y, z \in 1..m : y < z => <<s[y], s[z]>> \in SlotOrder(S, g)
    <2> SUFFICES ASSUME NEW y \in 1..m, NEW z \in 1..m, y < z PROVE <<s[y], s[z]>> \in SlotOrder(S, g)
      OBVIOUS
    <2>1. at[y][1] < at[z][1] \/ (at[y][1] = at[z][1] /\ at[y][2] < at[z][2])
      BY <1>11
    <2>2. Ascends(l, ks)
      BY <1>10 DEF Visits
    <2>3. at[y][1] < at[z][1] => KeyPrecedes(ks[at[y][1]], ks[at[z][1]])
      <3>1. PICK u \in 1..l : u = at[y][1]
        BY <1>12
      <3>2. PICK v \in 1..l : v = at[z][1]
        BY <1>12
      <3>3. u < v => KeyPrecedes(ks[u], ks[v])
        BY <1>2, <1>3, <2>2, VisitsInKeyOrder
      <3> QED
        BY <3>1, <3>2, <3>3
    <2>4. SlotBefore(s[y], s[z])
      BY <1>15, <2>1, <2>3 DEF SlotBefore
    <2> QED
      BY <1>16, <2>4 DEF SlotOrder
  <1>19. Ordered(Slots(S, g), SlotOrder(S, g)) = s
    <2>1. IsFiniteSet(Slots(S, g)) /\ IsOrder(Slots(S, g), SlotOrder(S, g))
      BY <1>2, <1>3, SlotsOrdered
    <2>2. s = [n \in 1..m |-> s[n]]
      BY <1>14
    <2> QED
      BY <1>16, <1>17, <1>18, <2>1, <2>2, OrderedIs
  <1>20. \A z \in 1..m : AbstractListener(gl[z]) = GroupListeners(S, s[z][1])[s[z][2]]
    <2> SUFFICES ASSUME NEW z \in 1..m PROVE AbstractListener(gl[z]) = GroupListeners(S, s[z][1])[s[z][2]]
      OBVIOUS
    <2>1. at[z][2] \in DOMAIN GroupListeners(S, ks[at[z][1]])
      BY <1>11, <1>12, <1>13
    <2>2. GroupListeners(S, ks[at[z][1]])[at[z][2]] = AbstractListener(GatewayListeners(ls[at[z][1]])[at[z][2]])
      BY <1>12, <1>13, <2>1
    <2> QED
      BY <1>11, <1>15, <2>2
  <1>21. DOMAIN s = 1..m
    BY <1>14
  <1>22. [n \in DOMAIN gl |-> AbstractListener(gl[n])] = InSlots(S, s)
    BY <1>7, <1>20, <1>21 DEF InSlots
  <1> QED
    BY <1>3, <1>6, <1>19, <1>22

LEMMA DoneGateways ==
  ASSUME NamespacesAreNames, OutcomeInv, phase = "done"
  PROVE  [g \in DOMAIN gateways |-> [n \in DOMAIN gateways[g] |-> AbstractListener(gateways[g][n])]]
           = Gateways(ingresses)
  <1>1. /\ TypeInv /\ OnceInv /\ ListInv /\ GatheredInv /\ Collected /\ ListenersInOrder /\ GatewaysInOrder
        /\ GatewaysChecked /\ errors = {}
    BY DEF OutcomeInv, Collected, OrderInv, CheckedInv, SourcesInv, NoErrors
  <1>2. DOMAIN ruleGroups = Groups(ingresses)
    BY <1>1, GroupsAre
  <1>3. ListenersLeft = {}
    BY DEF ListenersLeft, Building
  <1>4. ASSUME NEW k \in Groups(ingresses) PROVE GatewayOf(k) \in DOMAIN gateways
    <2>1. GatewayOf(k) \in DOMAIN listeners
      BY <1>1, <1>2, <1>3 DEF ListenersInOrder, Afterwards
    <2> QED
      BY <1>1, <2>1 DEF GatewaysChecked
  <1>5. ASSUME NEW g \in DOMAIN gateways PROVE \E k \in Groups(ingresses) : GatewayOf(k) = g
    <2>1. g \in DOMAIN listeners
      BY <1>1 DEF GatewaysInOrder
    <2> QED
      BY <1>1, <1>2, <2>1, ListedGateway DEF Afterwards
  <1>6. DOMAIN gateways = {GatewayOf(k) : k \in Groups(ingresses)}
    BY <1>4, <1>5
  <1>7. \A g \in DOMAIN gateways :
          [n \in DOMAIN gateways[g] |-> AbstractListener(gateways[g][n])]
            = InSlots(ingresses, Ordered(Slots(ingresses, g), SlotOrder(ingresses, g)))
    BY DoneListeners
  <1>8. Gateways(ingresses)
          = [g \in {GatewayOf(k) : k \in Groups(ingresses)} |->
               InSlots(ingresses, Ordered(Slots(ingresses, g), SlotOrder(ingresses, g)))]
    BY GatewaysAre
  <1> QED
    BY <1>6, <1>7, <1>8

(***************************************************************************)
(* What ends without a panic, and without an error                         *)
(***************************************************************************)
LEMMA NothingPanics ==
  ASSUME OutcomeInv, phase \in {"done", "failed"}
  PROVE  ~Panics(ingresses)
  <1>1. TypeInv /\ OnceInv /\ ListInv /\ GroupsChecked
    BY DEF OutcomeInv, CheckedInv
  <1>2. SUFFICES ASSUME NEW ing \in ingresses, NEW q \in DOMAIN ing.rules,
                        ~ing.rules[q].http \/ \E n \in DOMAIN ing.rules[q].paths : ing.rules[q].paths[n].type = "other"
                 PROVE  FALSE
    BY DEF Panics, ToSet
  <1>3. PICK m \in DOMAIN ingressList : ingressList[m] = ing
    BY <1>1, ListFacts
  <1>4. Grouped(m, q)
    BY <1>1, <1>3 DEF OnceInv, GroupsOnce, Passed
  <1>5. PICK k \in DOMAIN ruleGroups : InSeq(ruleGroups[k].rules, [ingress |-> m, rule |-> q])
    BY <1>4 DEF Grouped
  <1>6. PICK n \in DOMAIN ruleGroups[k].rules : ruleGroups[k].rules[n] = [ingress |-> m, rule |-> q]
    BY <1>5 DEF InSeq
  <1>7. RuleOf(ingressList, ruleGroups[k].rules[n]) = ing.rules[q]
    BY <1>3, <1>6 DEF RuleOf
  <1>8. Left = {}
    BY DEF Left, Building
  <1>9. Sane(ingressList, ruleGroups[k])
    BY <1>1, <1>8 DEF GroupsChecked, Afterwards
  <1>10. ing.rules[q].http /\ \A p \in DOMAIN ing.rules[q].paths : ~Unknown(ing.rules[q].paths[p])
    BY <1>7, <1>9 DEF Sane
  <1> QED
    BY <1>2, <1>10 DEF Unknown

LEMMA NothingFails ==
  ASSUME OutcomeInv, phase = "done"
  PROVE  ~Fails(ingresses)
  <1>1. /\ TypeInv /\ OnceInv /\ ListInv /\ GatheredInv /\ Collected /\ GroupsChecked /\ DefaultsChecked /\ errors = {}
    BY DEF OutcomeInv, CheckedInv, Collected, SourcesInv, NoErrors
  <1>2. ingresses \in Inputs /\ DOMAIN ruleGroups = Groups(ingresses) /\ ClassesAreNames(ingresses)
    BY <1>1, GroupsAre, ClassesNamed DEF TypeInv
  <1>3. Left = {}
    BY DEF Left, Building
  <1>4. ASSUME NEW k \in Groups(ingresses), NEW p \in Places(ingresses, k)
        PROVE  ~MatchFails(PathMatchKey(PathOf(p))) /\ Resolves(k.ns, PathOf(p).backend)
    <2>1. /\ [ing |-> p.ing, rule |-> p.rule] \in Members(ingresses, k)
          /\ p.path \in DOMAIN p.ing.rules[p.rule].paths
      BY <1>2, PlaceFacts
    <2>2. PICK g \in DOMAIN ruleGroups : g = k
      BY <1>2
    <2>3. PICK n \in DOMAIN ruleGroups[g].rules :
            MemberAt(ingressList, ruleGroups[g].rules[n]) = [ing |-> p.ing, rule |-> p.rule]
      BY <1>1, <2>1, <2>2, GroupMembers
    <2>4. RuleOf(ingressList, ruleGroups[g].rules[n]) = p.ing.rules[p.rule]
      BY <2>3 DEF RuleOf, MemberAt
    <2>5. Converts(ingressList, ruleGroups[g])
      BY <1>1, <1>3 DEF GroupsChecked, Afterwards
    <2>6. Good(ruleGroups[g].ns, p.ing.rules[p.rule].paths[p.path])
      BY <2>1, <2>4, <2>5 DEF Converts
    <2>7. ruleGroups[g].ns = k.ns
      BY <1>1, <2>2 DEF TypeInv, Linked, GroupsLinked
    <2> QED
      BY <2>6, <2>7 DEF Good, PathOf
  <1>5. ASSUME NEW ing \in ingresses, HasDefault(ing) PROVE Resolves(ing.ns, ing.defaultBackend[1])
    <2>1. PICK m \in DOMAIN ingressList : ingressList[m] = ing
      BY <1>1, ListFacts
    <2>2. InSeq(defaultBackends, m)
      BY <1>1, <1>5, <2>1 DEF OnceInv, DefaultsOnce, HasDefault
    <2>3. PICK n \in DOMAIN defaultBackends : defaultBackends[n] = m
      BY <2>2 DEF InSeq
    <2> QED
      BY <1>1, <2>1, <2>3 DEF DefaultsChecked, Afterwards
  <1>6. ASSUME NEW k \in Groups(ingresses) PROVE "/" \notin ToSet(k.class)
    BY <1>2 DEF ClassesAreNames, NoSlash, ToSet
  <1> QED
    BY <1>4, <1>5, <1>6 DEF Fails, FailsWith, Resolves

(***************************************************************************)
(* The refinement                                                          *)
(***************************************************************************)
\* When the loops have ended they have come to the outcome of the contract.
LEMMA EndedOutcome ==
  NamespacesAreNames /\ OutcomeInv /\ Ended => AbstractOutcome = Outcome(ingresses) /\ AbstractOutcome # NoResult
  <1> SUFFICES ASSUME NamespacesAreNames, OutcomeInv, Ended
               PROVE  AbstractOutcome = Outcome(ingresses) /\ AbstractOutcome # NoResult
    OBVIOUS
  <1>1. FaultsReal
    BY DEF OutcomeInv, CheckedInv
  <1>2. CASE phase = "done"
    <2>1. ~Panics(ingresses) /\ ~Fails(ingresses)
      BY <1>2, NothingPanics, NothingFails
    <2>2. AbstractOutcome = Result("done", Routes(ingresses), Gateways(ingresses))
      BY <1>2, DoneRoutes, DoneGateways DEF AbstractOutcome
    <2> QED
      BY <2>1, <2>2 DEF Outcome, NoResult, Result
  <1>3. CASE phase = "failed"
    <2>1. ~Panics(ingresses) /\ Fails(ingresses)
      BY <1>1, <1>3, NothingPanics DEF FaultsReal
    <2>2. AbstractOutcome = Result("failed", EmptyMap, EmptyMap)
      BY <1>3 DEF AbstractOutcome, Ended
    <2> QED
      BY <2>1, <2>2 DEF Outcome, NoResult, Result
  <1>4. CASE phase = "panicked"
    <2>1. Panics(ingresses)
      BY <1>1, <1>4 DEF FaultsReal
    <2>2. AbstractOutcome = Result("panicked", EmptyMap, EmptyMap)
      BY <1>4 DEF AbstractOutcome, Ended
    <2> QED
      BY <2>1, <2>2 DEF Outcome, NoResult, Result
  <1> QED
    BY <1>2, <1>3, <1>4 DEF Ended

LEMMA NotEnded == ~Ended => AbstractOutcome = NoResult
  BY DEF AbstractOutcome, Ended, NoResult

LEMMA IngressesStay == [Next]_vars => UNCHANGED ingresses /\ (Ended => UNCHANGED vars)
  <1> USE DEF groupVars, pathVars, buildVars, outVars, Goto
  <1> QED
    BY DEF Next, Convert, Terminating, Ended, vars, FromMap, AddIngressRule, AddDefaultBackend, SortRuleGroups,
          NextRuleGroup, GroupIngressPath, PathsGrouped, ToHTTPRouteRule, ConfigureBackendRef,
          AppendRule, RouteBuilt, GroupsBuilt, DefaultBackendRoute, DefaultsBuilt, NextGateway,
          AddListener, GatewayBuilt, GatewaysBuilt, IndexRoute, RoutesIndexed

Converted == AbstractOutcome = Outcome(ingresses) /\ AbstractOutcome # NoResult
ContractStep == [Contract!Convert]_<<ingresses, AbstractOutcome>>

LEMMA InitContract == Init => Contract!Init
  BY DEF Init, Contract!Init, AbstractOutcome, Ended, NoResult

\* A step that ends the loops is the conversion, and the others are hidden.
LEMMA NextConverts == [Next]_vars /\ (Ended' => Converted') => ContractStep
  <1> SUFFICES ASSUME [Next]_vars, Ended' => Converted' PROVE ContractStep
    OBVIOUS
  <1>1. UNCHANGED ingresses /\ (Ended => UNCHANGED vars)
    BY IngressesStay
  <1>2. CASE Ended
    <2>1. UNCHANGED <<phase, ingressList, routeByKey, gateways>>
      BY <1>1, <1>2 DEF vars, outVars
    <2>2. UNCHANGED AbstractOutcome
      BY <2>1 DEF AbstractOutcome, Ended, AbstractRoute, AbstractPlace
    <2> QED
      BY <1>1, <2>2 DEF ContractStep
  <1>3. CASE ~Ended
    <2>1. AbstractOutcome = NoResult
      BY <1>3, NotEnded
    <2>2. CASE Ended'
      BY <1>1, <2>1, <2>2 DEF ContractStep, Contract!Convert, Converted
    <2>3. CASE ~Ended'
      <3>1. AbstractOutcome' = NoResult
        BY <2>3 DEF AbstractOutcome, Ended, NoResult
      <3> QED
        BY <1>1, <2>1, <3>1 DEF ContractStep
    <2> QED
      BY <2>2, <2>3
  <1> QED
    BY <1>2, <1>3

\* common.ToIR computes a function of the set of Ingresses, whatever Ingresses
\* there are: in every order in which Go goes through its maps, and wherever
\* sort.Slice leaves Ingresses with the same name, it panics, fails or gives
\* the routes and Gateways that ConversionOutcome defines.  Namespaces have no
\* slash, as the API server sees to: the string that the groups are sorted by
\* would not tell their keys otherwise.  (converter.go)
THEOREM ImplementsTheContract ==
  ASSUME NamespacesAreNames
  PROVE  Spec => ImplementsContract
  <1>1. OutcomeInv /\ Ended => Converted
    BY EndedOutcome DEF Converted
  <1>2. ContractStep <=> [Contract!Convert]_<<ingresses, AbstractOutcome>>
    BY DEF ContractStep
  <1> QED
    BY <1>1, <1>2, OutcomeInvariance, InitContract, NextConverts, PTL DEF Spec, ImplementsContract, Contract!Spec
================================================================================
