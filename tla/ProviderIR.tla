------------------------------ MODULE ProviderIR ------------------------------
(***************************************************************************)
(* The provider IR as a function of the set of Ingresses that were read:   *)
(* what common.ToIR computes, without the loops that compute it.  Module   *)
(* Aggregator is shown to compute it, and module Features starts from it.  *)
(*                                                                         *)
(* A place is a path of a rule of an Ingress, or (rule = 0) its default    *)
(* backend.                                                                *)
(***************************************************************************)
EXTENDS IngressApi, Orders, SequencesExt

Members(S, key) ==
  {m \in UNION {[ing : {ing}, rule : DOMAIN ing.rules] : ing \in S} :
     GroupKey(m.ing, m.ing.rules[m.rule].host) = key}

Groups(S) == UNION {{GroupKey(ing, r.host) : r \in ToSet(ing.rules)} : ing \in S}

Places(S, key) ==
  UNION {[ing : {m.ing}, rule : {m.rule}, path : DOMAIN m.ing.rules[m.rule].paths] :
           m \in Members(S, key)}

PathOf(place) == place.ing.rules[place.rule].paths[place.path]

\* Places of one namespace are ordered by Ingress name, rule and path.
Before(p, q) ==
  \/ Precedes(p.ing.name, q.ing.name)
  \/ /\ p.ing.name = q.ing.name
     /\ \/ p.rule < q.rule
        \/ p.rule = q.rule /\ p.path < q.path

\* The Ingress whose name comes first names the group.
Owner(S, key) ==
  (CHOOSE m \in Members(S, key) :
     \A n \in Members(S, key) : ~Precedes(n.ing.name, m.ing.name)).ing

\* One rule per match key, in the order in which the keys first occur, with
\* every place that has the key as a source, in order.
Rules(S, key) ==
  LET places  == Places(S, key)
      matches == {PathMatchKey(PathOf(p)) : p \in places}
      sharing == [match \in matches |-> {p \in places : PathMatchKey(PathOf(p)) = match}]
      first   == [match \in matches |->
                    CHOOSE p \in sharing[match] :
                      \A q \in sharing[match] : p = q \/ Before(p, q)]
      keys    == Ordered(matches, {m \in matches \X matches : Before(first[m[1]], first[m[2]])})
  IN  [n \in DOMAIN keys |->
         [match   |-> ToHTTPRouteMatch(keys[n]),
          sources |-> Ordered(sharing[keys[n]], {p \in places \X places : Before(p[1], p[2])})]]

GroupRoute(S, key) ==
  [name |-> RouteName(Owner(S, key).name, key.host),
   ns |-> key.ns, class |-> key.class, host |-> key.host, rules |-> Rules(S, key)]

DefaultRoute(ing) ==
  [name |-> DefaultRouteName(ing.name), ns |-> ing.ns,
   class |-> GetIngressClass(ing), host |-> <<>>,
   rules |-> <<[match |-> Nothing,
                sources |-> <<[ing |-> ing, rule |-> 0, path |-> 0]>>]>>]

HasDefault(ing) == ing.defaultBackend # <<>>

\* Of the routes that have one name, the default backend's is kept, and
\* otherwise that of the group whose key sorts last.
Routes(S) ==
  LET defaults == {DefaultRoute(ing) : ing \in {x \in S : HasDefault(x)}}
      key(r)   == [ns |-> r.ns, name |-> r.name]
      kept(name) ==
        IF \E d \in defaults : key(d) = name
        THEN CHOOSE d \in defaults : key(d) = name
        ELSE LET same == {k \in Groups(S) : key(GroupRoute(S, k)) = name}
             IN  GroupRoute(S, CHOOSE k \in same : \A l \in same : ~KeyPrecedes(k, l))
  IN  [name \in {key(r) : r \in defaults \union {GroupRoute(S, k) : k \in Groups(S)}}
         |-> kept(name)]

\* A group's listener: its TLS entries are those of its members, once for
\* every rule, and only a single entry with a single host lends it a hostname.
GroupHost(S, key) ==
  LET withTLS == {m \in Members(S, key) : m.ing.tls # <<>>}
      tls     == (CHOOSE m \in withTLS : TRUE).ing.tls
  IN  IF key.host = <<>> /\ Cardinality(withTLS) = 1
         /\ Len(tls) = 1 /\ Len(tls[1].hosts) = 1
      THEN tls[1].hosts[1]
      ELSE key.host

GroupSecrets(S, key) ==
  UNION {ToSet(Secrets(m.ing.tls)) : m \in Members(S, key)}

GroupListeners(S, key) ==
  LET host  == GroupHost(S, key)
      certs == GroupSecrets(S, key)
      listener(scheme, port, c) ==
        [name |-> ListenerName(host, scheme), host |-> host, port |-> port, certs |-> c]
  IN  <<listener("http", 80, {})>>
        \o IF certs = {} THEN <<>> ELSE <<listener("https", 443, certs)>>

GatewayOf(key) == [ns |-> key.ns, class |-> key.class]

\* The listeners of a Gateway, group by group in the order of the sorted keys.
Gateways(S) ==
  [g \in {GatewayOf(k) : k \in Groups(S)} |->
     LET slots == {s \in Groups(S) \X {1, 2} :
                     GatewayOf(s[1]) = g /\ s[2] \in DOMAIN GroupListeners(S, s[1])}
         at    == Ordered(slots, {p \in slots \X slots :
                     KeyPrecedes(p[1][1], p[2][1]) \/ (p[1][1] = p[2][1] /\ p[1][2] < p[2][2])})
     IN  [n \in DOMAIN at |-> GroupListeners(S, at[n][1])[at[n][2]]]]

Panics(S) ==
  \E ing \in S : \E r \in ToSet(ing.rules) :
    /\ ~r.http \/ \E n \in DOMAIN r.paths : r.paths[n].type = "other"

FailsWith(ports, S) ==
  \/ \E k \in Groups(S) : \E p \in Places(S, k) :
       \/ MatchFails(PathMatchKey(PathOf(p)))
       \/ ~ResolvesWith(ports, k.ns, PathOf(p).backend)
  \/ \E ing \in S : HasDefault(ing) /\ ~ResolvesWith(ports, ing.ns, ing.defaultBackend[1])
  \/ \E k \in Groups(S) : "/" \in ToSet(k.class)

Fails(S) == FailsWith(ServicePorts, S)
===============================================================================
