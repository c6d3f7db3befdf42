----------------------------- MODULE Conversions -----------------------------
(***************************************************************************)
(* The last two feature parsers of providers/ingressnginx.                 *)
(* sslPassthroughFeature turns a whole HTTPRoute into a TLSRoute with a    *)
(* listener of its own, and backendProtocolFeature moves rules to a        *)
(* GRPCRoute.  What the conversion ends with is what the emitter gets.     *)
(*                                                                         *)
(* A GRPCRoute's rule matches the service and the method that are the      *)
(* segments of the path; here it keeps the path.                           *)
(***************************************************************************)
EXTENDS Features

VARIABLES
  tlsRoutes,     \* EmitterIR.TLSRoutes
  grpcRoutes,    \* EmitterIR.GRPCRoutes
  passthrough,   \* hasSslPassthrough
  grpcRules,     \* the rules collected for the GRPCRoute and for the HTTPRoute,
  httpRules      \* by index, one for each source

conversionVars == <<tlsRoutes, grpcRoutes, passthrough, grpcRules, httpRules>>
vars == <<featureVars, conversionVars>>

conversionLocals == <<passthrough, grpcRules, httpRules>>

ConversionParsers == {"sslPassthrough", "backendProtocol"}

ConversionInit ==
  /\ Init
  /\ tlsRoutes = EmptyMap /\ grpcRoutes = EmptyMap
  /\ passthrough = FALSE /\ grpcRules = <<>> /\ httpRules = <<>>

VisitRoute ==
  /\ VisitGroup(ConversionParsers)
  /\ passthrough' = FALSE /\ grpcRules' = <<>> /\ httpRules' = <<>>
  /\ UNCHANGED <<tlsRoutes, grpcRoutes>>

-------------------------------------------------------------------------------
(***************************************************************************)
(* sslPassthroughFeature                                                   *)
(***************************************************************************)
\* The first source that asks for it is enough for its rule.
LookForPassthrough ==
  /\ AtSource({"sslPassthrough"})
  /\ IF Get(annotations[Source.ing], "ssl-passthrough") = True
     THEN passthrough' = TRUE /\ j' = Len(Sources[i]) + 1
     ELSE passthrough' = passthrough /\ j' = j + 1
  /\ UNCHANGED <<inputs, httpRoutes, gateways, errors, step, pending, group, i, localVars,
                 tlsRoutes, grpcRoutes, grpcRules, httpRules>>

TLSListenerName(host) == IF host = <<>> THEN <<"tls">> ELSE NameFromHost(host) \o <<"-", "tls">>

WithTLSAdded(ls, host) ==
  Append(ls, [name |-> TLSListenerName(host), host |-> host, protocol |-> "TLS"])

\* The listeners without those of HTTPS for the host, and then one of TLS
\* unless the host has it: then the Gateway stays as it is.
WithTLSOnly(ls, host) ==
  IF \E n \in DOMAIN ls : ls[n].protocol = "TLS" /\ ls[n].host = host THEN ls
  ELSE WithTLSAdded(Those(ls, {n \in DOMAIN ls : ls[n].protocol # "HTTPS"}), host)
WithTLSListener(ls, host) ==
  IF \E n \in DOMAIN ls : ls[n].protocol = "TLS" /\ ls[n].host = host THEN ls
  ELSE WithTLSAdded(Those(ls, {n \in DOMAIN ls : ls[n].protocol # "HTTPS" \/ ls[n].host # host}), host)

\* Of a rule only the backends stay: its path, headers, filters and weights do
\* not apply to a connection.
TLSRule(rule) ==
  [from |-> rule.from, backends |-> BackendSources(rule)]

TLSRoute(rt, sectionName) ==
  [ns |-> rt.ns, host |-> rt.host,
   parentRefs |-> IF sectionName = <<>> THEN rt.parentRefs
                  ELSE [rt.parentRefs EXCEPT ![1].sectionName = sectionName],
   rules |-> [n \in DOMAIN rt.rules |-> TLSRule(rt.rules[n])]]

\* The name of the listener that the TLSRoute is attached to, if its Gateway
\* exists.
TLSListener(gw, host) ==
  LET ls == gateways[gw].listeners
      at == {n \in DOMAIN ls : ls[n].protocol = "TLS" /\ ls[n].host = host}
  IN  IF gw \notin DOMAIN gateways THEN <<>>
      ELSE IF at # {} THEN ls[Min(at)].name
      ELSE TLSListenerName(host)

KeepKey(map, key) == map
RemoveKey(map, key) == [x \in DOMAIN map \ {key} |-> map[x]]

FinishPassthrough ==
  /\ RulesDone({"sslPassthrough"})
  /\ \/ /\ ~passthrough
        /\ LeaveGroup
        /\ UNCHANGED <<httpRoutes, gateways, step, pending, tlsRoutes>>
     \/ /\ passthrough /\ Route.parentRefs = <<>>
        /\ Panic
        /\ UNCHANGED <<httpRoutes, gateways, tlsRoutes>>
     \/ /\ passthrough /\ Route.parentRefs # <<>>
        /\ LET gw == ParentGateway(Route)
           IN  /\ tlsRoutes' = Put(tlsRoutes, Key, TLSRoute(Route, TLSListener(gw, Route.host)))
               /\ gateways' = IF gw \notin DOMAIN gateways THEN gateways
                              ELSE [gateways EXCEPT ![gw].listeners = WithTLSListener(@, Route.host)]
        /\ httpRoutes' = RemoveKey(httpRoutes, Key)
        /\ LeaveGroup
        /\ UNCHANGED <<step, pending>>
  /\ UNCHANGED <<inputs, errors, localVars, grpcRoutes, conversionLocals>>

-------------------------------------------------------------------------------
(***************************************************************************)
(* backendProtocolFeature                                                  *)
(***************************************************************************)
IsGRPC(a) == Get(a, "backend-protocol") \in {<<"GRPC">>, <<"GRPCS">>}

\* Every source of a rule adds the rule to one of the two lists.
CollectRule ==
  /\ AtSource({"backendProtocol"})
  /\ IF IsGRPC(annotations[Source.ing])
     THEN grpcRules' = Append(grpcRules, i) /\ httpRules' = httpRules
     ELSE httpRules' = Append(httpRules, i) /\ grpcRules' = grpcRules
  /\ NextSource
  /\ UNCHANGED <<inputs, httpRoutes, gateways, errors, localVars, tlsRoutes, grpcRoutes, passthrough>>

RulesAt(rt, indices) == [n \in DOMAIN indices |-> rt.rules[indices[n]]]

\* Of the filters only those that modify headers.
GRPCRule(rule) ==
  [rule EXCEPT !.filters = SelectSeq(@, LAMBDA f : f.type = "x-forwarded-prefix")]

\* sets.Set.UnsortedList: the indices in any order.
Orders(indices) == {order \in [1..Cardinality(indices) -> indices] : IsInjective(order)}

\* The features of backendTLS at the indices in order, at their new places.
BackendTLSAt(features, order) ==
  LET kept == {n \in DOMAIN order : <<"backendTLS", order[n]>> \in DOMAIN features}
  IN  [at \in {<<"backendTLS", n>> : n \in kept} |-> features[<<"backendTLS", order[at[2]]>>]]

OtherFeatures(features) ==
  [at \in {x \in DOMAIN features : x[1] # "backendTLS"} |-> features[at]]

GRPCRoute(rt, indices, order) ==
  [ns |-> rt.ns, host |-> rt.host, parentRefs |-> rt.parentRefs,
   features |-> BackendTLSAt(rt.features, order),
   rules |-> [n \in DOMAIN indices |-> GRPCRule(rt.rules[indices[n]])]]

HTTPRoute(rt, indices, order) ==
  [rt EXCEPT !.rules = RulesAt(rt, indices),
             !.features = Over(BackendTLSAt(@, order), OtherFeatures(@))]

KeptBoth(routes, rt, key, indices, order) == routes

\* Rules that no source of the provider IR leads to, as that of app-root, are
\* in neither route.
Moved(routes, rt, key, indices, order) ==
  IF indices = <<>> THEN RemoveKey(routes, key)
  ELSE Put(routes, key, HTTPRoute(rt, indices, order))

FinishProtocol ==
  /\ RulesDone({"backendProtocol"})
  /\ \/ /\ grpcRules = <<>>
        /\ UNCHANGED <<httpRoutes, grpcRoutes>>
     \/ /\ grpcRules # <<>>
        /\ \E order \in Orders(ToSet(grpcRules)) :
             grpcRoutes' = Put(grpcRoutes, Key, GRPCRoute(Route, grpcRules, order))
        /\ \E order \in Orders(ToSet(httpRules)) :
             httpRoutes' = Moved(httpRoutes, Route, Key, httpRules, order)
  /\ LeaveGroup
  /\ UNCHANGED <<inputs, gateways, errors, step, pending, localVars, tlsRoutes, conversionLocals>>

-------------------------------------------------------------------------------
ConversionStep ==
  \/ VisitRoute
  \/ (NextRule(ConversionParsers) \/ MissingRule(ConversionParsers)
       \/ NextParser(ConversionParsers)) /\ UNCHANGED conversionVars
  \/ LookForPassthrough \/ FinishPassthrough
  \/ CollectRule \/ FinishProtocol

Converted == step = Ended

ConversionEnded == step \in {Panicked, Ended} /\ UNCHANGED vars

ConversionNext ==
  \/ FeatureStep /\ UNCHANGED conversionVars
  \/ ConversionStep
  \/ ConversionEnded

ConversionSpec == ConversionInit /\ [][ConversionNext]_vars

-------------------------------------------------------------------------------
(***************************************************************************)
(* Invariants                                                              *)
(***************************************************************************)
\* The routes keep the shape of the provider IR's: each is in one of the maps, a
\* TLSRoute in no other, and their rules stand for those of the provider IR.
ConversionTypeOK ==
  /\ TypeOK
  /\ DOMAIN httpRoutes \union DOMAIN tlsRoutes \union DOMAIN grpcRoutes = DOMAIN pir
  /\ DOMAIN tlsRoutes \cap (DOMAIN httpRoutes \union DOMAIN grpcRoutes) = {}
  /\ \A routes \in {tlsRoutes, grpcRoutes} : \A key \in DOMAIN routes :
       \A n \in DOMAIN routes[key].rules :
         routes[key].rules[n].from \in {0} \union DOMAIN pir[key].rules

RulesIn(routes, key) == IF key \in DOMAIN routes THEN ToSet(routes[key].rules) ELSE {}

Asks(key, n, Test(_)) ==
  \E p \in ToSet(pir[key].rules[n].sources) : Test(annotations[p.ing])

IsPassthrough(a) == Get(a, "ssl-passthrough") = True

\* No backend is lost and none is served by a protocol nobody asked for: with
\* ssl-passthrough at any source the whole route is a TLSRoute; without it a rule
\* is in the GRPCRoute if and only if one of its sources asks for GRPC, in the
\* HTTPRoute if and only if one does not, and has its backends wherever it is.
BackendsKeepProtocol ==
  Converted =>
    \A key \in {k \in DOMAIN pir : OneGroup(k)} : \A n \in DOMAIN pir[key].rules :
      LET secure  == \E m \in DOMAIN pir[key].rules : Asks(key, m, IsPassthrough)
          sources == pir[key].rules[n].sources
          served(routes) ==
            \E rule \in RulesIn(routes, key) :
              /\ rule.from = n
              /\ BackendSources(rule) = sources
          secured == \E rule \in RulesIn(tlsRoutes, key) : rule.from = n /\ rule.backends = sources
      IN  /\ secured <=> secure
          /\ served(grpcRoutes) <=> ~secure /\ Asks(key, n, IsGRPC)
          /\ served(httpRoutes) <=> ~secure /\ Asks(key, n, LAMBDA a : ~IsGRPC(a))

\* A TLSRoute is attached to a listener of its Gateway, for its host, that lets
\* TLS through, and no other listener of that Gateway ends TLS for that host.
PassthroughReachable ==
  \A key \in DOMAIN tlsRoutes :
    LET rt == tlsRoutes[key]
        gw == ParentGateway(rt)
        ls == gateways[gw].listeners
    IN  /\ gw \in DOMAIN gateways
        /\ \E n \in DOMAIN ls :
             <<ls[n].name, ls[n].host, ls[n].protocol>>
               = <<rt.parentRefs[1].sectionName, rt.host, "TLS">>
        /\ Cardinality({n \in DOMAIN ls : ls[n].host = rt.host /\ ls[n].protocol # "HTTP"}) = 1

\* A host that is not passed through keeps the listeners it had: what one host
\* asks for does not close another's.
OtherListenersKept ==
  LET before == Gateways(ingresses)
  IN  \A gw \in DOMAIN gateways :
        \A l \in ToSet(EmitterGateway(before[gw]).listeners) :
          (\A key \in DOMAIN tlsRoutes : tlsRoutes[key].host # l.host \/ ParentGateway(tlsRoutes[key]) # gw)
            => l \in ToSet(gateways[gw].listeners)
===============================================================================
