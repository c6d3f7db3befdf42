------------------------------ MODULE MCProgram ------------------------------
(***************************************************************************)
(* What conversion and emission make of the Ingresses of MCDriver: the     *)
(* parameters of Program.  The features that annotations can ask for, and  *)
(* what becomes of them:                                                   *)
(*   cors              a feature that the Envoy Gateway emitter converts   *)
(*   external-auth     one whose URL it cannot read                        *)
(*   retry             one with a number of tries that the parser cannot   *)
(*                     read: it reports it and leaves the source nil       *)
(*   rate-limit        a value that the parser cannot read, and drops      *)
(*   canary            a canary by weight                                  *)
(*   bad-canary        one with a weight that is not a number              *)
(*   ssl-passthrough   a TLSRoute instead of the HTTPRoute                 *)
(*   grpc              a GRPCRoute                                         *)
(* No route has more than one rule, so each feature is merged into one of  *)
(* its whole route (rule 0) by the Envoy Gateway emitter.                  *)
(***************************************************************************)
EXTENDS Program

MCKinds ==
  {"cors", "external-auth", "retry", "rate-limit", "canary", "bad-canary", "ssl-passthrough", "grpc"}

Conv == INSTANCE ProviderIR WITH Inputs <- {}, ServicePorts <- EmptyMap, ImplSpecificOK <- TRUE

Specs(ings) == {ings[nn].spec : nn \in DOMAIN ings}

AskedBy(ings, place) == ings[NamespacedName(place.ing)].asks
Sources(ings, rule, ask) == SelectSeq(rule.sources, LAMBDA p : ask \in AskedBy(ings, p))
RoutePlaces(route) == UNION {ToSet(rule.sources) : rule \in ToSet(route.rules)}

\* The parsers go through rule groups: a route that none has the name of, as
\* that of a default backend, has no features.
Visited(S, routes) ==
  LET named == {[ns |-> g.ns, name |-> Conv!GroupRoute(S, g).name] : g \in Conv!Groups(S)}
  IN  [key \in DOMAIN routes \cap named |-> routes[key]]

\* A rule has one source that is not a canary, and at most one that is.
CanaryFails(ings, rule) ==
  \/ Sources(ings, rule, "bad-canary") # <<>>
  \/ Len(Sources(ings, rule, "canary")) > 1
  \/ Len(rule.sources) - Len(Sources(ings, rule, "canary")) # 1

\* One feature for a kind at a rule; the last source that asks is named.
Features(ings, route) ==
  UNION {{[kind |-> k, rule |-> n, parsed |-> FALSE,
           source |-> IF k = "retry" THEN <<>>
                      ELSE <<NamespacedName(Last(Sources(ings, route.rules[n], k)).ing)>>] :
            k \in {x \in {"cors", "external-auth", "retry"} :
                     Sources(ings, route.rules[n], x) # <<>>}} :
           n \in DOMAIN route.rules}

ParserNotes(ings, key, route) ==
  UNION {{[type |-> IF k \in {"rate-limit", "retry"} THEN "ERROR" ELSE "INFO", kind |-> k, route |-> key,
           source |-> IF k \in {"ssl-passthrough", "grpc"} THEN <<>> ELSE <<NamespacedName(p.ing)>>] :
            k \in AskedBy(ings, p) \ {"bad-canary"}} : p \in RoutePlaces(route)}

\* A route with a source for TLS has become a TLSRoute when the protocols are
\* looked at; the HTTPRoute stays for sources that do not ask for GRPC.
Converted(ings, gateways, routes, visited) ==
  LET asks(key, ask) == \E p \in RoutePlaces(visited[key]) : ask \in AskedBy(ings, p)
      tls  == {key \in DOMAIN visited : asks(key, "ssl-passthrough")}
      grpc == {key \in DOMAIN visited \ tls : asks(key, "grpc")}
      gone == {key \in grpc : \A p \in RoutePlaces(visited[key]) : "grpc" \in AskedBy(ings, p)}
      http == DOMAIN routes \ (tls \union gone)
  IN  [end    |-> "returned",
       ir     |-> [gateways |-> gateways, tls |-> tls, grpc |-> grpc,
                   http |-> [key \in http |->
                               IF key \in DOMAIN visited THEN Features(ings, visited[key]) ELSE {}]],
       errors |-> {key \in DOMAIN visited :
                     \E rule \in ToSet(visited[key].rules) : CanaryFails(ings, rule)},
       notes  |-> UNION {ParserNotes(ings, key, visited[key]) : key \in DOMAIN visited}]

ConversionOf(ings, S, routes) ==
  Converted(ings, DOMAIN Conv!Gateways(S), routes, Visited(S, routes))

MCConversions(ings, ports) ==
  {IF Conv!Panics(Specs(ings)) THEN [end |-> "panicked"]
   ELSE IF Conv!FailsWith(ports, Specs(ings))
        THEN [end |-> "returned", errors |-> {"ToIR"}, notes |-> {},
              ir  |-> [gateways |-> {}, tls |-> {}, grpc |-> {}, http |-> EmptyMap]]
   ELSE ConversionOf(ings, Specs(ings), Conv!Routes(Specs(ings)))}

\* The standard emitter leaves all features as they are.
Emitted(emitter, f) ==
  IF emitter = "envoy-gateway" THEN [f EXCEPT !.rule = 0, !.parsed = f.kind = "cors"] ELSE f

\* The extensions of a route are one SecurityPolicy, named like it.
Resources(ir) ==
  [NoResources EXCEPT
     !["Gateway"] = ir.gateways, !["HTTPRoute"] = DOMAIN ir.http,
     !["GRPCRoute"] = ir.grpc,   !["TLSRoute"] = ir.tls,
     !["GatewayExtension"] = {key \in DOMAIN ir.http : \E f \in ir.http[key] : f.parsed}]

\* The Envoy Gateway emitter reports each feature with the name of its source.
EmitterNotes(ir) ==
  UNION {{[type |-> IF f.parsed THEN "INFO" ELSE "ERROR", kind |-> f.kind, route |-> key,
           source |-> f.source] : f \in ir.http[key]} : key \in DOMAIN ir.http}

MCEmissions(emitter, ir) ==
  LET emitted == [ir EXCEPT !.http = [key \in DOMAIN ir.http |->
                                        {Emitted(emitter, f) : f \in ir.http[key]}]]
      envoy   == emitter = "envoy-gateway"
  IN  {IF envoy /\ \E f \in UNION Range(ir.http) : f.source = <<>>
       THEN [end |-> "panicked"]
       ELSE [end |-> "returned", ir |-> emitted, resources |-> Resources(emitted), errors |-> {},
             notes |-> IF envoy THEN EmitterNotes(emitted) ELSE {}]}
===============================================================================
