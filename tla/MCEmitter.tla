------------------------------ MODULE MCEmitter ------------------------------
(***************************************************************************)
(* Instances of EnvoyEmitter for TLC.  A route has two rules, each with    *)
(* one of a few bundles of features; the bundles hold the values that a    *)
(* pass treats in different ways, and two equal ones are merged.           *)
(***************************************************************************)
EXTENDS EnvoyEmitter

MCAlphabet == <<"*", "-", "/", "0", "1", "2", "canary", "eg", "header", "http", "https", "mtls",
                "n", "o", "r", "s", "t", "x", "y">>

MCQuantities == {"8Mi"}

Key(kind, name) == [kind |-> kind, ns |-> <<"n">>, name |-> <<name>>]

(***************************************************************************)
(* Rules                                                                   *)
(***************************************************************************)
Service(name, port, weight) == [kind |-> "Service", name |-> <<name>>, port |-> port, weight |-> weight]

Rule(index, value, refs) ==
  [name |-> <<"r", "-", index>>, path |-> [type |-> "PathPrefix", value |-> <<"/", value>>],
   headers |-> <<>>, backends |-> refs, filters |-> <<>>]

Weighted == Rule("0", "s", <<Service("s", 80, <<30>>), Service("s", 80, <<70>>)>>)
Two      == Rule("1", "t", <<Service("s", 80, <<>>), Service("t", 80, <<>>)>>)
TwoPorts == Rule("1", "t", <<Service("s", 80, <<1>>), Service("s", 90, <<2>>)>>)
Header   == [Weighted EXCEPT !.name = @ \o <<"-", "canary", "-", "header">>,
                             !.headers = <<[name |-> "h", value |-> "always"]>>]
Unnamed  == [Two EXCEPT !.name = <<>>]
Resource0 == Rule("0", "s", <<[kind |-> "Bucket", name |-> <<"s">>, port |-> 0, weight |-> <<>>]>>)

(***************************************************************************)
(* Features                                                                *)
(***************************************************************************)
URL(scheme, host, port, path) ==
  [parses |-> TRUE, scheme |-> scheme, host |-> host, port |-> port, path |-> path]

Labels(names) == [n \in DOMAIN names |-> <<names[n]>>]

First ==
  [regex       |-> [pathPattern |-> <<"/", "s">>],
   rewrite     |-> [target |-> <<"/", "$", "1">>],
   redirect    |-> [force |-> FALSE],
   basicAuth   |-> [name |-> "k", namespace |-> <<"n">>],
   externalAuth |-> [url |-> URL("https", Labels(<<"s", "n", "svc", "cluster", "local">>), 0, <<>>)],
   ipRange     |-> [allowList |-> {"a"}],
   rateLimit   |-> [limitValue |-> 5, unit |-> "second"],
   proxyBuffer |-> [limitValue |-> "8Mi"],
   cors        |-> ("cors-allow-origin" :> {"a"}),
   backendTLS  |-> [certificateRef |-> "k"],
   timeOut     |-> [duration |-> "5s"],
   retry       |-> [triggers |-> {"error", "http_502"}, count |-> 3],
   affinity    |-> [name |-> "c"]]

Second ==
  [rewrite     |-> [target |-> <<"/">>],
   redirect    |-> [url |-> URL("https", Labels(<<"s", "o">>), 0, <<"/">>), statusCode |-> 301],
   externalAuth |-> [url |-> URL("http", Labels(<<"s", "o", "x">>), 80, <<"/", "t">>)],
   basicAuth   |-> [name |-> "k", namespace |-> <<"n">>],
   ipRange     |-> [allowList |-> {"a"}, denyList |-> {"b"}],
   cors        |-> ("cors-max-age" :> "5s"),
   backendTLS  |-> [certificateRef |-> "k", sni |-> "c"],
   retry       |-> [triggers |-> {"error", "updating"}]]

Third ==
  [regex       |-> EmptyMap,
   rewrite     |-> [target |-> <<"/", "t">>],
   redirect    |-> [force |-> TRUE, statusCode |-> 302, url |-> URL("", <<>>, 0, <<"/", "t">>)],
   externalAuth |-> [url |-> URL("http", Labels(<<"s", "n", "svc">>), 0, <<>>),
                     allowedResponseHeaders |-> {"h"}],
   ipRange     |-> [denyList |-> {"b"}],
   cors        |-> EmptyMap,
   retry       |-> [triggers |-> {"timeout", "http_403"}]]

Fourth ==
  [externalAuth |-> [url |-> URL("http", Labels(<<"s">>), 0, <<>>)],
   affinity    |-> [name |-> "c"],
   basicAuth   |-> [name |-> "k", namespace |-> <<"n">>]]

NoHost == [externalAuth |-> [url |-> URL("", <<>>, 0, <<"/", "t">>)]]

Bundles == {EmptyMap, First, Second, Third, Fourth}

\* The IRs that the bundles of the rules of a resource make; ids differ.
FeaturesOf(key, bundles) ==
  [at \in UNION {{<<f, n>> : f \in DOMAIN bundles[n]} : n \in DOMAIN bundles} |->
     [id |-> <<key, at>>, fields |-> bundles[at[2]][at[1]], source |-> <<"ingress">>]]

Route(key, parents, rules, bundles) ==
  key :> [parentRefs |-> parents, rules |-> rules, features |-> FeaturesOf(key, bundles)]

Listener(name, protocol) == [name |-> <<name>>, protocol |-> protocol]
HTTP  == <<Listener("http", "HTTP")>>
HTTPS == <<Listener("https", "HTTPS"), Listener("http", "HTTP")>>
Both  == <<Listener("x", "HTTPS"), Listener("https", "HTTPS")>>

Gateway(listeners, bundles) ==
  LET key == Key("Gateway", "y")
  IN  key :> [class |-> <<"y">>, listeners |-> listeners, features |-> FeaturesOf(key, bundles)]

Parent == <<<<"y">>>>
X == Key("HTTPRoute", "x")
T == Key("HTTPRoute", "t")
G == Key("GRPCRoute", "x")
GRPC == Key("GRPCRoute", "y")

Only(bundle, names) == [f \in names \cap DOMAIN bundle |-> bundle[f]]
Secret(name, ns) == [mTLS |-> [name |-> name, namespace |-> <<ns>>]]

Pairs == {Route(X, Parent, <<Weighted, Two>>, <<a, b>>) @@ Gateway(ls, <<>>) :
            a \in Bundles, b \in Bundles, ls \in {HTTP, HTTPS}}

Orphans == {Route(X, <<>>, <<Weighted, Two>>, <<Only(First, {"redirect"}), Only(Third, {"redirect", "retry"})>>)}

\* Ports, headers and names as the parsers leave them.
Shapes ==
  {Route(X, Parent, <<Header, Weighted, TwoPorts>>, <<a, b, EmptyMap>>) :
     a \in {EmptyMap, Fourth, NoHost}, b \in {EmptyMap, Second}}
    \union {Route(X, Parent, <<Unnamed, TwoPorts>>, <<EmptyMap, Only(First, {"cors"})>>)}

\* Two routes and a GRPCRoute, with features of their own.
Several ==
  {Route(X, Parent, <<Weighted, Two>>, <<a, b>>) @@ Route(T, Parent, <<Two>>, <<b>>)
     @@ Route(GRPC, Parent, <<Two, Weighted>>, <<Only(a, {"backendTLS"}), Only(b, {"backendTLS"})>>) :
     a \in {Only(First, {"cors", "backendTLS"}), Only(First, {"backendTLS"})},
     b \in {Only(First, {"backendTLS", "retry"}), Only(Second, {"backendTLS", "cors"}), EmptyMap}}

MTLS ==
  {Gateway(Both, <<a, b>>) : a \in {EmptyMap, Secret("k", "n"), Secret("k", "o")},
                             b \in {EmptyMap, Secret("k", "o"), Secret("l", "o")}}

\* What makes the emitter panic: an index that is no rule's, an IR without a
\* source, a size that is no quantity and a backend without a port.
WithoutSources(route) == [key \in DOMAIN route |->
  [route[key] EXCEPT !.features = [at \in DOMAIN @ |-> [@[at] EXCEPT !.source = <<>>]]]]

Panicking ==
  {Route(X, Parent, <<Weighted>>, <<EmptyMap, Only(First, {f})>>) :
     f \in {"regex", "rewrite", "redirect", "backendTLS", "cors"}}
    \union {Route(X, Parent, <<Weighted>>, <<EmptyMap, Only(Second, {f})>>) : f \in {"rewrite", "redirect"}}
    \union {WithoutSources(Route(X, Parent, <<Weighted>>, <<Only(b, {f})>>)) :
              b \in {First, Second, Third}, f \in Features}
    \union {WithoutSources(Gateway(Both, <<Secret("k", "o")>>)),
            Route(X, Parent, <<Weighted>>, <<[proxyBuffer |-> [limitValue |-> "1g"]]>>),
            Route(X, Parent, <<Resource0>>, <<Only(First, {"backendTLS"})>>)}

\* An IR that a route and a GRPCRoute have both.
OneIR(route) == [key \in DOMAIN route |->
  [route[key] EXCEPT !.features = [at \in DOMAIN @ |-> [@[at] EXCEPT !.id = at]]]]
Shared ==
  OneIR(Route(X, Parent, <<Two>>, <<Only(First, {"cors", "backendTLS"})>>)
          @@ Route(GRPC, Parent, <<Two>>, <<Only(First, {"backendTLS"})>>))

MCEmitterIRs == Pairs \union Orphans \union Shapes \union Several \union MTLS \union Panicking \union {Shared}

(***************************************************************************)
(* Disagreements                                                           *)
(***************************************************************************)
MCRegexIRs ==
  {Route(X, Parent, <<Weighted, Two>>,
         <<Only(First, {"regex", "rewrite"}),
           [regex |-> [pathPattern |-> <<"/", "t">>], rewrite |-> [target |-> <<"/">>]]>>)}

MCCollidingIRs ==
  {Route(X, Parent, <<TwoPorts>>, <<Only(First, {"backendTLS"})>>),
   Route(X, Parent, <<Two>>, <<Only(First, {"backendTLS"})>>)
     @@ Route(G, Parent, <<TwoPorts, Two>>, <<EmptyMap, Only(Second, {"backendTLS"})>>)}

\* The routes of two hosts such as app and app-1.
XDash1 == [X EXCEPT !.name = <<"x", "-", "1">>]
MCNamesakeIRs ==
  {Route(X, Parent, <<Weighted, Two>>, <<EmptyMap, Only(First, {"cors"})>>)
     @@ Route(XDash1, Parent, <<Two>>, <<Only(Second, {"cors"})>>)}
==============================================================================
