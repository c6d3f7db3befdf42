------------------------------ MODULE MCFeatures ------------------------------
(***************************************************************************)
(* Instances of Features for TLC.  Two or three Ingresses share a host;    *)
(* sets of annotations are chosen so that every way through every parser   *)
(* is taken, by each of two sources of one rule.                           *)
(***************************************************************************)
EXTENDS Features, MCIngresses

MCFeatureInputs == {{A, B}, {Exact, B}, {NoTLS}, {NoClass}, {NoHost}, {Colliding}, {Shadowed}}

(***************************************************************************)
(* Annotations                                                             *)
(***************************************************************************)
\* One value of everything that is copied, and another one with the other
\* optional fields.
Every ==
  Set({"use-regex", "enable-cors", "ssl-redirect"}, True)
    @@ Set({"rewrite-target", "auth-url", "whitelist-source-range", "limit-rps", "proxy-body-size",
            "x-forwarded-prefix", "cors-allow-origin", "cors-max-age", "proxy-connect-timeout",
            "proxy-next-upstream"}, T("5"))
    @@ ("proxy-ssl-secret" :> Secret) @@ ("affinity" :> T("cookie"))

Other ==
  Set({"use-regex", "enable-cors", "proxy-ssl-verify", "cors-allow-credentials"}, True)
    @@ Set({"rewrite-target", "auth-url", "auth-response-headers", "denylist-source-range", "limit-rpm",
            "proxy-body-size", "upstream-vhost", "cors-allow-methods", "proxy-connect-timeout",
            "permanent-redirect", "proxy-next-upstream", "proxy-next-upstream-tries",
            "session-cookie-name", "session-cookie-max-age"}, T("30"))
    @@ ("proxy-ssl-secret" :> Secret) @@ ("proxy-ssl-server-name" :> On)
    @@ ("proxy-ssl-name" :> T("c")) @@ ("affinity" :> T("cookie"))

\* Values that do not parse, or that turn a feature off.
Rejected ==
  Set({"limit-rpm", "proxy-next-upstream", "proxy-next-upstream-tries", "proxy-ssl-verify",
       "enable-cors", "use-regex", "affinity", "temporal-redirect"}, T("x"))
    @@ ("limit-rps" :> T("5")) @@ ("proxy-ssl-secret" :> Secret)

AuthSets ==
  {("auth-type" :> T("digest")) @@ ("auth-url" :> T("5")),
   ("auth-type" :> T("basic")) @@ ("auth-url" :> T("5")),
   ("auth-type" :> T("basic")) @@ ("auth-secret" :> T("k")) @@ ("auth-url" :> T("5")),
   ("auth-tls-secret" :> Secret) @@ ("auth-url" :> T("5")),
   "auth-tls-secret" :> T("k"),
   "proxy-ssl-secret" :> T("k")}

RedirectSets ==
  {("app-root" :> T("a")) @@ ("force-ssl-redirect" :> True) @@ ("temporal-redirect" :> <<>>),
   "app-root" :> T("b")}

MCFeatureSets ==
  {EmptyMap, Both, Every, Other, Canary(<<"-", "5">>), Every @@ Canary(T("30")), Other @@ Canary(T("0")), Rejected @@ Canary(T("30"))}
    \union AuthSets \union RedirectSets \union {r @@ Canary(T("5")) : r \in RedirectSets}

(***************************************************************************)
(* Canaries that a header selects                                          *)
(***************************************************************************)
ByHeader == ("canary" :> True) @@ ("canary-by-header" :> T("a"))

\* Three Ingresses with one rule in common, and a route that two groups share,
\* whose first rule has two sources.
ThirdOfA  == [B EXCEPT !.name = <<"c">>]
Collision == [A EXCEPT !.rules = <<R(BC, <<P("Prefix", "/", "s")>>),
                                   R(<<"b", "-", "c">>, <<P("Prefix", "/", "t")>>)>>]
CanaryOf(ing) == [ing EXCEPT !.name = <<"b">>]

MCCanaryInputs == {{A, ThirdOfA}, {A, CanaryOf(A)}, {A, B, ThirdOfA}, {Collision, CanaryOf(Collision)}}

MCCanarySets ==
  {EmptyMap, ByHeader, ByHeader @@ ("canary-by-header-value" :> T("b")),
   ByHeader @@ Canary(T("30")), Canary(T("100")) @@ ("canary-weight-total" :> T("30")),
   Canary(T("30")) @@ ("canary-weight-total" :> T("100")), Canary(T("0")),
   Canary(<<"-", "5">>), Canary(T("x"))}

\* Header filters in a route that gets one or two rules for headers, or more.
MCFilterInputs == {{XFirst, B}, {XFirst, CanaryOf(XFirst)}, {XFirst, B, [B EXCEPT !.name = <<"c">>]}}

MCFilterSets ==
  {Both, ByHeader, ByHeader @@ Both, ByHeader @@ ("canary-by-header-value" :> T("b")) @@ Both,
   Canary(T("30")) @@ Set({"upstream-vhost"}, T("a")), Both @@ ("app-root" :> T("a"))}

MCInputs == MCFeatureInputs \union MCCanaryInputs \union MCFilterInputs
MCAnnotationSets(S) ==
  IF S \in MCCanaryInputs THEN MCCanarySets
  ELSE IF S \in MCFilterInputs THEN MCFilterSets
  ELSE MCFeatureSets

\* The least that shows where a feature ends up behind a header rule.
MCHeaderInputs == {{A, B}, {XFirst, B}}
MCHeaderSets(S) == {EmptyMap, ByHeader @@ ("canary-by-header-value" :> T("b")) @@ ("rewrite-target" :> T("a"))}
===============================================================================
