----------------------------- MODULE Annotations -----------------------------
(***************************************************************************)
(* What a feature parser of providers/ingressnginx writes for one source   *)
(* of one rule.  An update is the set of fields the parser assigns in the  *)
(* IR of the feature, created if need be, and the annotations it names     *)
(* with SetSource; no annotations means that SetSource is not called.      *)
(*                                                                         *)
(* a is the annotations of the Ingress, without their common prefix        *)
(* "nginx.ingress.kubernetes.io/", and p is the place of the source.       *)
(***************************************************************************)
EXTENDS ProviderIR

CONSTANT Numerals   \* [token -> number], for the tokens strconv reads as numbers

ASSUME NumeralsAssumption == \A token \in DOMAIN Numerals : Numerals[token] \in Nat

\* An annotation that is missing and one that is empty look the same to a
\* parser, except where it asks for presence: Has.
Has(a, name) == name \in DOMAIN a
Get(a, name) == IF Has(a, name) THEN a[name] ELSE <<>>

True  == <<"true">>
False == <<"false">>
On    == <<"on">>

IsNegative(val) == Len(val) = 2 /\ val[1] = "-"
IsNumber(val) ==
  val # <<>> /\ val[Len(val)] \in DOMAIN Numerals /\ (Len(val) = 1 \/ IsNegative(val))
Number(val) ==
  IF IsNegative(val) THEN -Numerals[val[2]] ELSE Numerals[val[1]]
IsNatural(val) == IsNumber(val) /\ Number(val) >= 0

\* A secret is written "<namespace>/<name>"; the parsers split it at "/" and
\* take the second part.
IsQualified(val) == "/" \in ToSet(val)
SecretName(val) ==
  SubSeq(val, SelectInSeq(val, LAMBDA t : t = "/") + 1, Len(val))

NoUpdate == Nothing
Update(fields, keys) == [fields |-> fields, keys |-> keys]

\* The fields of f if the condition holds, in front of those of a @@ b @@ ...
When(condition, f) == IF condition THEN f ELSE EmptyMap

(***************************************************************************)
(* The parsers of one annotation that is copied as it is                   *)
(***************************************************************************)
Copied(a, name, field) ==
  IF Get(a, name) = <<>> THEN NoUpdate ELSE Update(field :> Get(a, name), {name})

RewriteUpdate(a) == Copied(a, "rewrite-target", "target")
BufferUpdate(a)  == Copied(a, "proxy-body-size", "limitValue")
TimeoutUpdate(a) == Copied(a, "proxy-connect-timeout", "duration")

(***************************************************************************)
(* The others                                                              *)
(***************************************************************************)
\* A default backend has no path to take the pattern from.
RegexUpdate(a, p) ==
  IF Get(a, "use-regex") # True THEN NoUpdate
  ELSE Update(When(p.rule # 0, "pathPattern" :> PathOf(p).value), {"use-regex"})

\* Four annotations in this order, each assigning its fields and the source; a
\* redirect to the empty URL is kept.
RedirectUpdate(a) ==
  LET asked == SelectSeq(
        <<"ssl-redirect", "force-ssl-redirect", "permanent-redirect", "temporal-redirect">>,
        LAMBDA name : IF name \in {"permanent-redirect", "temporal-redirect"}
                      THEN Has(a, name) ELSE Get(a, name) = True)
      ssl   == SelectSeq(asked, LAMBDA name : name \in {"ssl-redirect", "force-ssl-redirect"})
      urls  == SelectSeq(asked, LAMBDA name : name \notin ToSet(ssl))
  IN  IF asked = <<>> THEN NoUpdate
      ELSE Update(When(ssl # <<>>, "force" :> (Last(ssl) = "force-ssl-redirect"))
                    @@ When(urls # <<>>,
                            [url        |-> Get(a, Last(urls)),
                             statusCode |-> IF Last(urls) = "permanent-redirect" THEN 301 ELSE 302]),
                  {Last(asked)})

BasicAuthUpdate(a, ing) ==
  IF Get(a, "auth-type") = <<>> THEN NoUpdate
  ELSE Update([name |-> Get(a, "auth-secret"), namespace |-> ing.ns],
              {"auth-type", "auth-secret"})

ExternalAuthUpdate(a) ==
  IF Get(a, "auth-url") = <<>> THEN NoUpdate
  ELSE Update(("url" :> Get(a, "auth-url"))
                @@ When(Get(a, "auth-response-headers") # <<>>,
                        "allowedResponseHeaders" :> Get(a, "auth-response-headers")),
              {"auth-url", "auth-response-headers"})

MTLSUpdate(a) ==
  Update([name |-> SecretName(Get(a, "auth-tls-secret")), namespace |-> Head(Get(a, "auth-tls-secret"))],
         {"auth-tls-secret"})

IpRangeUpdate(a) ==
  LET allow == Get(a, "whitelist-source-range")
      deny  == Get(a, "denylist-source-range")
  IN  IF allow = <<>> /\ deny = <<>> THEN NoUpdate
      ELSE Update(When(allow # <<>>, "allowList" :> allow) @@ When(deny # <<>>, "denyList" :> deny),
                  {IF deny # <<>> THEN "denylist-source-range" ELSE "whitelist-source-range"})

\* A limit per minute that is there hides one per second, even if it is invalid.
RateLimitUpdate(a) ==
  LET name == IF Get(a, "limit-rpm") # <<>> THEN "limit-rpm" ELSE "limit-rps"
  IN  IF ~IsNatural(Get(a, name)) THEN NoUpdate
      ELSE Update([limitValue |-> Number(Get(a, name)),
                   unit |-> IF name = "limit-rpm" THEN "minute" ELSE "second"],
                  {name})

CorsUpdate(a) ==
  LET lists == {"cors-allow-origin", "cors-allow-methods", "cors-allow-headers",
                "cors-expose-headers", "cors-max-age", "cors-allow-credentials"}
      given == {name \in lists : Get(a, name) # <<>>}
  IN  IF Get(a, "enable-cors") # True THEN NoUpdate
      ELSE Update([name \in given |->
                     IF name = "cors-allow-credentials"
                     THEN IF a[name] = True THEN True ELSE False
                     ELSE a[name]],
                  given \union {"enable-cors"})

\* proxy-ssl-verify is read by strconv.ParseBool, which refuses "on" and "off".
BackendTLSUpdate(a) ==
  LET secret == Get(a, "proxy-ssl-secret")
      verify == Get(a, "proxy-ssl-verify")
      named  == Get(a, "proxy-ssl-server-name") = On /\ Get(a, "proxy-ssl-name") # <<>>
      parsed == verify \in {True, False}
  IN  IF secret = <<>> THEN NoUpdate
      ELSE Update(("certificateRef" :> SecretName(secret))
                    @@ When(parsed, "insecureSkipVerify" :> (verify = False))
                    @@ When(named, "sni" :> Get(a, "proxy-ssl-name")),
                  {"proxy-ssl-secret"}
                    \union {name \in {"proxy-ssl-verify"} : parsed}
                    \union {name \in {"proxy-ssl-name", "proxy-ssl-server-name"} : named})

\* When the number of tries does not parse, the IR has been created and its
\* triggers assigned, but the parser moves on before SetSource.
RetryUpdate(a) ==
  LET triggers == Get(a, "proxy-next-upstream")
      tries    == Get(a, "proxy-next-upstream-tries")
  IN  IF triggers = <<>> THEN NoUpdate
      ELSE IF tries = <<>> THEN Update("triggers" :> triggers, {"proxy-next-upstream"})
      ELSE IF ~IsNumber(tries) THEN Update("triggers" :> triggers, {})
      ELSE Update([triggers |-> triggers, count |-> Number(tries)],
                  {"proxy-next-upstream", "proxy-next-upstream-tries"})

AffinityUpdate(a) ==
  LET ttl   == SelectSeq(<<"session-cookie-expires", "session-cookie-max-age">>,
                         LAMBDA name : Get(a, name) # <<>>)
      named == {name \in {"session-cookie-name", "session-cookie-samesite"} : Get(a, name) # <<>>}
  IN  IF Get(a, "affinity") # <<"cookie">> THEN NoUpdate
      ELSE Update([name \in named |-> a[name]]
                    @@ ("session-cookie-name" :> <<"INGRESSCOOKIE">>)
                    @@ When(ttl # <<>>, "cookieTTLSeconds" :> Get(a, Head(ttl))),
                  {"affinity"} \union named \union {name \in ToSet(ttl) : name = Head(ttl)})

(***************************************************************************)
(* headerFeature writes filters, not a feature IR                          *)
(***************************************************************************)
OneHeaderFilter(a) ==
  LET name == IF Get(a, "upstream-vhost") # <<>> THEN "upstream-vhost" ELSE "x-forwarded-prefix"
  IN  IF Get(a, name) = <<>> THEN <<>> ELSE <<[type |-> name, value |-> a[name]]>>
HeaderFilters(a) ==
  LET filter(name) == IF Get(a, name) = <<>> THEN <<>> ELSE <<[type |-> name, value |-> a[name]]>>
  IN  filter("x-forwarded-prefix") \o filter("upstream-vhost")

(***************************************************************************)
(* parseCanaryConfig                                                       *)
(***************************************************************************)
IsCanary(a) == Get(a, "canary") = True

CanaryConfig(a) ==
  LET weight == Get(a, "canary-weight")
      total  == Get(a, "canary-weight-total")
  IN  [weighted |-> weight # <<>>,
       weight   |-> IF IsNumber(weight) THEN Number(weight) ELSE 0,
       total    |-> IF IsNumber(total) THEN Number(total) ELSE 100,
       header   |-> Get(a, "canary-by-header"),
       value    |-> Get(a, "canary-by-header-value")]

NumericCanary(a) ==
  LET weight == Get(a, "canary-weight")
      total  == Get(a, "canary-weight-total")
  IN  /\ weight # <<>> => IsNumber(weight)
      /\ total # <<>> => IsNumber(total)
      /\ CanaryConfig(a).weight <= CanaryConfig(a).total
ValidCanary(a) ==
  LET weight == Get(a, "canary-weight")
      total  == Get(a, "canary-weight-total")
  IN  /\ weight # <<>> => IsNatural(weight)
      /\ total # <<>> => IsNatural(total) /\ Number(total) > 0
      /\ CanaryConfig(a).weight <= CanaryConfig(a).total
===============================================================================
