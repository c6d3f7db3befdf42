------------------------------- MODULE MCDriver -------------------------------
(***************************************************************************)
(* Instances of Driver for TLC: files and clusters with up to three        *)
(* Ingresses and a Service in namespaces m and p, and command lines.       *)
(***************************************************************************)
EXTENDS DriverRefinement, MCProgram

MCAlphabet == <<"*", "-", ".", "/", "all", "backend", "c", "default", "hosts", "m", "nginx", "other",
                "p", "x", "y">>

M == <<"m">>
P == <<"p">>
X == <<"x">>
Y == <<"y">>
Nginx == <<"nginx">>

(***************************************************************************)
(* Objects                                                                 *)
(***************************************************************************)
Backend(port) == [resource |-> FALSE, name |-> "s", portName |-> port, port |-> IF port = "" THEN 80 ELSE 0]
Rule(port)    == [host |-> <<"c">>, http |-> TRUE,
                  paths |-> <<[type |-> "Prefix", value |-> "/", backend |-> Backend(port)]>>]

Ing(ns, name, asks) ==
  [kind |-> "Ingress", ns |-> ns, name |-> name, valid |-> TRUE, asks |-> asks,
   spec |-> [ns |-> ns, name |-> name, specClass |-> Nginx, annotationClass |-> <<>>,
             tls |-> <<>>, rules |-> <<Rule("")>>, defaultBackend |-> <<>>]]

OfOtherClass(obj) == [obj EXCEPT !.spec.specClass = <<"other">>]
PortByName(obj)   == [obj EXCEPT !.spec.rules = <<Rule("web")>>]
NoHTTP(obj)       == [obj EXCEPT !.spec.rules[1].http = FALSE]
DefaultOnly(obj)  == [obj EXCEPT !.spec.rules = <<>>, !.spec.defaultBackend = <<Backend("")>>]
Invalid(obj)      == [obj EXCEPT !.valid = FALSE]

Svc == [kind |-> "Service", ns |-> M, name |-> "s", valid |-> TRUE,
        ports |-> <<[name |-> "web", number |-> 80], [name |-> "web", number |-> 90]>>]

Secret    == [kind |-> "other", ns |-> M, name |-> X]
Null      == [kind |-> "null", ns |-> <<>>]
Malformed == [kind |-> "malformed", ns |-> <<>>]
List(valid, objects) == [kind |-> "List", ns |-> <<>>, valid |-> valid, items |-> objects]

Docs(documents) == [readable |-> TRUE, docs |-> documents]
Unreadable      == [readable |-> FALSE, docs |-> <<>>]

(***************************************************************************)
(* Files and clusters                                                      *)
(***************************************************************************)
\* The two Ingresses have one host and path: the second is a canary, or fails
\* the command though neither is.
Shared == <<Ing(M, X, {"cors", "external-auth"}), Ing(M, Y, {"canary", "external-auth", "rate-limit"})>>
Rivals == <<Ing(M, X, {"cors"}), Ing(M, Y, {})>>

MCFileVersions ==
  {Unreadable, Docs(<<>>),
   Docs(<<Svc, Null, Shared[1], Shared[2]>>),
   Docs(<<Rivals[1], Svc, Rivals[2]>>),
   Docs(<<Svc, PortByName(Ing(M, X, {"rate-limit"})), Ing(P, X, {"cors"}), OfOtherClass(Ing(M, Y, {"cors"}))>>),
   Docs(<<Secret, Ing(M, X, {"external-auth"}), Ing(M, X, {"cors"}), Malformed>>),
   Docs(<<Ing(M, X, {"grpc"}), DefaultOnly(Ing(P, Y, {"cors"})), Ing(M, X, {"ssl-passthrough", "cors"})>>),
   Docs(<<List(TRUE, <<Ing(M, X, {"retry"}), Svc>>), Ing(P, Y, {"bad-canary", "retry"})>>),
   Docs(<<List(FALSE, <<>>), Ing(M, X, {"canary", "cors"})>>),
   Docs(<<Invalid(OfOtherClass(Ing(P, X, {}))), NoHTTP(Ing(M, X, {}))>>),
   Docs(<<Invalid(Svc), Ing(P, X, {"external-auth"}), Ing(M, X, {"grpc", "external-auth"})>>)}

MCClusterVersions ==
  {Unreadable,
   Docs(<<Shared[1], Shared[2], Ing(P, X, {"canary"})>>),
   Docs(<<Ing(M, X, {"external-auth"}), Ing(P, Y, {"external-auth", "grpc"})>>),
   Docs(<<PortByName(Ing(M, X, {"cors"})), Secret, Svc, NoHTTP(Ing(P, X, {"cors"}))>>)}

(***************************************************************************)
(* Command lines                                                           *)
(***************************************************************************)
Default ==
  [output |-> "yaml", file |-> TRUE, namespace |-> <<>>, allNamespaces |-> FALSE, context |-> <<M>>,
   kubeconfig |-> TRUE, providers |-> <<Provider>>, emitter |-> "envoy-gateway", ingressClass |-> Nginx]

Cluster == [Default EXCEPT !.file = FALSE]

MCConfigs ==
  {Default,
   [Default EXCEPT !.namespace = M, !.kubeconfig = FALSE],
   [Default EXCEPT !.allNamespaces = TRUE, !.emitter = "standard"],
   [Default EXCEPT !.ingressClass = <<"other">>, !.providers = <<Provider, Provider>>],
   [Default EXCEPT !.emitter = "other"],
   [Default EXCEPT !.providers = <<>>, !.output = "json"],
   [Default EXCEPT !.providers = <<>>, !.emitter = "other"],
   [Default EXCEPT !.providers = <<Provider, "other">>],
   [Default EXCEPT !.namespace = M, !.allNamespaces = TRUE],
   [Default EXCEPT !.output = "xml"],
   Cluster,
   [Cluster EXCEPT !.namespace = P],
   [Cluster EXCEPT !.allNamespaces = TRUE, !.context = <<>>],
   [Cluster EXCEPT !.context = <<>>],
   [Cluster EXCEPT !.kubeconfig = FALSE]}
===============================================================================
