----------------------------- MODULE MCAggregator -----------------------------
(***************************************************************************)
(* Instances of Aggregator for TLC.  Up to three Ingresses are read: a and *)
(* a-b of namespace n, and one of namespace m that is also named a, which  *)
(* the unstable sort may put before or after its namesake.  The hosts make *)
(* route names run into each other: a + b.c, a-b + c and a-b + *.c are all *)
(* named a-b-c, and a + default-backend is named as a's default backend.   *)
(***************************************************************************)
EXTENDS AggregatorRefinement

MCAlphabet == <<"*", "-", ".", "/", "a", "all", "b", "backend", "c", "default",
                "hosts", "m", "n", "nginx", "x">>

Nginx == <<"nginx">>

Svc(name)        == [resource |-> FALSE, name |-> name, portName |-> NoName, port |-> 80]
Named(name, pn)  == [Svc(name) EXCEPT !.portName = pn, !.port = 0]
Bucket           == [resource |-> TRUE, name |-> "bucket", portName |-> NoName, port |-> 0]

MCServicePorts == (<<<<"n">>, "s", "web">> :> 8080) @@ (<<<<"m">>, "s", "web">> :> 9090)

P(type, value, backend) == [type |-> type, value |-> value, backend |-> backend]
R(host, paths)          == [host |-> host, http |-> TRUE, paths |-> paths]
NoHTTP(host)            == [host |-> host, http |-> FALSE, paths |-> <<>>]
T(secret, hosts)        == [secret |-> secret, hosts |-> hosts]

Ing(ns, name, rules, tls, default) ==
  [ns |-> ns, name |-> name, specClass |-> Nginx, annotationClass |-> <<>>,
   tls |-> tls, rules |-> rules, defaultBackend |-> default]

BC   == <<"b", ".", "c">>
C    == <<"c">>
Wild == <<"*", ".", "c">>
DB   == <<"default", "-", "backend">>

PlainRules ==
  {<<>>,
   <<R(BC, <<P("Prefix", "/", Svc("s"))>>)>>,
   <<R(BC, <<P("Exact", "/x", Named("s", "web")), P("Prefix", "/", Bucket)>>),
     R(BC, <<P("Prefix", "/", Svc("t"))>>)>>,
   <<R(C, <<P("Prefix", "/", Svc("s")), P("ImplementationSpecific", "/", Svc("t"))>>),
     R(Wild, <<P("Exact", "/x", Svc("t"))>>)>>,
   <<R(<<>>, <<P("Prefix", "/", Svc("t"))>>)>>}

\* Rules of the second Ingress that share hosts, paths or names with the first.
SharedRules ==
  {<<R(BC, <<P("Prefix", "/", Svc("s"))>>), R(<<>>, <<P("Prefix", "/", Svc("s"))>>)>>,
   <<R(C, <<P("Exact", "/x", Svc("s")), P("ImplementationSpecific", "/", Svc("t"))>>)>>,
   <<R(Wild, <<P("Prefix", "/", Svc("t"))>>)>>}

FaultyRules ==
  {<<R(BC, <<P("Prefix", "/", Named("s", "nosuch")), P("Prefix", "/", Svc("s"))>>)>>,
   <<R(C, <<P("nil", "/", Svc("s")), P("Exact", "/x", Svc("s"))>>)>>,
   <<R(C, <<P("other", "/x", Svc("s"))>>)>>,
   <<NoHTTP(BC)>>}

TLSLists == {<<>>, <<T("k1", <<BC>>)>>, <<T("k1", <<BC, C>>), T("k2", <<>>)>>}

First(rules, tls, default) ==
  {Ing(<<"n">>, <<"a">>, r, t, d) : r \in rules, t \in tls, d \in default}
Second(rules, tls, default) ==
  {Ing(<<"n">>, <<"a", "-", "b">>, r, t, d) : r \in rules, t \in tls, d \in default}
Namesake ==
  {Ing(<<"m">>, <<"a">>, <<R(BC, <<P("Prefix", "/", Named("s", "web"))>>)>>, t, <<Svc("s")>>) :
     t \in {<<>>, <<T("k3", <<BC>>)>>}}

NoneOr(S) == {{}} \union {{x} : x \in S}
Unions(A, B, D) == {a \union b \union d : a \in A, b \in B, d \in D}

\* Every Ingress converts; any subset of the three is read.
MCInputs ==
  Unions(NoneOr(First(PlainRules \union {<<R(DB, <<P("Prefix", "/", Svc("s"))>>)>>},
                      TLSLists, {<<>>, <<Svc("d")>>})),
         NoneOr(Second(SharedRules, {<<>>, <<T("k1", <<BC>>)>>}, {<<>>})),
         NoneOr(Namesake))

\* The first Ingress has something that does not convert, or its class is
\* given by the annotation.
MCFaultyInputs ==
  LET annotated(S, class) ==
        {[ing EXCEPT !.specClass = <<>>, !.annotationClass = class] : ing \in S}
      first == First(FaultyRules \union PlainRules, {<<>>},
                     {<<>>, <<Svc("d")>>, <<Named("d", "nosuch")>>})
  IN  Unions({{x} : x \in first \union annotated(first, <<"nginx", "/", "x">>)
                          \union annotated(first, <<>>)},
             NoneOr(Second(SharedRules, {<<T("k1", <<BC>>)>>}, {<<>>})),
             NoneOr(Namesake))

MCAllInputs == MCInputs \union MCFaultyInputs
===============================================================================
