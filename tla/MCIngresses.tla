----------------------------- MODULE MCIngresses -----------------------------
(***************************************************************************)
(* The Ingresses and annotations that the instances of Features and        *)
(* Conversions are made of.                                                *)
(***************************************************************************)
EXTENDS Annotations

MCAlphabet == <<"*", "-", ".", "/", "a", "b", "c", "default", "backend", "n", "nginx", "tls">>

MCNoPorts == [x \in {} |-> 0]

MCNumerals == [token \in {"0", "5", "30", "100"} |->
                 CASE token = "0" -> 0 [] token = "5" -> 5 [] token = "30" -> 30 [] token = "100" -> 100]

Svc(name) == [resource |-> FALSE, name |-> name, portName |-> NoName, port |-> 80]
P(type, value, name) == [type |-> type, value |-> value, backend |-> Svc(name)]
R(host, paths) == [host |-> host, http |-> TRUE, paths |-> paths]

C    == <<"c">>
BC   == <<"b", ".", "c">>
Wild == <<"*", ".", "c">>

Ing(name, class, tls, rules, default) ==
  [ns |-> <<"n">>, name |-> name, specClass |-> class, annotationClass |-> <<>>,
   tls |-> tls, rules |-> rules, defaultBackend |-> default]

Nginx == <<"nginx">>
TLS   == <<[secret |-> "k", hosts |-> <<C>>]>>
SlashAndX == <<R(C, <<P("Prefix", "/", "s"), P("Exact", "/x", "s")>>)>>

\* Ingress a has two paths of host c, and b shares one of them.
A == Ing(<<"a">>, Nginx, TLS, SlashAndX, <<>>)
B == Ing(<<"b">>, Nginx, <<>>, <<R(C, <<P("Prefix", "/", "t")>>)>>, <<>>)

\* Its paths can be the other way round, one can be the one that app-root looks for, its host can have no TLS,
\* and it can have no class, hence no Gateway, or no host.
Exact   == [A EXCEPT !.rules = <<R(C, <<P("Prefix", "/x", "s"), P("Exact", "/", "s")>>)>>]
XFirst  == [A EXCEPT !.rules = <<R(C, <<P("Exact", "/x", "s"), P("Prefix", "/", "s")>>)>>]
NoTLS   == [A EXCEPT !.tls = <<>>]
NoClass == [A EXCEPT !.specClass = <<>>]
NoHost  == [A EXCEPT !.rules = <<R(<<>>, <<P("Prefix", "/", "s")>>)>>]

\* Two hosts whose routes have the same name, and a host whose route has the
\* name of the default backend's.
Colliding == [A EXCEPT !.rules = <<R(BC, <<P("Prefix", "/", "s")>>),
                                   R(<<"b", "-", "c">>, <<P("Prefix", "/", "t"), P("Exact", "/x", "t")>>)>>]
Shadowed  == [A EXCEPT !.rules = <<R(<<"default", ".", "backend">>, <<P("Prefix", "/", "s")>>)>>,
                       !.defaultBackend = <<Svc("d")>>]

(***************************************************************************)
(* Annotations                                                             *)
(***************************************************************************)
T(token)  == <<token>>
Secret    == <<"n", "/", "k">>
Set(names, val) == [name \in names |-> val]

Both == Set({"x-forwarded-prefix", "upstream-vhost"}, T("a"))
Canary(w) == ("canary" :> True) @@ ("canary-weight" :> w)
==============================================================================
