---------------------------- MODULE MCConversions ----------------------------
(***************************************************************************)
(* Instances of Conversions for TLC: the Ingresses of MCFeatures, with     *)
(* annotations that make TLSRoutes and GRPCRoutes of their routes.         *)
(***************************************************************************)
EXTENDS Conversions, MCIngresses

\* A Gateway with two hosts and one without; two Ingresses that each have a
\* host of the same Gateway.
TwoHosts == [A EXCEPT !.rules = SlashAndX \o <<R(BC, <<P("Prefix", "/", "t")>>)>>]

\* Two groups share a route, with two rules of which the first has two sources.
Overlapping ==
  {[A EXCEPT !.rules = <<R(<<"b", "-", "c">>, <<P("Prefix", "/", "s")>>),
                         R(BC, <<P("Prefix", "/", "s"), P("Exact", "/x", "s")>>)>>],
   [B EXCEPT !.rules = <<R(BC, <<P("Prefix", "/", "t")>>)>>]}

MCConversionInputs ==
  {{A, B}, {TwoHosts, B}, {TwoHosts, [NoHost EXCEPT !.name = <<"b">>]}, Overlapping, {NoClass}, {Shadowed}}

GRPC == "backend-protocol" :> <<"GRPC">>
Passthrough == "ssl-passthrough" :> True

MCConversionSets(S) ==
  {EmptyMap, Passthrough, GRPC, Passthrough @@ GRPC,
   ("backend-protocol" :> <<"HTTPS">>) @@ Both,
   GRPC @@ Both @@ Canary(<<"30">>),
   ("app-root" :> <<"a">>)}

\* The least that shows where features end up behind a split and behind a
\* listener that is replaced.
MCSplitInputs == {{XFirst, B}}
MCSplitSets(S) == {EmptyMap, GRPC, "rewrite-target" :> <<"a">>}
OtherHost == [B EXCEPT !.rules = <<R(BC, <<P("Prefix", "/", "t")>>)>>, !.tls = TLS]
MCMTLSInputs == {{A, OtherHost}}
MCMTLSSets(S) == {Passthrough, "auth-tls-secret" :> Secret}
=============================================================================
