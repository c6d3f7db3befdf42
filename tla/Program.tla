------------------------------- MODULE Program -------------------------------
(***************************************************************************)
(* What the stages of print hand to each other.  The driver does not look  *)
(* into the conversion of a provider or the emission of an emitter: what   *)
(* they compute is in modules Aggregator, Features, Conversions and        *)
(* EnvoyEmitter.  Here each is a parameter, with all the results that it   *)
(* can come to, for Go's maps are visited in any order:                    *)
(*                                                                         *)
(*   Conversions(ings, ports)   ToIR, with the stored Ingresses and ports  *)
(*   Emissions(emitter, ir)     Emit of that emitter on an IR              *)
(*                                                                         *)
(* Either panics, or it returns an IR (the emitter marks the features that *)
(* it has converted), errors and, from an emitter, resources by kind;      *)
(* notes are the notifications it has dispatched.                          *)
(*                                                                         *)
(* The driver looks at ir.http, the features of each HTTPRoute:            *)
(* [kind, rule, source, parsed], where source is empty if nil.             *)
(***************************************************************************)
EXTENDS Manifests

CONSTANTS
  Conversions(_, _),
  Emissions(_, _)

Provider == "ingress-nginx"
Emitters == {"envoy-gateway", "standard"}

EmptyIR == [http |-> EmptyMap]

\* The kinds of resources, in the order they are printed in.
PrintOrder ==
  <<"GatewayClass", "Gateway", "HTTPRoute", "GRPCRoute", "TLSRoute", "TCPRoute", "UDPRoute",
    "BackendTLSPolicy", "ReferenceGrant", "GatewayExtension">>

NoResources == [kind \in ToSet(PrintOrder) |-> {}]

\* A feature that the emitter has not converted is warned about, with the name
\* of its source.  One with an error would be too, but nothing sets an error.
Warning(f, key) == [type |-> "WARNING", kind |-> f.kind, route |-> key, source |-> f.source]
===============================================================================
