-------------------------- MODULE ConversionOutcome --------------------------
(***************************************************************************)
(* What common.ToIR comes to, as a function of the set of Ingresses that   *)
(* were read.                                                              *)
(***************************************************************************)
EXTENDS ProviderIR

Result(status, routes, gws) == [status |-> status, routes |-> routes, gateways |-> gws]

NoResult == Result("pending", EmptyMap, EmptyMap)

Outcome(S) ==
  IF Panics(S) THEN Result("panicked", EmptyMap, EmptyMap)
  ELSE IF Fails(S) THEN Result("failed", EmptyMap, EmptyMap)
  ELSE Result("done", Routes(S), Gateways(S))
===============================================================================
