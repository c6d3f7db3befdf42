------------------------- MODULE AggregatorRefinement -------------------------
(***************************************************************************)
(* The loops of Aggregator implement the one step of ConversionContract.   *)
(* The refinement mapping follows the pointers of the IR to the Ingresses  *)
(* and forgets how often and in which order a listener names a secret.     *)
(***************************************************************************)
EXTENDS Aggregator, ConversionOutcome

AbstractPlace(p) == [ing |-> ingressList[p.ingress], rule |-> p.rule, path |-> p.path]

AbstractRoute(rt) ==
  [name |-> rt.name, ns |-> rt.ns, class |-> rt.class, host |-> rt.host,
   rules |-> [x \in DOMAIN rt.rules |->
     [match   |-> rt.rules[x].match,
      sources |-> [y \in DOMAIN rt.sources[x] |-> AbstractPlace(rt.sources[x][y])]]]]

AbstractListener(l) == [l EXCEPT !.certs = ToSet(@)]

AbstractOutcome ==
  IF phase = "done"
  THEN Result(phase,
              [key \in DOMAIN routeByKey |-> AbstractRoute(routeByKey[key])],
              [g \in DOMAIN gateways |->
                 [n \in DOMAIN gateways[g] |-> AbstractListener(gateways[g][n])]])
  ELSE Result(IF Ended THEN phase ELSE "pending", EmptyMap, EmptyMap)

Contract == INSTANCE ConversionContract WITH outcome <- AbstractOutcome

\* ToIR's outcome is the function of the set of Ingresses that the contract
\* defines, for every order of map iteration and every result of the unstable
\* sort by name, and it is reached in one visible step.
ImplementsContract == Contract!Spec
===============================================================================
