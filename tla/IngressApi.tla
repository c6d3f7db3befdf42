------------------------------ MODULE IngressApi ------------------------------
(***************************************************************************)
(* The data that the conversion reads, and the functions of                *)
(* providers/common that look at one Ingress, one path, one backend or one *)
(* rule group at a time.                                                   *)
(***************************************************************************)
EXTENDS Names, Maps, FiniteSets

CONSTANTS
  Inputs,          \* the sets of Ingresses a run may have read
  ServicePorts,    \* number of port p of service s in namespace ns: <<ns, s, p>>
  ImplSpecificOK   \* the provider converts ImplementationSpecific path types

PathTypes == {"Prefix", "Exact", "ImplementationSpecific", "nil", "other"}

NoPort == 0
NoName == ""

\* A backend is a service with a numbered port (portName = NoName), a service
\* with a named port, or a resource that is not a service.
Backend == [resource : BOOLEAN, name : STRING, portName : STRING, port : Nat]

\* defaultBackend is a sequence of length 0 or 1: the optional spec.defaultBackend.
Ingress ==
  [ns : String, name : String, specClass : String, annotationClass : String,
   tls   : Seq([hosts : Seq(String), secret : STRING]),
   rules : Seq([host : String, http : BOOLEAN,
                paths : Seq([type : PathTypes, value : STRING,
                             backend : Backend])]),
   defaultBackend : Seq(Backend)]

ASSUME InputsAssumption ==
  \A input \in Inputs :
    /\ IsFiniteSet(input)
    /\ input \subseteq Ingress
    /\ \A a, b \in input : (a.ns = b.ns /\ a.name = b.name) => a = b

ASSUME ServicePortsAssumption ==
  \A svc \in DOMAIN ServicePorts : ServicePorts[svc] \in Nat \ {0}

ASSUME ImplSpecificAssumption == ImplSpecificOK \in BOOLEAN

(***************************************************************************)
(* Helpers                                                                 *)
(***************************************************************************)
\* Spec.IngressClassName if it is set and not empty, else the annotation.
GetIngressClass(ing) ==
  IF ing.specClass # <<>> THEN ing.specClass ELSE ing.annotationClass

GroupKey(ing, host) ==
  [ns |-> ing.ns, class |-> GetIngressClass(ing), host |-> host]

UnsortedLists(S) ==
  {s \in [1..Cardinality(S) -> S] : \A m, n \in DOMAIN s : m < n => s[m] # s[n]}

\* The orders FromMap can leave the Ingresses in: sorted by name only.
SortedLists(S) ==
  {s \in [1..Cardinality(S) -> S] :
     \A m, n \in DOMAIN s : m < n => (s[m] # s[n] /\ ~Precedes(s[n].name, s[m].name))}

NamedPort(ns, b) == <<ns, b.name, b.portName>>

\* ToBackendRef fails on a named port that the service does not have.
ResolvesWith(ports, ns, b) ==
  b.resource \/ b.portName = NoName \/ NamedPort(ns, b) \in DOMAIN ports
Resolves(ns, b) == ResolvesWith(ServicePorts, ns, b)

ToBackendRef(ns, b) ==
  [name |-> b.name,
   port |-> IF b.resource THEN NoPort
            ELSE IF b.portName = NoName THEN b.port
            ELSE ServicePorts[NamedPort(ns, b)]]

PathMatchKeyWithoutType(path) == [type |-> "Prefix", value |-> path.value]
PathMatchKey(path) == [type |-> path.type, value |-> path.value]

ToHTTPRouteMatchVerbatim(key) == [type |-> key.type, value |-> key.value]

\* toHTTPRouteMatch; the match types of the Gateway API are Prefix and Exact.
ToHTTPRouteMatch(key) ==
  [type  |-> IF key.type = "Exact" THEN "Exact" ELSE "Prefix",
   value |-> key.value]

MatchFails(key) ==
  \/ key.type = "nil"
  \/ key.type = "ImplementationSpecific" /\ ~ImplSpecificOK

ListenerHostOfTLS(rg) ==
  IF Len(rg.tls) = 1 /\ Len(rg.tls[1].hosts) = 1 THEN rg.tls[1].hosts[1] ELSE rg.host

\* The hostname of a group's listener: its host, or the only TLS host of a
\* group without a host.
ListenerHost(rg) ==
  IF rg.host # <<>> THEN rg.host
  ELSE IF Len(rg.tls) = 1 /\ Len(rg.tls[1].hosts) = 1 THEN rg.tls[1].hosts[1]
  ELSE <<>>

Secrets(tls) == [n \in DOMAIN tls |-> tls[n].secret]

GatewayListeners(l) ==
  LET listener(scheme, port, certs) ==
        [name |-> ListenerName(l.host, scheme), host |-> l.host,
         port |-> port, certs |-> certs]
  IN  <<listener("http", 80, <<>>)>>
        \o IF l.certs = <<>> THEN <<>> ELSE <<listener("https", 443, l.certs)>>
===============================================================================
