------------------------------ MODULE Manifests ------------------------------
(***************************************************************************)
(* What print reads: the documents of a manifest file, or the objects of a *)
(* cluster, and what they amount to.  Either can change while the program  *)
(* runs; a version is its content at one moment.                           *)
(*                                                                         *)
(* A document of a file is an object, a List of objects, empty or          *)
(* malformed.  An object that does not fit its kind is not valid.  asks    *)
(* stands for the annotations of an Ingress: the features they ask for.    *)
(***************************************************************************)
EXTENDS Names, Maps, SequencesExt

CONSTANTS
  FileVersions,      \* what can be in the file
  ClusterVersions,   \* what can be in the cluster
  Kinds              \* the features that annotations can ask for

Api == INSTANCE IngressApi WITH Inputs <- {}, ServicePorts <- EmptyMap, ImplSpecificOK <- TRUE

NamespacedName(obj) == [ns |-> obj.ns, name |-> obj.name]

IngressObject ==
  {obj \in [kind : {"Ingress"}, ns : String, name : String, valid : BOOLEAN,
            spec : Api!Ingress, asks : SUBSET Kinds] :
     NamespacedName(obj) = NamespacedName(obj.spec)}
ServiceObject ==
  [kind : {"Service"}, ns : String, name : STRING, valid : BOOLEAN,
   ports : Seq([name : STRING, number : Nat \ {0}])]
OtherObject == [kind : {"other"}, ns : String, name : String]
Object == IngressObject \union ServiceObject \union OtherObject

Document ==
  Object \union [kind : {"List"}, ns : String, valid : BOOLEAN, items : Seq(Object)]
         \union [kind : {"null", "malformed"}, ns : {<<>>}]

Version == [readable : BOOLEAN, docs : Seq(Document)]

ASSUME FileAssumption == FileVersions \subseteq Version

\* The API server stores valid objects, one of a kind under a name.
ASSUME ClusterAssumption ==
  /\ ClusterVersions \subseteq Version
  /\ \A version \in ClusterVersions : \A m, n \in DOMAIN version.docs :
       LET obj == version.docs[m]
       IN  /\ obj \in Object
           /\ obj.kind # "other" => obj.valid
           /\ (obj.kind = version.docs[n].kind
                 /\ NamespacedName(obj) = NamespacedName(version.docs[n])) => m = n

(***************************************************************************)
(* One document or object at a time                                        *)
(***************************************************************************)
\* The filter looks at the document, before a List is taken apart.
InNamespace(doc, ns) == ns = <<>> \/ doc.ns = ns

\* An empty document decodes to nil.
Kept(doc, ns) == doc.kind # "null" /\ InNamespace(doc, ns)

ItemsUnexpanded(doc) == <<doc>>
Items(doc) == IF doc.kind = "List" THEN doc.items ELSE <<doc>>

BrokenList(doc) == doc.kind = "List" /\ ~doc.valid

OfClass(obj, class) == Api!GetIngressClass(obj.spec) = class

(***************************************************************************)
(* All of them                                                             *)
(***************************************************************************)
\* A place is where an object is found: itself a document that passes the
\* filter, or an item of a List that does.
Places(docs, ns) ==
  UNION {{n} \X DOMAIN Items(docs[n]) : n \in {x \in DOMAIN docs : Kept(docs[x], ns)}}

ObjectAt(docs, place) == Items(docs[place[1]])[place[2]]

Earlier(p, q) == p[1] < q[1] \/ (p[1] = q[1] /\ p[2] < q[2])

\* The objects at some places by name: the last one of a name counts.
ByName(docs, places) ==
  LET named(nn) == {p \in places : NamespacedName(ObjectAt(docs, p)) = nn}
      last(nn)  == CHOOSE p \in named(nn) : \A q \in named(nn) : q = p \/ Earlier(q, p)
  IN  [nn \in {NamespacedName(ObjectAt(docs, p)) : p \in places} |-> ObjectAt(docs, last(nn))]

PlacesOf(docs, ns, kind) == {p \in Places(docs, ns) : ObjectAt(docs, p).kind = kind}

IngressesIn(docs, ns, class) ==
  ByName(docs, {p \in PlacesOf(docs, ns, "Ingress") : OfClass(ObjectAt(docs, p), class)})

ServicesIn(docs, ns) == ByName(docs, PlacesOf(docs, ns, "Service"))

\* Of the ports of one name the last one counts.
PortNumbers(svc) ==
  [pn \in {p.name : p \in ToSet(svc.ports)} |->
     svc.ports[SelectLastInSeq(svc.ports, LAMBDA p : p.name = pn)].number]

\* The numbers of named ports, by namespace, service and name.
GroupServicePortsByPortName(services) ==
  [port \in UNION {{<<nn.ns, nn.name, pn>> : pn \in DOMAIN PortNumbers(services[nn])} :
                     nn \in DOMAIN services} |->
     PortNumbers(services[[ns |-> port[1], name |-> port[2]]])[port[3]]]

\* Reading the objects of a kind from a version fails.
ReadFails(version, kind, ns) ==
  \/ ~version.readable
  \/ \E doc \in ToSet(version.docs) :
       doc.kind = "malformed" \/ (Kept(doc, ns) /\ BrokenList(doc))
  \/ \E p \in PlacesOf(version.docs, ns, kind) : ~ObjectAt(version.docs, p).valid
===============================================================================
