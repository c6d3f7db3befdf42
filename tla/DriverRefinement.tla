--------------------------- MODULE DriverRefinement ---------------------------
(***************************************************************************)
(* What is checked of Driver: that it implements ProgramContract, and      *)
(* properties of its own.  The refinement mapping takes what has been      *)
(* written for the outcome when the program has ended, and forgets who     *)
(* dispatched a notification and in which order resources were printed.    *)
(***************************************************************************)
EXTENDS Driver, ProgramOutcome

AbstractOutcome ==
  IF phase \notin Ended THEN <<>>
  ELSE <<[end |-> phase, stdout |-> ToSet(stdout), stderr |-> UNION Range(stderr)]>>

Contract == INSTANCE ProgramContract WITH outcome <- AbstractOutcome

\* What print prints and warns of is what the contract allows for the command
\* line, the two versions it has read and a result of conversion and emission,
\* with nothing on stdout or stderr when it fails: stage by stage, for every
\* order of map iteration and whatever happens to the file or cluster meanwhile.
ImplementsProgram == Contract!Spec

\* What is decoded is not empty.
Decoded == {document \in Document : document.kind \notin {"null", "malformed"}}

\* The variables of the stages up to the emission have their types.
DriverTypeOK ==
  /\ config \in Configs /\ world \in Source /\ seen \in Seq(Source)
  /\ phase \in {"start", "printer", "filter", "connect", "construct", "open", "decode", "expand",
                "take", "list", "group", "emitter", "convert", "emit", "check", "tables", "warn",
                "print"} \union Ended
  /\ i \in Nat \ {0}
  /\ namespace \in String /\ class \in String
  /\ reading \in {"Ingress", "Service"}
  /\ docs \in Seq(Document) /\ objs \in Seq(Decoded) /\ items \in Seq(Object)
  /\ errors \in BOOLEAN

Ingresses(document, cls) ==
  {obj \in ToSet(Items(document)) : obj.kind = "Ingress" /\ OfClass(obj, cls)}

\* The Ingresses of a map are those of a class, under their names, in the
\* documents of a version that pass the namespace filter.
Picked(version, ns, cls, ingresses) ==
  /\ \A document \in ToSet(version.docs) : Kept(document, ns) =>
       \A obj \in Ingresses(document, cls) : NamespacedName(obj) \in DOMAIN ingresses
  /\ \A nn \in DOMAIN ingresses :
       \E document \in ToSet(version.docs) :
         /\ Kept(document, ns)
         /\ ingresses[nn] \in Ingresses(document, cls)
         /\ NamespacedName(ingresses[nn]) = nn

Selected(version, ns, cls, st) ==
  ToSet(st.names) = DOMAIN st.ingresses /\ Picked(version, ns, cls, st.ingresses)

HasRead ==
  /\ phase \in {"emitter", "convert", "emit", "check", "tables", "warn", "print", "printed"}
  /\ config.providers # <<>>

\* The stored Ingresses are those of the class, under their names, in the
\* documents of the first version read that pass the namespace filter: whole
\* readings, never a mixture with the second version, and List() finds every
\* name it goes through.  (resource_reader.go, storage.go)
IngressesSelected == HasRead => Selected(seen[1], namespace, class, storage)

\* A feature that is in the IR is not lost without a word: when resources have
\* been printed, every feature of an HTTPRoute is converted, or stderr has a
\* warning that names its kind, its route and its Ingress, whatever the
\* conversion and the emitter do.  (checkConvertExtensionFeatures, the tables)
NothingDroppedSilently ==
  phase = "printed" =>
    \A key \in DOMAIN ir.http : \A f \in ir.http[key] :
      f.parsed \/ Warning(f, key) \in UNION Range(stderr)

\* Resources are written when there were no errors only: with one, of common.
\* ToIR, of a parser or of the emitter, whatever it is about, the emitter and
\* the check run to their end, on an IR that may be half-written, but nothing
\* of it is printed.  (ingress2gateway.go 89-105)
NothingPrintedOnError ==
  errors => stdout = <<>> /\ stderr = EmptyMap /\ phase \notin {"warn", "print", "printed"}

\* The program ends, even if the file or cluster never stands still.
Terminates == <>(phase \in Ended)

\* A dispatched notification is shown on stderr in the end, unless the command
\* fails or crashes, which is shown instead of it.
EveryWarningShown ==
  \A by \in {"ingress-nginx", "envoy-gateway", "INGRESS2EG"}, k \in Kinds :
    (by \in DOMAIN notifications /\ \E n \in notifications[by] : n.kind = k)
      ~> \/ by \in DOMAIN stderr /\ \E n \in stderr[by] : n.kind = k
         \/ phase \in {"failed", "panicked"}

\* The objects of a document, "including nested ones if they are contained
\* within a list", that are Ingresses of the class and of the namespace are
\* all stored.  (resource_reader.go 126-129)
EveryIngressRead ==
  phase = "printed" /\ config.providers # <<>> =>
    \A document \in ToSet(seen[1].docs) :
      \A obj \in Ingresses(document, class) :
        InNamespace(obj, namespace) => NamespacedName(obj) \in DOMAIN storage.ingresses
===============================================================================
