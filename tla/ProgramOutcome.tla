---------------------------- MODULE ProgramOutcome ----------------------------
(***************************************************************************)
(* What the print command can come to, as a function of the command line   *)
(* and of the versions of the file or cluster that it has read: the        *)
(* Ingresses come from the first and the Services from the second, and the *)
(* results of conversion and emission from the parameters of Program.      *)
(*                                                                         *)
(* Output and warnings are sets: nothing depends on the order of Go's      *)
(* maps.  A run that fails writes nothing to either.                       *)
(***************************************************************************)
EXTENDS Program

Outcome(end, stdout, stderr) == <<[end |-> end, stdout |-> stdout, stderr |-> stderr]>>
Nowhere == Outcome("failed", {}, {})
Crash   == Outcome("panicked", {}, {})

(***************************************************************************)
(* Reading                                                                 *)
(***************************************************************************)
NamespaceOf(command) ==
  IF command.allNamespaces THEN <<>>
  ELSE IF command.namespace # <<>> \/ command.file THEN command.namespace
  ELSE command.context[1]

\* The command line cannot be carried out, whatever there is to read.
CannotStart(command) ==
  \/ command.namespace # <<>> /\ command.allNamespaces
  \/ command.output \notin {"yaml", "", "kyaml", "json"}
  \/ ~command.file /\ ~command.kubeconfig
  \/ ~command.file /\ ~command.allNamespaces /\ command.namespace = <<>> /\ command.context = <<>>
  \/ \E p \in ToSet(command.providers) : p # Provider

ReadFailed(command, versions) ==
  \/ Len(versions) > 0 /\ ReadFails(versions[1], "Ingress", NamespaceOf(command))
  \/ Len(versions) > 1 /\ ReadFails(versions[2], "Service", NamespaceOf(command))

\* There is a version to read, or another one.
ReadsOn(command, versions) ==
  /\ ~CannotStart(command) /\ command.providers # <<>>
  /\ ~ReadFailed(command, versions) /\ Len(versions) < 2

\* What two readings amount to.
StoredIngresses(command, versions) ==
  IngressesIn(versions[1].docs, NamespaceOf(command), command.ingressClass)
StoredPorts(command, versions) ==
  GroupServicePortsByPortName(ServicesIn(versions[2].docs, NamespaceOf(command)))

(***************************************************************************)
(* Output                                                                  *)
(***************************************************************************)
\* Whatever the emitter leaves unparsed is warned about, with the name of its
\* source.  One without a source crashes the program.
Lost(ir, key) == {f \in ir.http[key] : ~f.parsed}
Crashes(ir)   == \E key \in DOMAIN ir.http : \E f \in Lost(ir, key) : f.source = <<>>
Warnings(ir)  == UNION {{Warning(f, key) : f \in Lost(ir, key)} : key \in DOMAIN ir.http}

Lines(resources) ==
  UNION {{[kind |-> kind, key |-> key] : key \in resources[kind]} : kind \in ToSet(PrintOrder)}

Printed(command, resources, notes) ==
  Outcome("printed",
          IF Lines(resources) = {} THEN {[kind |-> "message", key |-> NamespaceOf(command)]}
          ELSE Lines(resources),
          notes)

\* What a conversion and an emission of its IR lead to: an error of either
\* makes the command fail at the end, unless it has crashed.
Result(command, c, e) ==
  IF e.end = "panicked" \/ Crashes(e.ir) THEN Crash
  ELSE IF c.errors \union e.errors # {} THEN Nowhere
  ELSE Printed(command, e.resources, c.notes \union e.notes \union Warnings(e.ir))

ConversionResults(command, c) ==
  IF c.end = "panicked" THEN {Crash}
  ELSE {Result(command, c, e) : e \in Emissions(command.emitter, c.ir)}

\* The outcomes, when all that will be read has been read.
Outcomes(command, versions) ==
  IF CannotStart(command) \/ ReadFailed(command, versions) \/ command.emitter \notin Emitters
  THEN {Nowhere}
  ELSE IF command.providers = <<>> THEN {Printed(command, NoResources, {})}
  ELSE UNION {ConversionResults(command, c) :
                c \in Conversions(StoredIngresses(command, versions), StoredPorts(command, versions))}
===============================================================================
