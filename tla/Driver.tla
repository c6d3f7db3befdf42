-------------------------------- MODULE Driver --------------------------------
(***************************************************************************)
(* The print command: cmd/print.go and ToGatewayAPIResources, from the     *)
(* command line over reading (module Reader), conversion and emission      *)
(* (parameters, see module Program) to what is written to stdout and       *)
(* stderr.                                                                 *)
(*                                                                         *)
(* Go visits its maps in any order: features are checked, tables and       *)
(* resources of a kind printed in any order.  The only provider there is   *)
(* is ingress-nginx, so the loop over providers has one turn or none.      *)
(*                                                                         *)
(* failed: the command returns an error.  panicked: the program crashes.   *)
(***************************************************************************)
EXTENDS Reader, Program

VARIABLES
  ir,              \* the EmitterIR; its features are marked by the emitter
  resources,       \* gatewayResources
  errors,          \* errs is not empty
  notifications,   \* NotificationAggr: notifications by who dispatched them
  unchecked,       \* features checkConvertExtensionFeatures has yet to look at
  tables,          \* notificationTablesMap
  stderr, stdout   \* what has been written

results == <<ir, resources, errors, notifications, unchecked, tables>>
vars    == <<readerVars, results, stderr, stdout>>

Formats == {"yaml", "", "kyaml", "json"}
Ended   == {"failed", "panicked", "printed"}

Init ==
  /\ ReaderInit
  /\ ir = EmptyIR /\ resources = NoResources /\ errors = FALSE
  /\ notifications = EmptyMap /\ unchecked = {} /\ tables = EmptyMap
  /\ stderr = EmptyMap /\ stdout = <<>>

-------------------------------------------------------------------------------
(***************************************************************************)
(* Before reading                                                          *)
(***************************************************************************)
\* --namespace and --all-namespaces exclude each other.
ParseFlags ==
  /\ phase = "start"
  /\ Goto(IF config.namespace # <<>> /\ config.allNamespaces THEN "failed" ELSE "printer")
  /\ UNCHANGED <<settings, world, changes, readVars, results, stderr, stdout>>

InitializeResourcePrinter ==
  /\ phase = "printer"
  /\ Goto(IF config.output \in Formats THEN "filter" ELSE "failed")
  /\ UNCHANGED <<settings, world, changes, readVars, results, stderr, stdout>>

\* The empty namespace stands for all of them.
InitializeNamespaceFilter ==
  /\ phase = "filter"
  /\ \/ /\ config.allNamespaces \/ (config.file /\ config.namespace = <<>>)
        /\ namespace' = <<>>
        /\ Goto("connect")
     \/ /\ ~config.allNamespaces /\ config.namespace # <<>>
        /\ namespace' = config.namespace
        /\ Goto("connect")
     \/ /\ ~config.allNamespaces /\ ~config.file /\ config.namespace = <<>>
        /\ IF config.context = <<>>
           THEN namespace' = namespace /\ Fail
           ELSE namespace' = config.context[1] /\ Goto("connect")
  /\ UNCHANGED <<config, class, world, changes, readVars, results, stderr, stdout>>

ConnectClient ==
  /\ phase = "connect"
  /\ Goto(IF config.file \/ config.kubeconfig THEN "construct" ELSE "failed")
  /\ UNCHANGED <<settings, world, changes, readVars, results, stderr, stdout>>

\* A provider that is named twice is constructed once.
ConstructProviders ==
  /\ phase = "construct"
  /\ \/ /\ ToSet(config.providers) \ {Provider} # {}
        /\ Fail
        /\ UNCHANGED class
     \/ /\ ToSet(config.providers) = {Provider}
        /\ class' = config.ingressClass
        /\ Goto("open")
     \/ /\ config.providers = <<>>
        /\ Goto("emitter")
        /\ UNCHANGED class
  /\ UNCHANGED <<config, namespace, world, changes, readVars, results, stderr, stdout>>

ReadResources == Read /\ UNCHANGED <<results, stderr, stdout>>

-------------------------------------------------------------------------------
(***************************************************************************)
(* Conversion and emission                                                 *)
(***************************************************************************)
\* The emitter is looked up when all has been read.
LookUpEmitter ==
  /\ phase = "emitter"
  /\ Goto(IF config.emitter \notin Emitters THEN "failed"
          ELSE IF config.providers = <<>> THEN "tables" ELSE "convert")
  /\ UNCHANGED <<settings, world, changes, readVars, results, stderr, stdout>>

\* DispatchNotification, for every one of a set of notes.
Dispatched(by, notes) ==
  LET before == IF by \in DOMAIN notifications THEN notifications[by] ELSE {}
  IN  IF notes = {} THEN notifications ELSE Put(notifications, by, before \union notes)

\* Errors of the conversion do not stop the pipeline: the emitter runs on the
\* IR that it has returned, empty or half-written.
ToIR ==
  /\ phase = "convert"
  /\ \E c \in Conversions(storage.ingresses, storage.ports) :
       \/ /\ c.end = "panicked"
          /\ Goto("panicked")
          /\ UNCHANGED <<ir, errors, notifications>>
       \/ /\ c.end # "panicked"
          /\ ir' = c.ir
          /\ errors' = (c.errors # {})
          /\ notifications' = Dispatched("ingress-nginx", c.notes)
          /\ Goto("emit")
  /\ UNCHANGED <<settings, world, changes, readVars, resources, unchecked, tables, stderr, stdout>>

Emit ==
  /\ phase = "emit"
  /\ \E e \in Emissions(config.emitter, ir) :
       \/ /\ e.end = "panicked"
          /\ Goto("panicked")
          /\ UNCHANGED <<ir, resources, errors, notifications, unchecked>>
       \/ /\ e.end # "panicked"
          /\ ir' = e.ir
          /\ resources' = e.resources
          /\ errors' = (errors \/ e.errors # {})
          /\ notifications' = Dispatched("envoy-gateway", e.notes)
          /\ unchecked' =
               UNION {{[route |-> key, feature |-> f] : f \in e.ir.http[key]} : key \in DOMAIN e.ir.http}
          /\ Goto("check")
  /\ UNCHANGED <<settings, world, changes, readVars, tables, stderr, stdout>>

NeedsWarningIfParsed(f) == f.parsed
NeedsWarning(f) == ~f.parsed

\* Naming a source that is nil crashes the program.
CheckFeature ==
  /\ phase = "check"
  /\ \E c \in unchecked :
       /\ unchecked' = unchecked \ {c}
       /\ \/ /\ ~NeedsWarning(c.feature)
             /\ UNCHANGED <<notifications, phase, i>>
          \/ /\ NeedsWarning(c.feature) /\ c.feature.source = <<>>
             /\ Goto("panicked")
             /\ UNCHANGED notifications
          \/ /\ NeedsWarning(c.feature) /\ c.feature.source # <<>>
             /\ notifications' = Dispatched("INGRESS2EG", {Warning(c.feature, c.route)})
             /\ UNCHANGED <<phase, i>>
  /\ UNCHANGED <<settings, world, changes, readVars, ir, resources, errors, tables, stderr, stdout>>

AllChecked ==
  /\ phase = "check" /\ unchecked = {}
  /\ Goto("tables")
  /\ UNCHANGED <<settings, world, changes, readVars, results, stderr, stdout>>

CreateTablesDespiteErrors ==
  /\ phase = "tables"
  /\ tables' = notifications
  /\ Goto("warn")
  /\ UNCHANGED <<settings, world, changes, readVars, ir, resources, errors, notifications, unchecked,
                 stderr, stdout>>

\* With errors the command returns before it prints the tables.
CreateNotificationTables ==
  /\ phase = "tables"
  /\ tables' = notifications
  /\ Goto(IF errors THEN "failed" ELSE "warn")
  /\ UNCHANGED <<settings, world, changes, readVars, ir, resources, errors, notifications, unchecked,
                 stderr, stdout>>

-------------------------------------------------------------------------------
(***************************************************************************)
(* Printing                                                                *)
(***************************************************************************)
PrintTable ==
  /\ phase = "warn"
  /\ \E by \in DOMAIN tables \ DOMAIN stderr : stderr' = Put(stderr, by, tables[by])
  /\ UNCHANGED <<settings, world, changes, phase, i, readVars, results, stdout>>

FirstTablePrinted ==
  /\ phase = "warn" /\ (tables = EmptyMap \/ stderr # EmptyMap)
  /\ Goto("print")
  /\ UNCHANGED <<settings, world, changes, readVars, results, stderr, stdout>>

AllTablesPrinted ==
  /\ phase = "warn" /\ DOMAIN tables \subseteq DOMAIN stderr
  /\ Goto("print")
  /\ UNCHANGED <<settings, world, changes, readVars, results, stderr, stdout>>

Line(kind, key) == [kind |-> kind, key |-> key]

Unprinted(kind) == {key \in resources[kind] : Line(kind, key) \notin ToSet(stdout)}

\* The resources of a kind are printed in the order of a slice that the
\* emitter has filled from a map.
PrintResource ==
  /\ phase = "print" /\ i <= Len(PrintOrder)
  /\ \E key \in Unprinted(PrintOrder[i]) : stdout' = Append(stdout, Line(PrintOrder[i], key))
  /\ UNCHANGED <<settings, world, changes, phase, i, readVars, results, stderr>>

NextKind ==
  /\ phase = "print" /\ i <= Len(PrintOrder) /\ Unprinted(PrintOrder[i]) = {}
  /\ i' = i + 1
  /\ UNCHANGED <<settings, world, changes, phase, readVars, results, stderr, stdout>>

\* "No resources found", in the namespace that was asked for.
EndOfOutput ==
  /\ phase = "print" /\ i > Len(PrintOrder)
  /\ stdout' = IF stdout = <<>> THEN <<Line("message", namespace)>> ELSE stdout
  /\ Goto("printed")
  /\ UNCHANGED <<settings, world, changes, readVars, results, stderr>>

-------------------------------------------------------------------------------
Work ==
  \/ ParseFlags \/ InitializeResourcePrinter \/ InitializeNamespaceFilter
  \/ ConnectClient \/ ConstructProviders
  \/ ReadResources
  \/ LookUpEmitter \/ Emit \/ CheckFeature \/ AllChecked \/ CreateNotificationTables
  \/ PrintTable \/ AllTablesPrinted \/ PrintResource \/ NextKind \/ EndOfOutput

ChangeWorld == Change /\ UNCHANGED <<results, stderr, stdout>>

Finished == phase \in Ended /\ UNCHANGED vars

Next == Work \/ ToIR \/ ChangeWorld \/ Finished

\* The program never waits for anyone, so it goes on; nobody has to write to
\* the file or the cluster.  A conversion has a result, so ToIR can always be
\* taken in its phase, and leaves it: what WF_vars(ToIR) comes to is that the
\* phase does not last.
Fairness == WF_vars(Work) /\ []<>(phase # "convert")

Spec == Init /\ [][Next]_vars /\ Fairness
===============================================================================
