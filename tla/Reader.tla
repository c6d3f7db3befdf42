-------------------------------- MODULE Reader --------------------------------
(***************************************************************************)
(* Reading: providers/common/resource_reader.go and the reader, provider   *)
(* and storage of ingress-nginx.  The Ingresses are read first and the     *)
(* Services after them, and each time the file is opened, or the cluster   *)
(* asked, anew: whoever else writes to it may do so in between (Change).   *)
(*                                                                         *)
(* One reading goes over the documents (decode), over what was decoded     *)
(* (expand) and over what was extracted (take); i is the index of the loop *)
(* that is running.                                                        *)
(***************************************************************************)
EXTENDS Manifests

CONSTANTS
  Configs,      \* the command lines, and what the environment adds to them
  MaxChanges    \* bound on the number of times the file or cluster changes

VARIABLES
  config,       \* the one that runs
  world,        \* the version that is there now
  changes,      \* how often it has changed
  phase, i,     \* the step or loop that is running
  namespace,    \* ProviderConf.Namespace
  class,        \* resourceReader.ingressClass
  reading,      \* the kind of object that is being read
  docs,         \* the documents that are being decoded
  objs,         \* unstructuredObjects, before Lists are taken apart
  items,        \* and after
  found,        \* the map that the objects of this kind are put in
  draft,        \* the storage that is filled
  storage,      \* Provider.storage
  seen          \* the versions that were read (history)

\* context is the namespace of the current context, if it can be found.
ASSUME ConfigsAssumption ==
  Configs \subseteq
    [output : STRING, file : BOOLEAN, namespace : String, allNamespaces : BOOLEAN,
     context : Seq(String), kubeconfig : BOOLEAN, providers : Seq(STRING),
     emitter : STRING, ingressClass : String]

settings   == <<config, namespace, class>>
readVars   == <<reading, docs, objs, items, found, draft, storage, seen>>
readerVars == <<settings, world, changes, phase, i, readVars>>

EmptyStorage == [ingresses |-> EmptyMap, names |-> <<>>, ports |-> EmptyMap]

Source == IF config.file THEN FileVersions ELSE ClusterVersions

ReaderInit ==
  /\ config \in Configs /\ world \in Source /\ changes = 0
  /\ phase = "start" /\ i = 1
  /\ namespace = <<>> /\ class = <<>>
  /\ reading = "Ingress"
  /\ docs = <<>> /\ objs = <<>> /\ items = <<>> /\ found = EmptyMap
  /\ draft = EmptyStorage /\ storage = EmptyStorage
  /\ seen = <<>>

\* Someone else writes to the file or to the cluster.
Change ==
  /\ phase \in {"open", "decode", "expand", "take", "list", "group"}
  /\ changes < MaxChanges
  /\ changes' = changes + 1
  /\ world' \in Source \ {world}
  /\ UNCHANGED <<settings, phase, i, readVars>>

Goto(ph) == phase' = ph /\ i' = 1

Fail == Goto("failed")

Orders(S) == {s \in [1..Cardinality(S) -> S] : ToSet(s) = S}

-------------------------------------------------------------------------------
(***************************************************************************)
(* ReadIngressesFromFile, ReadServicesFromFile, ExtractObjectsFromReader   *)
(***************************************************************************)
\* os.ReadFile takes one version of the file.
OpenFile ==
  /\ phase = "open" /\ config.file
  /\ seen' = Append(seen, world)
  /\ IF world.readable
     THEN docs' = world.docs /\ Goto("decode")
     ELSE docs' = docs /\ Fail
  /\ objs' = <<>> /\ items' = <<>> /\ found' = EmptyMap
  /\ UNCHANGED <<settings, world, changes, reading, draft, storage>>

DecodeDocumentNullAgain ==
  /\ phase = "decode" /\ i <= Len(docs)
  /\ IF docs[i].kind = "malformed" THEN Fail ELSE phase' = phase
  /\ objs' = IF Kept(docs[i], namespace) THEN Append(objs, docs[i]) ELSE objs
  /\ docs[i].kind # "malformed" => i' = IF docs[i].kind = "null" THEN i ELSE i + 1
  /\ UNCHANGED <<settings, world, changes, reading, docs, items, found, draft, storage, seen>>

DecodeDocument ==
  /\ phase = "decode" /\ i <= Len(docs)
  /\ \/ /\ docs[i].kind = "malformed"
        /\ Fail
        /\ UNCHANGED objs
     \/ /\ docs[i].kind # "malformed"
        /\ objs' = IF Kept(docs[i], namespace) THEN Append(objs, docs[i]) ELSE objs
        /\ i' = i + 1
        /\ UNCHANGED phase
  /\ UNCHANGED <<settings, world, changes, reading, docs, items, found, draft, storage, seen>>

EndOfFile ==
  /\ phase = "decode" /\ i > Len(docs)
  /\ Goto("expand")
  /\ UNCHANGED <<settings, world, changes, readVars>>

\* A List is replaced by its items, but a List among them stays one.
ExpandObject ==
  /\ phase = "expand" /\ i <= Len(objs)
  /\ \/ /\ BrokenList(objs[i])
        /\ Fail
        /\ UNCHANGED items
     \/ /\ ~BrokenList(objs[i])
        /\ items' = items \o Items(objs[i])
        /\ i' = i + 1
        /\ UNCHANGED phase
  /\ UNCHANGED <<settings, world, changes, reading, docs, objs, found, draft, storage, seen>>

AllExpanded ==
  /\ phase = "expand" /\ i > Len(objs)
  /\ Goto("take")
  /\ UNCHANGED <<settings, world, changes, readVars>>

-------------------------------------------------------------------------------
(***************************************************************************)
(* ReadIngressesFromCluster, ReadServicesFromCluster                       *)
(***************************************************************************)
\* What List of the namespaced client returns, in the server's order: the
\* objects of one kind, and of one namespace unless it is empty.
ListedEverywhere(version) == {obj \in ToSet(version.docs) : obj.kind = reading}
Listed(version) ==
  {obj \in ToSet(version.docs) : obj.kind = reading /\ InNamespace(obj, namespace)}

ListObjects ==
  /\ phase = "open" /\ ~config.file
  /\ seen' = Append(seen, world)
  /\ IF world.readable
     THEN items' \in Orders(Listed(world)) /\ Goto("take")
     ELSE items' = items /\ Fail
  /\ found' = EmptyMap
  /\ UNCHANGED <<settings, world, changes, reading, docs, objs, draft, storage>>

-------------------------------------------------------------------------------
(***************************************************************************)
(* Picking the objects of a kind, and the storage                          *)
(***************************************************************************)
WantedAnyClass(obj) == TRUE
Wanted(obj) == obj.kind = "Service" \/ OfClass(obj, class)

\* An object that does not fit its kind is an error even if its class would
\* have it skipped.
TakeObject ==
  /\ phase = "take" /\ i <= Len(items)
  /\ \/ /\ items[i].kind # reading
        /\ i' = i + 1
        /\ UNCHANGED <<phase, found>>
     \/ /\ items[i].kind = reading /\ ~items[i].valid
        /\ Fail
        /\ UNCHANGED found
     \/ /\ items[i].kind = reading /\ items[i].valid
        /\ found' = IF Wanted(items[i]) THEN Put(found, NamespacedName(items[i]), items[i])
                    ELSE found
        /\ i' = i + 1
        /\ UNCHANGED phase
  /\ UNCHANGED <<settings, world, changes, reading, docs, objs, items, draft, storage, seen>>

AllTaken ==
  /\ phase = "take" /\ i > Len(items)
  /\ Goto(IF reading = "Ingress" THEN "list" ELSE "group")
  /\ UNCHANGED <<settings, world, changes, readVars>>

\* The orders an unstable sort by name can leave namespaced names in.
SortedNames(S) ==
  {s \in Orders(S) : \A m, n \in DOMAIN s : m < n => ~Precedes(s[n].name, s[m].name)}

FromMap ==
  /\ phase = "list"
  /\ \E names \in SortedNames(DOMAIN found) :
       draft' = [ingresses |-> found, names |-> names, ports |-> draft.ports]
  /\ reading' = "Service"
  /\ Goto("open")
  /\ UNCHANGED <<settings, world, changes, docs, objs, items, found, storage, seen>>

\* The provider's storage is replaced when all has been read.
StoreServicePorts ==
  /\ phase = "group"
  /\ draft' = [draft EXCEPT !.ports = GroupServicePortsByPortName(found)]
  /\ storage' = draft'
  /\ Goto("emitter")
  /\ UNCHANGED <<settings, world, changes, reading, docs, objs, items, found, seen>>

Read ==
  \/ OpenFile \/ DecodeDocument \/ EndOfFile \/ ExpandObject \/ AllExpanded
  \/ ListObjects
  \/ TakeObject \/ AllTaken \/ FromMap \/ StoreServicePorts
===============================================================================
