----------------------------- MODULE DriverProofs -----------------------------
(***************************************************************************)
(* Proofs about the print command: the types of its variables, that an     *)
(* error keeps everything from being printed, that every feature that an   *)
(* annotation asks for is converted or its loss is shown, and that the     *)
(* Ingresses in the provider's storage are those of one version of the     *)
(* file or cluster, all of them and no others.                             *)
(***************************************************************************)
EXTENDS DriverRefinement, FiniteSetTheorems, SequenceTheorems, TLAPS

(***************************************************************************)
(* What is read has the type of what is there.                             *)
(***************************************************************************)
LEMMA SourceVersions ==
  ASSUME config \in Configs
  PROVE  Source \subseteq Version
  BY FileAssumption, ClusterAssumption DEF Source

LEMMA FileDocs ==
  ASSUME NEW version \in Version
  PROVE  version.docs \in Seq(Document)
  BY DEF Version

\* Any order of a part of a sequence is a sequence over that part.
LEMMA OrdersOfPart ==
  ASSUME NEW T, NEW s \in Seq(T), NEW S \in SUBSET ToSet(s), NEW t \in Orders(S)
  PROVE  t \in Seq(S) /\ ToSet(t) = S
PROOF
<1>1. IsFiniteSet(1..Len(s)) /\ Len(s) \in Nat /\ DOMAIN s = 1..Len(s)
  BY LenProperties, FS_Interval
<1>2. s \in Surjection(1..Len(s), ToSet(s))
  BY <1>1 DEF ToSet, Surjection
<1>3. IsFiniteSet(ToSet(s))
  BY <1>1, <1>2, FS_Surjection
<1>4. IsFiniteSet(S)
  BY <1>3, FS_Subset
<1>5. Cardinality(S) \in Nat
  BY <1>4, FS_CardinalityType
<1> QED
  BY <1>5 DEF Orders

\* The objects that a cluster lists are not Lists.
LEMMA ListedObjects ==
  ASSUME NEW version \in ClusterVersions, NEW t \in Orders(Listed(version))
  PROVE  t \in Seq(Object) /\ ToSet(t) = Listed(version)
PROOF
<1>1. version.docs \in Seq(Document)
  BY ClusterAssumption, FileDocs
<1>2. Listed(version) \in SUBSET ToSet(version.docs)
  BY DEF Listed
<1>3. t \in Seq(Listed(version)) /\ ToSet(t) = Listed(version)
  BY <1>1, <1>2, OrdersOfPart
<1>4. Listed(version) \subseteq Object
  <2> SUFFICES ASSUME NEW obj \in Listed(version) PROVE obj \in Object
    OBVIOUS
  <2>1. PICK m \in DOMAIN version.docs : version.docs[m] = obj
    BY DEF Listed, ToSet
  <2> QED
    BY <2>1, ClusterAssumption
<1> QED
  BY <1>3, <1>4

\* Whatever is extracted from a document, but for a List in a List, is an object.
LEMMA ItemsAreObjects ==
  ASSUME NEW doc \in Decoded
  PROVE  Items(doc) \in Seq(Object)
PROOF
<1> doc \in Document /\ doc.kind \notin {"null", "malformed"}
  BY DEF Decoded
<1>1. CASE doc.kind = "List"
  BY <1>1 DEF Items, Document, Object, IngressObject, ServiceObject, OtherObject
<1>2. CASE doc.kind # "List"
  <2>1. doc \in Object
    BY <1>2 DEF Document
  <2> QED
    BY <1>2, <2>1 DEF Items
<1> QED
  BY <1>1, <1>2

(***************************************************************************)
(* Type correctness                                                        *)
(***************************************************************************)
LEMMA InitTypes == Init => DriverTypeOK
PROOF
<1> SUFFICES ASSUME Init PROVE DriverTypeOK
  OBVIOUS
<1>1. \A S : <<>> \in Seq(S)
  BY EmptySeq
<1>2. /\ config \in Configs /\ world \in Source /\ phase = "start" /\ i = 1
      /\ namespace = <<>> /\ class = <<>> /\ reading = "Ingress" /\ errors = FALSE
      /\ docs = <<>> /\ objs = <<>> /\ items = <<>> /\ seen = <<>>
  BY DEF Init, ReaderInit
<1>3. /\ namespace \in String /\ class \in String /\ seen \in Seq(Source)
      /\ docs \in Seq(Document) /\ objs \in Seq(Decoded) /\ items \in Seq(Object)
  BY <1>1, <1>2 DEF String
<1>4. errors \in BOOLEAN
  BY <1>2
<1> QED
  BY <1>2, <1>3, <1>4 DEF DriverTypeOK

\* The environment of the steps: what none but ParseFlags to ConstructProviders
\* and Read changes.
LEMMA UnreadTypes ==
  ASSUME DriverTypeOK, UNCHANGED <<config, world, seen, reading, docs, objs, items>>,
         namespace' \in String, class' \in String, errors' \in BOOLEAN, i' \in Nat \ {0},
         phase' \in {"start", "printer", "filter", "connect", "construct", "open", "decode",
                     "expand", "take", "list", "group", "emitter", "convert", "emit", "check",
                     "tables", "warn", "print", "failed", "panicked", "printed"}
  PROVE  DriverTypeOK'
  BY DEF DriverTypeOK, Source, Ended

LEMMA StartTypes ==
  ASSUME DriverTypeOK,
         ParseFlags \/ InitializeResourcePrinter \/ InitializeNamespaceFilter
           \/ ConnectClient \/ ConstructProviders
  PROVE  DriverTypeOK'
PROOF
<1>1. config \in Configs /\ namespace \in String /\ class \in String /\ errors \in BOOLEAN
  BY DEF DriverTypeOK
<1>2. config.namespace \in String /\ config.ingressClass \in String /\ config.context \in Seq(String)
  BY <1>1, ConfigsAssumption
<1>3. CASE ParseFlags
  BY <1>1, <1>3, UnreadTypes DEF ParseFlags, Goto, settings, readVars, results
<1>4. CASE InitializeResourcePrinter
  BY <1>1, <1>4, UnreadTypes DEF InitializeResourcePrinter, Goto, settings, readVars, results
<1>5. CASE InitializeNamespaceFilter
  <2>1. <<>> \in String /\ (config.context # <<>> => config.context[1] \in String)
    BY <1>2, EmptySeq, ElementOfSeq DEF String
  <2>2. namespace' \in String
    BY <1>1, <1>2, <1>5, <2>1 DEF InitializeNamespaceFilter
  <2> QED
    BY <1>1, <1>5, <2>2, UnreadTypes DEF InitializeNamespaceFilter, Goto, Fail, readVars, results
<1>6. CASE ConnectClient
  BY <1>1, <1>6, UnreadTypes DEF ConnectClient, Goto, settings, readVars, results
<1>7. CASE ConstructProviders
  BY <1>1, <1>2, <1>7, UnreadTypes DEF ConstructProviders, Goto, Fail, readVars, results
<1> QED
  BY <1>3, <1>4, <1>5, <1>6, <1>7

LEMMA ReadTypes ==
  ASSUME DriverTypeOK, ReadResources
  PROVE  DriverTypeOK'
PROOF
<1>1. /\ config \in Configs /\ world \in Source /\ seen \in Seq(Source)
      /\ docs \in Seq(Document) /\ objs \in Seq(Decoded) /\ items \in Seq(Object)
      /\ reading \in {"Ingress", "Service"} /\ i \in Nat \ {0} /\ errors \in BOOLEAN
      /\ namespace \in String /\ class \in String
  BY DEF DriverTypeOK
<1>2. errors' \in BOOLEAN
  BY <1>1 DEF ReadResources, results
<1>3. CASE OpenFile
  <2>1. world \in Version
    BY <1>1, SourceVersions
  <2>2. docs' \in Seq(Document)
    BY <1>1, <1>3, <2>1, FileDocs DEF OpenFile
  <2>3. seen' \in Seq(Source')
    BY <1>1, <1>3 DEF OpenFile, settings, Source
  <2> QED
    BY <1>1, <1>2, <1>3, <2>2, <2>3
    DEF OpenFile, DriverTypeOK, Goto, Fail, settings, Source, Ended
<1>4. CASE DecodeDocument
  <2>1. docs[i] \in Document /\ DOMAIN docs = 1..Len(docs)
    BY <1>1, <1>4, LenProperties DEF DecodeDocument
  <2>2. \/ objs' = objs
        \/ /\ objs' = Append(objs, docs[i])
           /\ docs[i].kind # "malformed" /\ Kept(docs[i], namespace)
    BY <1>4, Zenon DEF DecodeDocument
  <2>3. objs' = objs \/ (objs' = Append(objs, docs[i]) /\ docs[i] \in Decoded)
    BY <2>1, <2>2 DEF Kept, Decoded
  <2>4. objs \in Seq(Decoded)
    BY <1>1
  <2>5. docs[i] \in Decoded => Append(objs, docs[i]) \in Seq(Decoded)
    BY <2>4, AppendProperties
  <2>6. objs' \in Seq(Decoded)
    BY <2>3, <2>4, <2>5
  <2>7. /\ UNCHANGED <<config, namespace, class, world, reading, docs, items, seen>>
        /\ phase' \in {"failed", "decode"} /\ i' \in {1, i + 1}
    BY <1>4 DEF DecodeDocument, Goto, Fail, settings
  <2> QED
    BY <1>1, <1>2, <2>6, <2>7 DEF DriverTypeOK, Source, Ended
<1>5. CASE EndOfFile
  BY <1>1, <1>2, <1>5, UnreadTypes DEF EndOfFile, Goto, settings, readVars
<1>6. CASE ExpandObject
  <2>1. Items(objs[i]) \in Seq(Object)
    BY <1>1, <1>6, ItemsAreObjects DEF ExpandObject
  <2>2. items' \in Seq(Object)
    BY <1>1, <1>6, <2>1, ConcatProperties DEF ExpandObject
  <2> QED
    BY <1>1, <1>2, <1>6, <2>2
    DEF ExpandObject, DriverTypeOK, Goto, Fail, settings, Source, Ended
<1>7. CASE AllExpanded
  BY <1>1, <1>2, <1>7, UnreadTypes DEF AllExpanded, Goto, settings, readVars
<1>8. CASE ListObjects
  <2>1. items' \in Seq(Object)
    BY <1>1, <1>8, ListedObjects DEF ListObjects, Source
  <2>2. seen' \in Seq(Source')
    BY <1>1, <1>8 DEF ListObjects, settings, Source
  <2> QED
    BY <1>1, <1>2, <1>8, <2>1, <2>2
    DEF ListObjects, DriverTypeOK, Goto, Fail, settings, Source, Ended
<1>9. CASE TakeObject
  BY <1>1, <1>2, <1>9, UnreadTypes DEF TakeObject, DriverTypeOK, Goto, Fail, settings
<1>10. CASE AllTaken
  BY <1>1, <1>2, <1>10, UnreadTypes DEF AllTaken, Goto, settings, readVars
<1>11. CASE FromMap
  BY <1>1, <1>2, <1>11 DEF FromMap, DriverTypeOK, Goto, settings, Source, Ended
<1>12. CASE StoreServicePorts
  BY <1>1, <1>2, <1>12, UnreadTypes DEF StoreServicePorts, Goto, settings
<1> QED
  BY <1>3, <1>4, <1>5, <1>6, <1>7, <1>8, <1>9, <1>10, <1>11, <1>12 DEF ReadResources, Read

LEMMA EmissionTypes ==
  ASSUME DriverTypeOK,
         LookUpEmitter \/ ToIR \/ Emit \/ CheckFeature \/ AllChecked \/ CreateNotificationTables
  PROVE  DriverTypeOK'
PROOF
<1>1. namespace \in String /\ class \in String /\ errors \in BOOLEAN /\ i \in Nat \ {0}
  BY DEF DriverTypeOK
<1>2. CASE LookUpEmitter
  BY <1>1, <1>2, UnreadTypes DEF LookUpEmitter, Goto, settings, readVars, results
<1>3. CASE ToIR
  <2>1. /\ UNCHANGED <<config, world, seen, reading, docs, objs, items, namespace, class>>
        /\ i' = 1 /\ phase' \in {"panicked", "emit"}
    BY <1>3 DEF ToIR, Goto, settings, readVars
  <2>2. errors' \in BOOLEAN
    BY <1>1, <1>3, Zenon DEF ToIR
  <2> QED
    BY <1>1, <2>1, <2>2, UnreadTypes
<1>4. CASE Emit
  <2>1. /\ UNCHANGED <<config, world, seen, reading, docs, objs, items, namespace, class>>
        /\ i' = 1 /\ phase' \in {"panicked", "check"}
    BY <1>4 DEF Emit, Goto, settings, readVars
  <2>2. errors' \in BOOLEAN
    BY <1>1, <1>4, Zenon DEF Emit
  <2> QED
    BY <1>1, <2>1, <2>2, UnreadTypes
<1>5. CASE CheckFeature
  BY <1>1, <1>5, UnreadTypes DEF CheckFeature, DriverTypeOK, Goto, settings, readVars
<1>6. CASE AllChecked
  BY <1>1, <1>6, UnreadTypes DEF AllChecked, Goto, settings, readVars, results
<1>7. CASE CreateNotificationTables
  BY <1>1, <1>7, UnreadTypes DEF CreateNotificationTables, Goto, settings, readVars
<1> QED
  BY <1>2, <1>3, <1>4, <1>5, <1>6, <1>7

LEMMA PrintTypes ==
  ASSUME DriverTypeOK,
         PrintTable \/ AllTablesPrinted \/ PrintResource \/ NextKind \/ EndOfOutput
  PROVE  DriverTypeOK'
PROOF
<1>1. namespace \in String /\ class \in String /\ errors \in BOOLEAN /\ i \in Nat \ {0}
  BY DEF DriverTypeOK
<1>2. CASE PrintTable
  BY <1>1, <1>2, UnreadTypes DEF PrintTable, settings, readVars, results
<1>3. CASE AllTablesPrinted
  BY <1>1, <1>3, UnreadTypes DEF AllTablesPrinted, Goto, settings, readVars, results
<1>4. CASE PrintResource
  BY <1>1, <1>4, UnreadTypes DEF PrintResource, settings, readVars, results
<1>5. CASE NextKind
  BY <1>1, <1>5, UnreadTypes DEF NextKind, settings, readVars, results
<1>6. CASE EndOfOutput
  BY <1>1, <1>6, UnreadTypes DEF EndOfOutput, Goto, settings, readVars, results
<1> QED
  BY <1>2, <1>3, <1>4, <1>5, <1>6

LEMMA NextTypes == DriverTypeOK /\ [Next]_vars => DriverTypeOK'
PROOF
<1> SUFFICES ASSUME DriverTypeOK, [Next]_vars PROVE DriverTypeOK'
  OBVIOUS
<1>1. CASE ChangeWorld
  BY <1>1 DEF ChangeWorld, Change, DriverTypeOK, settings, readVars, results, Source, Ended
<1>2. CASE Finished \/ UNCHANGED vars
  BY <1>2 DEF Finished, vars, readerVars, DriverTypeOK, settings, readVars, results, Source, Ended
<1> QED
  BY <1>1, <1>2, StartTypes, ReadTypes, EmissionTypes, PrintTypes DEF Next, Work

\* Every variable of the stages up to the emission has its type in every
\* reachable state, for any files, clusters and command lines.  (print.go,
\* resource_reader.go)
THEOREM DriverTypeCorrect == Spec => []DriverTypeOK
  BY InitTypes, NextTypes, PTL DEF Spec

(***************************************************************************)
(* Errors                                                                  *)
(***************************************************************************)
\* The strengthening of NothingPrintedOnError: an error is there from ToIR to
\* the tables only, and nothing is written before them.
ErrorPhases == {"emit", "check", "tables", "failed", "panicked"}
Writing     == {"warn", "print", "printed"}

QuietInv ==
  /\ errors => phase \in ErrorPhases
  /\ phase \notin Writing => stdout = <<>> /\ stderr = EmptyMap

LEMMA InitQuiet == Init => QuietInv
  BY DEF Init, ReaderInit, QuietInv, ErrorPhases, Writing

\* A step before the tables that leaves the errors alone.
LEMMA QuietStep ==
  ASSUME QuietInv, phase \notin Writing, phase' \notin Writing,
         UNCHANGED <<errors, stdout, stderr>>, phase \in ErrorPhases => phase' \in ErrorPhases
  PROVE  QuietInv'
  BY DEF QuietInv

LEMMA ReadPhases ==
  ASSUME ReadResources
  PROVE  /\ phase \in {"open", "decode", "expand", "take", "list", "group"}
         /\ phase' \in {"open", "decode", "expand", "take", "list", "group", "emitter", "failed"}
PROOF
<1>1. CASE OpenFile
  BY <1>1 DEF OpenFile, Goto, Fail
<1>2. CASE DecodeDocument
  BY <1>2 DEF DecodeDocument, Goto, Fail
<1>3. CASE EndOfFile \/ AllExpanded \/ AllTaken \/ FromMap \/ StoreServicePorts
  BY <1>3 DEF EndOfFile, AllExpanded, AllTaken, FromMap, StoreServicePorts, Goto
<1>4. CASE ExpandObject
  BY <1>4 DEF ExpandObject, Goto, Fail
<1>5. CASE ListObjects
  BY <1>5 DEF ListObjects, Goto, Fail
<1>6. CASE TakeObject
  BY <1>6 DEF TakeObject, Goto, Fail
<1> QED
  BY <1>1, <1>2, <1>3, <1>4, <1>5, <1>6 DEF ReadResources, Read

LEMMA ReadQuiet == QuietInv /\ ReadResources => QuietInv'
PROOF
<1> SUFFICES ASSUME QuietInv, ReadResources PROVE QuietInv'
  OBVIOUS
<1>1. UNCHANGED <<errors, stdout, stderr>>
  BY DEF ReadResources, results
<1> QED
  BY <1>1, ReadPhases, QuietStep DEF Writing, ErrorPhases

LEMMA NextQuiet == QuietInv /\ [Next]_vars => QuietInv'
PROOF
<1> SUFFICES ASSUME QuietInv, [Next]_vars PROVE QuietInv'
  OBVIOUS
<1>1. CASE ParseFlags \/ InitializeResourcePrinter \/ InitializeNamespaceFilter
             \/ ConnectClient \/ ConstructProviders
  <2>1. /\ UNCHANGED <<errors, stdout, stderr>>
        /\ phase \in {"start", "printer", "filter", "connect", "construct"}
        /\ phase' \in {"printer", "filter", "connect", "construct", "open", "emitter", "failed"}
    BY <1>1 DEF ParseFlags, InitializeResourcePrinter, InitializeNamespaceFilter, ConnectClient,
                ConstructProviders, Goto, Fail, results
  <2> QED
    BY <2>1, QuietStep DEF Writing, ErrorPhases
<1>2. CASE LookUpEmitter
  BY <1>2, QuietStep DEF LookUpEmitter, Goto, results, Writing, ErrorPhases
<1>3. CASE ToIR
  <2>1. /\ phase = "convert" /\ phase' \in {"emit", "panicked"}
        /\ UNCHANGED <<stdout, stderr>>
    BY <1>3 DEF ToIR, Goto
  <2> QED
    BY <2>1 DEF QuietInv, Writing, ErrorPhases
<1>4. CASE Emit
  <2>1. /\ phase = "emit" /\ phase' \in {"check", "panicked"}
        /\ UNCHANGED <<stdout, stderr>>
    BY <1>4 DEF Emit, Goto
  <2> QED
    BY <2>1 DEF QuietInv, Writing, ErrorPhases
<1>5. CASE CheckFeature \/ AllChecked
  BY <1>5, QuietStep DEF CheckFeature, AllChecked, Goto, results, Writing, ErrorPhases
<1>6. CASE CreateNotificationTables
  BY <1>6 DEF CreateNotificationTables, Goto, QuietInv, Writing, ErrorPhases
<1>7. CASE PrintTable \/ AllTablesPrinted \/ PrintResource \/ NextKind \/ EndOfOutput
  <2>1. errors' = errors /\ phase \in Writing /\ phase' \in Writing
    BY <1>7 DEF PrintTable, AllTablesPrinted, PrintResource, NextKind, EndOfOutput, Goto, results,
                Writing
  <2> QED
    BY <2>1 DEF QuietInv, Writing, ErrorPhases
<1>8. CASE ChangeWorld \/ Finished \/ UNCHANGED vars
  <2>1. UNCHANGED <<phase, errors, stdout, stderr>>
    BY <1>8 DEF ChangeWorld, Change, Finished, vars, readerVars, results
  <2> QED
    BY <2>1 DEF QuietInv
<1> QED
  BY <1>1, <1>2, <1>3, <1>4, <1>5, <1>6, <1>7, <1>8, ReadQuiet DEF Next, Work

\* Whatever is in the file or cluster, however often it changes, and whatever
\* the conversion and the emission come to, an error of either has neither
\* resources nor warnings written.
\* (ingress2gateway.go 89-105, print.go 80-102)
THEOREM ErrorsPrintNothing == Spec => []NothingPrintedOnError
PROOF
<1>1. QuietInv => NothingPrintedOnError
  BY DEF QuietInv, NothingPrintedOnError, Writing, ErrorPhases
<1> QED
  BY <1>1, InitQuiet, NextQuiet, PTL DEF Spec

-------------------------------------------------------------------------------

(***************************************************************************)
(* The strengthening of NothingDroppedSilently: from the emission on,      *)
(* every feature is converted, has yet to be checked or has been noted.    *)
(***************************************************************************)
Unconverted == {"start", "printer", "filter", "connect", "construct", "open", "decode", "expand",
                "take", "list", "group", "emitter", "convert"}
AfterEmit   == {"check", "tables", "warn", "print", "printed"}

Noted(notes, note) == \E by \in DOMAIN notes : note \in notes[by]

Accounted(f, key, pending, notes) ==
  \/ f.parsed
  \/ \E c \in pending : c.route = key /\ c.feature = f
  \/ Noted(notes, Warning(f, key))

AllAccounted(http, pending, notes) ==
  \A key \in DOMAIN http : \A f \in http[key] : Accounted(f, key, pending, notes)

AccountedInv ==
  phase \in AfterEmit =>
    /\ AllAccounted(ir.http, unchecked, notifications)
    /\ phase # "check" => unchecked = {}

TablesInv ==
  /\ phase \in Writing =>
       tables = notifications /\ \A by \in DOMAIN stderr : stderr[by] = tables[by]
  /\ phase \in {"print", "printed"} => DOMAIN tables \subseteq DOMAIN stderr

WarningInv ==
  /\ phase \in Unconverted => ir = EmptyIR /\ unchecked = {}
  /\ AccountedInv
  /\ TablesInv

LEMMA InitWarning == Init => WarningInv
  BY DEF Init, ReaderInit, WarningInv, AccountedInv, TablesInv, AfterEmit, Writing

LEMMA DispatchedKeeps ==
  ASSUME NEW by, NEW notes, NEW note, Noted(notifications, note)
  PROVE  Noted(Dispatched(by, notes), note)
PROOF
<1> DEFINE before == IF by \in DOMAIN notifications THEN notifications[by] ELSE {}
           new    == Put(notifications, by, before \union notes)
<1>1. \A b \in DOMAIN notifications : b \in DOMAIN new /\ notifications[b] \subseteq new[b]
  BY DEF Put
<1> HIDE DEF new
<1>2. Noted(new, note)
  BY <1>1 DEF Noted
<1> QED
  BY <1>2 DEF Dispatched, new

LEMMA DispatchedNotes ==
  ASSUME NEW by, NEW note
  PROVE  Noted(Dispatched(by, {note}), note)
PROOF
<1> DEFINE before == IF by \in DOMAIN notifications THEN notifications[by] ELSE {}
           new    == Put(notifications, by, before \union {note})
<1>1. by \in DOMAIN new /\ note \in new[by]
  BY DEF Put
<1> HIDE DEF new
<1>2. Noted(new, note)
  BY <1>1 DEF Noted
<1>3. Dispatched(by, {note}) = new
  BY DEF Dispatched, new
<1> QED
  BY <1>2, <1>3

(***************************************************************************)
(* The steps                                                               *)
(***************************************************************************)
\* Steps before the emission, or to an end without output.
LEMMA WarningStep ==
  ASSUME WarningInv, phase' \notin AfterEmit,
         phase' \in Unconverted => phase \in Unconverted /\ UNCHANGED <<ir, unchecked>>
  PROVE  WarningInv'
  BY DEF WarningInv, AccountedInv, TablesInv, AfterEmit, Writing

LEMMA EmitWarning == WarningInv /\ Emit => WarningInv'
PROOF
<1> SUFFICES ASSUME WarningInv, Emit PROVE WarningInv'
  OBVIOUS
<1>1. phase' \in {"check", "panicked"}
  BY DEF Emit, Goto
<1>2. CASE phase' = "panicked"
  BY <1>2, WarningStep DEF AfterEmit, Unconverted
<1>3. CASE phase' = "check"
  <2>1. unchecked' =
          UNION {{[route |-> key, feature |-> f] : f \in ir'.http[key]} : key \in DOMAIN ir'.http}
    BY <1>3 DEF Emit, Goto
  <2>2. ASSUME NEW key \in DOMAIN ir'.http, NEW f \in ir'.http[key]
        PROVE  \E c \in unchecked' : c.route = key /\ c.feature = f
    <3>1. [route |-> key, feature |-> f] \in unchecked'
      BY <2>1
    <3> QED
      BY <3>1
  <2>3. AllAccounted(ir'.http, unchecked', notifications')
    BY <2>2 DEF AllAccounted, Accounted
  <2> QED
    BY <1>3, <2>3 DEF WarningInv, AccountedInv, TablesInv, Writing, Unconverted
<1> QED
  BY <1>1, <1>2, <1>3

LEMMA CheckWarning == WarningInv /\ CheckFeature => WarningInv'
PROOF
<1> SUFFICES ASSUME WarningInv, CheckFeature PROVE WarningInv'
  OBVIOUS
<1>1. /\ phase = "check" /\ phase' \in {"check", "panicked"}
      /\ UNCHANGED ir
  BY DEF CheckFeature, Goto
<1>2. CASE phase' = "panicked"
  BY <1>2, WarningStep DEF AfterEmit, Unconverted
<1>3. CASE phase' = "check"
  <2>1. PICK c \in unchecked :
          /\ unchecked' = unchecked \ {c}
          /\ \/ c.feature.parsed /\ notifications' = notifications
             \/ notifications' = Dispatched("INGRESS2EG", {Warning(c.feature, c.route)})
    BY <1>3 DEF CheckFeature, Goto, NeedsWarning
  <2>2. ASSUME NEW key \in DOMAIN ir.http, NEW f \in ir.http[key]
        PROVE  Accounted(f, key, unchecked', notifications')
    <3>1. Accounted(f, key, unchecked, notifications)
      BY <1>1 DEF WarningInv, AccountedInv, AllAccounted, AfterEmit
    <3>2. CASE f.parsed
      BY <3>2 DEF Accounted
    <3>3. CASE Noted(notifications, Warning(f, key))
      BY <2>1, <3>3, DispatchedKeeps DEF Accounted
    <3>4. CASE \E d \in unchecked' : d.route = key /\ d.feature = f
      BY <3>4 DEF Accounted
    <3>5. CASE ~f.parsed /\ c.route = key /\ c.feature = f
      <4>1. notifications' = Dispatched("INGRESS2EG", {Warning(f, key)})
        BY <2>1, <3>5
      <4> QED
        BY <4>1, DispatchedNotes DEF Accounted
    <3> QED
      BY <2>1, <3>1, <3>2, <3>3, <3>4, <3>5 DEF Accounted
  <2>3. AllAccounted(ir'.http, unchecked', notifications')
    BY <1>1, <2>2 DEF AllAccounted
  <2> QED
    BY <1>3, <2>3 DEF WarningInv, AccountedInv, TablesInv, Writing, Unconverted
<1> QED
  BY <1>1, <1>2, <1>3

LEMMA TablesWarning ==
  QuietInv /\ WarningInv
    /\ (AllChecked \/ CreateNotificationTables \/ PrintTable \/ AllTablesPrinted
          \/ PrintResource \/ NextKind \/ EndOfOutput) => WarningInv'
PROOF
<1> SUFFICES ASSUME QuietInv, WarningInv,
                    AllChecked \/ CreateNotificationTables \/ PrintTable \/ AllTablesPrinted
                      \/ PrintResource \/ NextKind \/ EndOfOutput
             PROVE  WarningInv'
  OBVIOUS
<1>1. /\ UNCHANGED <<ir, notifications, unchecked>>
      /\ phase \in AfterEmit /\ phase' \notin Unconverted
  BY DEF AllChecked, CreateNotificationTables, PrintTable, AllTablesPrinted, PrintResource, NextKind,
         EndOfOutput, Goto, results, AfterEmit, Unconverted
<1>2. AllAccounted(ir'.http, unchecked', notifications')
  BY <1>1 DEF WarningInv, AccountedInv
<1>3. (phase' # "check" => unchecked' = {}) => AccountedInv'
  BY <1>2 DEF AccountedInv
<1>4. CASE AllChecked
  BY <1>1, <1>3, <1>4 DEF AllChecked, Goto, WarningInv, TablesInv, Writing
<1>5. CASE CreateNotificationTables
  <2>1. /\ phase = "tables" /\ tables' = notifications /\ stderr' = stderr
        /\ phase' \in {"failed", "warn"}
    BY <1>5 DEF CreateNotificationTables, Goto
  <2>2. DOMAIN stderr = {}
    BY <2>1 DEF QuietInv, Writing, EmptyMap
  <2> QED
    BY <1>1, <1>3, <2>1, <2>2 DEF WarningInv, AccountedInv, TablesInv, AfterEmit, Writing
<1>6. CASE PrintTable
  <2>1. PICK by \in DOMAIN tables \ DOMAIN stderr : stderr' = Put(stderr, by, tables[by])
    BY <1>6 DEF PrintTable
  <2>2. phase = "warn" /\ phase' = "warn" /\ tables' = tables
    BY <1>6 DEF PrintTable, results
  <2>3. \A b \in DOMAIN stderr' : stderr'[b] = IF b = by THEN tables[by] ELSE stderr[b]
    BY <2>1 DEF Put
  <2>4. DOMAIN stderr' = DOMAIN stderr \union {by}
    BY <2>1 DEF Put
  <2> QED
    BY <1>1, <1>3, <2>2, <2>3, <2>4 DEF WarningInv, AccountedInv, TablesInv, AfterEmit, Writing
<1>7. CASE AllTablesPrinted
  BY <1>1, <1>3, <1>7
  DEF AllTablesPrinted, Goto, results, WarningInv, AccountedInv, TablesInv, AfterEmit, Writing
<1>8. CASE PrintResource \/ NextKind \/ EndOfOutput
  <2>1. phase = "print" /\ phase' \in {"print", "printed"} /\ UNCHANGED <<tables, stderr>>
    BY <1>8 DEF PrintResource, NextKind, EndOfOutput, Goto, results
  <2> QED
    BY <1>1, <1>3, <2>1 DEF WarningInv, AccountedInv, TablesInv, AfterEmit, Writing
<1> QED
  BY <1>4, <1>5, <1>6, <1>7, <1>8

LEMMA NextWarning == QuietInv /\ WarningInv /\ [Next]_vars => WarningInv'
PROOF
<1> SUFFICES ASSUME QuietInv, WarningInv, [Next]_vars PROVE WarningInv'
  OBVIOUS
<1>1. CASE ParseFlags \/ InitializeResourcePrinter \/ InitializeNamespaceFilter
             \/ ConnectClient \/ ConstructProviders
  <2>1. /\ UNCHANGED <<ir, unchecked>>
        /\ phase \in {"start", "printer", "filter", "connect", "construct"}
        /\ phase' \in {"printer", "filter", "connect", "construct", "open", "emitter", "failed"}
    BY <1>1 DEF ParseFlags, InitializeResourcePrinter, InitializeNamespaceFilter, ConnectClient,
                ConstructProviders, Goto, Fail, results
  <2> QED
    BY <2>1, WarningStep DEF AfterEmit, Unconverted
<1>2. CASE ReadResources
  <2>1. UNCHANGED <<ir, unchecked>>
    BY <1>2 DEF ReadResources, results
  <2> QED
    BY <1>2, <2>1, ReadPhases, WarningStep DEF AfterEmit, Unconverted
<1>3. CASE LookUpEmitter
  <2>1. /\ UNCHANGED <<ir, unchecked, notifications>> /\ phase = "emitter"
        /\ phase' \in {"tables", "convert", "failed"}
    BY <1>3 DEF LookUpEmitter, Goto, results
  <2>2. CASE phase' # "tables"
    BY <2>1, <2>2, WarningStep DEF AfterEmit, Unconverted
  <2>3. CASE phase' = "tables"
    <3>1. ir = EmptyIR /\ unchecked = {}
      BY <2>1 DEF WarningInv, Unconverted
    <3>2. DOMAIN ir.http = {}
      BY <3>1 DEF EmptyIR, EmptyMap
    <3> QED
      BY <2>1, <2>3, <3>1, <3>2
      DEF WarningInv, AccountedInv, AllAccounted, TablesInv, Unconverted, Writing
  <2> QED
    BY <2>2, <2>3
<1>4. CASE ToIR
  <2>1. phase' \in {"emit", "panicked"}
    BY <1>4 DEF ToIR, Goto
  <2> QED
    BY <2>1, WarningStep DEF AfterEmit, Unconverted
<1>5. CASE ChangeWorld \/ Finished \/ UNCHANGED vars
  <2>1. UNCHANGED <<phase, ir, notifications, unchecked, tables, stderr>>
    BY <1>5 DEF ChangeWorld, Change, Finished, vars, readerVars, results
  <2> QED
    BY <2>1 DEF WarningInv, AccountedInv, TablesInv
<1> QED
  BY <1>1, <1>2, <1>3, <1>4, <1>5, EmitWarning, CheckWarning, TablesWarning DEF Next, Work

\* Whatever the conversion and the emission come to, when resources have been
\* printed, every feature of an HTTPRoute is converted or named on stderr, with
\* its route and its Ingress.  (ingress2gateway.go 186-214, print.go 80-102)
THEOREM FeaturesAreAccountedFor == Spec => []NothingDroppedSilently
PROOF
<1>1. WarningInv => NothingDroppedSilently
  <2> SUFFICES ASSUME WarningInv, phase = "printed",
                      NEW key \in DOMAIN ir.http, NEW f \in ir.http[key]
               PROVE  f.parsed \/ Warning(f, key) \in UNION Range(stderr)
    BY DEF NothingDroppedSilently
  <2>1. /\ Accounted(f, key, {}, notifications)
        /\ tables = notifications /\ DOMAIN tables \subseteq DOMAIN stderr
        /\ \A by \in DOMAIN stderr : stderr[by] = tables[by]
    BY DEF WarningInv, AccountedInv, AllAccounted, TablesInv, AfterEmit, Writing
  <2>2. CASE f.parsed
    BY <2>2
  <2>3. CASE Noted(notifications, Warning(f, key))
    <3>1. PICK by \in DOMAIN notifications : Warning(f, key) \in notifications[by]
      BY <2>3 DEF Noted
    <3>2. by \in DOMAIN stderr /\ stderr[by] = notifications[by]
      BY <2>1, <3>1
    <3> QED
      BY <3>1, <3>2 DEF Range
  <2> QED
    BY <2>1, <2>2, <2>3 DEF Accounted
<1> QED
  BY <1>1, InitQuiet, NextQuiet, InitWarning, NextWarning, PTL DEF Spec

-------------------------------------------------------------------------------
(***************************************************************************)
(* The strengthening of IngressesSelected follows the three loops of a     *)
(* reading; n is the loop's index.                                         *)
(***************************************************************************)
DecodedTo(version, ns, unstructured, n) ==
  /\ \A doc \in ToSet(unstructured) : doc \in ToSet(version.docs) /\ Kept(doc, ns)
  /\ \A m \in DOMAIN version.docs :
       m < n /\ Kept(version.docs[m], ns) => version.docs[m] \in ToSet(unstructured)

Extractable(version, ns, obj) ==
  \E doc \in ToSet(version.docs) : Kept(doc, ns) /\ obj \in ToSet(Items(doc))

ExpandedTo(version, ns, unstructured, extracted, n) ==
  /\ \A obj \in ToSet(extracted) : Extractable(version, ns, obj)
  /\ \A m \in DOMAIN unstructured :
       m < n => \A obj \in ToSet(Items(unstructured[m])) : obj \in ToSet(extracted)

Fetched(version, ns, extracted) ==
  /\ \A obj \in ToSet(extracted) : Extractable(version, ns, obj)
  /\ \A doc \in ToSet(version.docs) : Kept(doc, ns) =>
       \A obj \in ToSet(Items(doc)) : obj.kind = "Ingress" => obj \in ToSet(extracted)

IsWanted(obj, cls) == obj.kind = "Ingress" /\ OfClass(obj, cls)

TakenTo(cls, extracted, ingresses, n) ==
  /\ \A nn \in DOMAIN ingresses :
       /\ ingresses[nn] \in ToSet(extracted) /\ IsWanted(ingresses[nn], cls)
       /\ NamespacedName(ingresses[nn]) = nn
  /\ \A m \in DOMAIN extracted :
       m < n /\ IsWanted(extracted[m], cls) => NamespacedName(extracted[m]) \in DOMAIN ingresses

(***************************************************************************)
(* What one turn of a loop adds                                            *)
(***************************************************************************)
LEMMA AppendSet ==
  ASSUME NEW T, NEW s \in Seq(T), NEW e \in T
  PROVE  ToSet(Append(s, e)) = ToSet(s) \union {e}
PROOF
<1> DEFINE t == Append(s, e)
<1>1. /\ DOMAIN s = 1..Len(s) /\ Len(s) \in Nat /\ DOMAIN t = 1..(Len(s) + 1)
      /\ \A n \in 1..Len(s) : t[n] = s[n]
      /\ t[Len(s) + 1] = e
  BY AppendProperties, LenProperties
<1> HIDE DEF t
<1>2. ToSet(t) = ToSet(s) \union {e}
  BY <1>1 DEF ToSet
<1> QED
  BY <1>2 DEF t

LEMMA ConcatSet ==
  ASSUME NEW T, NEW s \in Seq(T), NEW t \in Seq(T)
  PROVE  ToSet(s \o t) = ToSet(s) \union ToSet(t)
PROOF
<1> DEFINE u == s \o t
<1>1. /\ DOMAIN s = 1..Len(s) /\ Len(s) \in Nat /\ DOMAIN t = 1..Len(t) /\ Len(t) \in Nat
      /\ DOMAIN u = 1..(Len(s) + Len(t))
      /\ \A n \in 1..(Len(s) + Len(t)) : u[n] = IF n <= Len(s) THEN s[n] ELSE t[n - Len(s)]
  BY ConcatProperties, LenProperties
<1> HIDE DEF u
<1>2. \A n \in DOMAIN t : t[n] = u[n + Len(s)] /\ n + Len(s) \in DOMAIN u
  BY <1>1
<1>3. \A n \in DOMAIN s : s[n] = u[n] /\ n \in DOMAIN u
  BY <1>1
<1>4. \A n \in DOMAIN u : (n \in DOMAIN s /\ u[n] = s[n]) \/ (n - Len(s) \in DOMAIN t /\ u[n] = t[n - Len(s)])
  BY <1>1
<1>5. ToSet(u) = ToSet(s) \union ToSet(t)
  BY <1>2, <1>3, <1>4 DEF ToSet
<1> QED
  BY <1>5 DEF u

LEMMA DecodeOne ==
  ASSUME NEW version \in Version, NEW ns, NEW old \in Seq(Decoded), NEW new,
         NEW n \in DOMAIN version.docs,
         version.docs[n].kind # "malformed",
         DecodedTo(version, ns, old, n),
         new = IF Kept(version.docs[n], ns) THEN Append(old, version.docs[n]) ELSE old
  PROVE  DecodedTo(version, ns, new, n + 1)
PROOF
<1>1. version.docs \in Seq(Document) /\ DOMAIN version.docs = 1..Len(version.docs)
  BY FileDocs, LenProperties
<1> DEFINE doc == version.docs[n]
<1>2. doc \in Document /\ doc \in ToSet(version.docs)
  BY <1>1 DEF ToSet
<1>3. CASE ~Kept(doc, ns)
  <2>1. new = old
    BY <1>3
  <2> QED
    BY <1>1, <1>3, <2>1 DEF DecodedTo
<1>4. CASE Kept(doc, ns)
  <2>1. doc \in Decoded
    BY <1>2, <1>4 DEF Kept, Decoded
  <2>2. ToSet(new) = ToSet(old) \union {doc}
    BY <1>4, <2>1, AppendSet
  <2> QED
    BY <1>1, <1>2, <1>4, <2>2 DEF DecodedTo
<1> QED
  BY <1>3, <1>4

LEMMA ExpandOne ==
  ASSUME NEW version, NEW ns, NEW unstructured \in Seq(Decoded), NEW old \in Seq(Object), NEW new,
         NEW n \in DOMAIN unstructured,
         unstructured[n] \in ToSet(version.docs), Kept(unstructured[n], ns),
         ExpandedTo(version, ns, unstructured, old, n),
         new = old \o Items(unstructured[n])
  PROVE  ExpandedTo(version, ns, unstructured, new, n + 1)
PROOF
<1>1. DOMAIN unstructured = 1..Len(unstructured) /\ unstructured[n] \in Decoded
  BY LenProperties
<1>2. ToSet(new) = ToSet(old) \union ToSet(Items(unstructured[n]))
  BY <1>1, ItemsAreObjects, ConcatSet
<1>3. \A obj \in ToSet(Items(unstructured[n])) : Extractable(version, ns, obj)
  BY DEF Extractable
<1>4. \A obj \in ToSet(new) : Extractable(version, ns, obj)
  BY <1>2, <1>3 DEF ExpandedTo
<1>5. \A m \in DOMAIN unstructured :
        m < n + 1 => \A obj \in ToSet(Items(unstructured[m])) : obj \in ToSet(new)
  <2> SUFFICES ASSUME NEW m \in DOMAIN unstructured, m < n + 1,
                      NEW obj \in ToSet(Items(unstructured[m]))
               PROVE  obj \in ToSet(new)
    OBVIOUS
  <2>1. m < n => obj \in ToSet(old)
    BY DEF ExpandedTo
  <2>2. m < n \/ m = n
    BY <1>1
  <2> QED
    BY <1>2, <2>1, <2>2
<1> QED
  BY <1>4, <1>5 DEF ExpandedTo

LEMMA AllFetched ==
  ASSUME NEW version, NEW ns, NEW unstructured \in Seq(Decoded), NEW extracted,
         NEW n \in Nat, n > Len(unstructured),
         \A doc \in ToSet(version.docs) : Kept(doc, ns) => doc \in ToSet(unstructured),
         ExpandedTo(version, ns, unstructured, extracted, n)
  PROVE  Fetched(version, ns, extracted)
PROOF
<1>1. DOMAIN unstructured = 1..Len(unstructured) /\ Len(unstructured) \in Nat
  BY LenProperties
<1>2. \A m \in DOMAIN unstructured : \A obj \in ToSet(Items(unstructured[m])) : obj \in ToSet(extracted)
  BY <1>1 DEF ExpandedTo
<1>3. \A doc \in ToSet(unstructured) : \A obj \in ToSet(Items(doc)) : obj \in ToSet(extracted)
  BY <1>2 DEF ToSet
<1> QED
  BY <1>3 DEF ExpandedTo, Fetched

\* The objects of a cluster are none that are taken apart.
LEMMA ListedAreFetched ==
  ASSUME NEW version \in ClusterVersions, NEW extracted \in Orders(Listed(version)),
         reading = "Ingress"
  PROVE  Fetched(version, namespace, extracted)
PROOF
<1>1. ToSet(extracted) = Listed(version)
  BY ListedObjects
<1>2. \A doc \in ToSet(version.docs) : doc.kind \notin {"List", "null"} /\ Items(doc) = <<doc>>
  BY ClusterAssumption DEF ToSet, Items, Object, IngressObject, ServiceObject, OtherObject
<1>3. \A doc \in ToSet(version.docs) : ToSet(Items(doc)) = {doc}
  BY <1>2 DEF ToSet
<1>4. \A doc \in ToSet(version.docs) : Kept(doc, namespace) <=> InNamespace(doc, namespace)
  BY <1>2 DEF Kept
<1>5. \A obj \in Listed(version) : Extractable(version, namespace, obj)
  BY <1>3, <1>4 DEF Listed, Extractable
<1>6. \A doc \in ToSet(version.docs) : Kept(doc, namespace) =>
        \A obj \in ToSet(Items(doc)) : obj.kind = "Ingress" => obj \in Listed(version)
  BY <1>3, <1>4 DEF Listed
<1> QED
  BY <1>1, <1>5, <1>6 DEF Fetched

LEMMA TakeOne ==
  ASSUME NEW cls, NEW extracted \in Seq(Object), NEW old, NEW new, NEW n \in DOMAIN extracted,
         TakenTo(cls, extracted, old, n),
         new = IF IsWanted(extracted[n], cls)
               THEN Put(old, NamespacedName(extracted[n]), extracted[n]) ELSE old
  PROVE  TakenTo(cls, extracted, new, n + 1)
PROOF
<1>1. DOMAIN extracted = 1..Len(extracted) /\ extracted[n] \in ToSet(extracted)
  BY LenProperties DEF ToSet
<1>2. CASE ~IsWanted(extracted[n], cls)
  BY <1>1, <1>2 DEF TakenTo
<1>3. CASE IsWanted(extracted[n], cls)
  <2> DEFINE nn == NamespacedName(extracted[n])
  <2>1. DOMAIN new = DOMAIN old \union {nn} /\ new[nn] = extracted[n]
        /\ \A k \in DOMAIN old : k # nn => new[k] = old[k]
    BY <1>3 DEF Put
  <2> HIDE DEF nn
  <2>2. NamespacedName(extracted[n]) = nn
    BY DEF nn
  <2> QED
    BY <1>1, <1>3, <2>1, <2>2 DEF TakenTo
<1> QED
  BY <1>2, <1>3

LEMMA AllPicked ==
  ASSUME NEW version, NEW ns, NEW cls, NEW extracted \in Seq(Object), NEW ingresses,
         NEW n \in Nat, n > Len(extracted),
         Fetched(version, ns, extracted), TakenTo(cls, extracted, ingresses, n)
  PROVE  Picked(version, ns, cls, ingresses)
PROOF
<1>1. DOMAIN extracted = 1..Len(extracted) /\ Len(extracted) \in Nat
  BY LenProperties
<1>2. \A obj \in ToSet(extracted) : IsWanted(obj, cls) => NamespacedName(obj) \in DOMAIN ingresses
  BY <1>1 DEF TakenTo, ToSet
<1>3. \A document \in ToSet(version.docs) : Kept(document, ns) =>
        \A obj \in Ingresses(document, cls) : NamespacedName(obj) \in DOMAIN ingresses
  BY <1>2 DEF Fetched, Ingresses, IsWanted
<1>4. \A nn \in DOMAIN ingresses : \E document \in ToSet(version.docs) :
        Kept(document, ns) /\ ingresses[nn] \in Ingresses(document, cls)
          /\ NamespacedName(ingresses[nn]) = nn
  BY DEF TakenTo, Fetched, Extractable, Ingresses, IsWanted
<1> QED
  BY <1>3, <1>4 DEF Picked

(***************************************************************************)
(* The invariant                                                           *)
(***************************************************************************)
Before  == {"start", "printer", "filter", "connect", "construct"}
Reading == {"open", "decode", "expand", "take", "list", "group"}
After   == {"emitter", "convert", "emit", "check", "tables", "warn", "print", "printed"}
First   == reading = "Ingress"

NothingSeen   == phase \in Before \/ (phase = "open" /\ First) => seen = <<>>
SomethingSeen == seen = <<>> => First /\ phase \notin Reading \ {"open"}

DecodeInv ==
  phase = "decode" /\ First =>
    /\ docs = seen[1].docs /\ items = <<>> /\ found = EmptyMap
    /\ DecodedTo(seen[1], namespace, objs, i)

ExpandInv ==
  phase = "expand" /\ First =>
    /\ found = EmptyMap
    /\ \A doc \in ToSet(objs) : doc \in ToSet(seen[1].docs) /\ Kept(doc, namespace)
    /\ \A doc \in ToSet(seen[1].docs) : Kept(doc, namespace) => doc \in ToSet(objs)
    /\ ExpandedTo(seen[1], namespace, objs, items, i)

TakeInv ==
  phase = "take" /\ First =>
    Fetched(seen[1], namespace, items) /\ TakenTo(class, items, found, i)

ListInv  == phase = "list" => Picked(seen[1], namespace, class, found)
GroupInv == phase = "group" => ~First

DraftInv ==
  ~First /\ phase \in Reading =>
    DOMAIN draft = {"ingresses", "names", "ports"} /\ Selected(seen[1], namespace, class, draft)

SelectionInv ==
  /\ NothingSeen /\ SomethingSeen
  /\ DecodeInv /\ ExpandInv /\ TakeInv /\ ListInv /\ GroupInv /\ DraftInv
  /\ IngressesSelected

LEMMA InitSelection == Init => SelectionInv
PROOF
<1> SUFFICES ASSUME Init PROVE SelectionInv
  OBVIOUS
<1>1. phase = "start" /\ reading = "Ingress" /\ seen = <<>>
  BY DEF Init, ReaderInit
<1> QED
  BY <1>1 DEF SelectionInv, NothingSeen, SomethingSeen, DecodeInv, ExpandInv, TakeInv, ListInv, GroupInv,
              DraftInv, IngressesSelected, HasRead, First, Before, Reading

\* A step outside of the reading.
LEMMA SelectionStep ==
  ASSUME SelectionInv, phase \notin Reading, UNCHANGED <<config, seen, reading, storage>>,
         phase' \notin Reading \ {"open"},
         \/ /\ phase \in Before /\ phase' \in Before \union {"open", "failed"}
         \/ /\ phase = "construct" /\ phase' = "emitter" /\ config.providers = <<>>
         \/ /\ phase \notin Before /\ phase' \notin Before \union {"open"}
            /\ UNCHANGED <<namespace, class>>
            /\ phase' \in After => phase \in After
  PROVE  SelectionInv'
PROOF
<1>1. NothingSeen' /\ SomethingSeen'
  BY DEF SelectionInv, NothingSeen, SomethingSeen, First, Before, Reading
<1>2. DecodeInv' /\ ExpandInv' /\ TakeInv' /\ ListInv' /\ GroupInv'
  BY DEF DecodeInv, ExpandInv, TakeInv, ListInv, GroupInv, Reading
<1>3. DraftInv'
  BY DEF SelectionInv, NothingSeen, SomethingSeen, DraftInv, First, Before, Reading
<1>4. IngressesSelected'
  BY DEF SelectionInv, IngressesSelected, HasRead, Before, After
<1> QED
  BY <1>1, <1>2, <1>3, <1>4 DEF SelectionInv

\* Ends of a reading, and everything in it that fails.
LEMMA FailedStep ==
  ASSUME SelectionInv, phase \in Reading, phase' = "failed", reading' = reading,
         seen' = seen \/ seen' # <<>>
  PROVE  SelectionInv'
  BY DEF SelectionInv, NothingSeen, SomethingSeen, DecodeInv, ExpandInv, TakeInv, ListInv, GroupInv,
         DraftInv, IngressesSelected, HasRead, First, Before, Reading

\* A step of the second reading.
LEMMA SecondStep ==
  ASSUME SelectionInv, ~First, phase \in Reading, phase' \in Reading \ {"list"},
         UNCHANGED <<namespace, class, reading, draft>>,
         seen # <<>> => seen' # <<>> /\ seen'[1] = seen[1]
  PROVE  SelectionInv'
  BY DEF SelectionInv, NothingSeen, SomethingSeen, DecodeInv, ExpandInv, TakeInv, ListInv, GroupInv,
         DraftInv, IngressesSelected, HasRead, First, Before, Reading

-------------------------------------------------------------------------------
(***************************************************************************)
(* The steps of a reading                                                  *)
(***************************************************************************)
\* The versions seen only get more.
LEMMA SeenGrows ==
  ASSUME NEW T, NEW s \in Seq(T), NEW e \in T
  PROVE  /\ Append(s, e) # <<>>
         /\ s # <<>> => Append(s, e)[1] = s[1]
         /\ s = <<>> => Append(s, e)[1] = e
PROOF
<1>1. Len(s) \in Nat /\ (s # <<>> => Len(s) > 0) /\ (s = <<>> => Len(s) = 0)
  BY EmptySeq, LenProperties
<1> QED
  BY <1>1, AppendProperties

LEMMA NothingDecoded ==
  ASSUME NEW version \in Version, NEW ns
  PROVE  DecodedTo(version, ns, <<>>, 1)
PROOF
<1>1. DOMAIN version.docs = 1..Len(version.docs)
  BY FileDocs, LenProperties
<1> QED
  BY <1>1 DEF DecodedTo, ToSet

LEMMA OpenSelection == DriverTypeOK /\ SelectionInv /\ (OpenFile \/ ListObjects) => SelectionInv'
PROOF
<1> SUFFICES ASSUME DriverTypeOK, SelectionInv, OpenFile \/ ListObjects PROVE SelectionInv'
  OBVIOUS
<1>1. /\ config \in Configs /\ world \in Source /\ world \in Version /\ seen \in Seq(Source)
  BY SourceVersions DEF DriverTypeOK
<1>2. /\ phase = "open" /\ UNCHANGED <<config, namespace, class, reading, draft>>
      /\ seen' = Append(seen, world) /\ found' = EmptyMap
      /\ phase' \in {"decode", "take", "failed"}
  BY DEF OpenFile, ListObjects, Goto, Fail, settings
<1>3. /\ seen' # <<>>
      /\ seen # <<>> => seen'[1] = seen[1]
      /\ seen = <<>> => seen'[1] = world
  BY <1>1, <1>2, SeenGrows
<1>4. CASE phase' = "failed"
  BY <1>2, <1>3, <1>4, FailedStep DEF Reading
<1>5. CASE phase' # "failed" /\ ~First
  BY <1>2, <1>3, <1>5, SecondStep DEF Reading
<1>6. CASE phase' # "failed" /\ First
  <2>1. seen = <<>> /\ seen'[1] = world
    BY <1>2, <1>3, <1>6 DEF SelectionInv, NothingSeen
  <2>2. DecodeInv'
    <3>1. CASE phase' = "decode"
      <4>1. docs' = world.docs /\ items' = <<>> /\ objs' = <<>> /\ i' = 1
        BY <3>1 DEF OpenFile, ListObjects, Goto, Fail
      <4>2. DecodedTo(world, namespace, <<>>, 1)
        BY <1>1, NothingDecoded
      <4> QED
        BY <1>2, <2>1, <4>1, <4>2 DEF DecodeInv
    <3> QED
      BY <3>1 DEF DecodeInv
  <2>3. TakeInv'
    <3>1. CASE phase' = "take"
      <4>1. ~config.file /\ items' \in Orders(Listed(world)) /\ i' = 1
        BY <3>1 DEF OpenFile, ListObjects, Goto, Fail
      <4>2. world \in ClusterVersions
        BY <1>1, <4>1 DEF Source
      <4>3. Fetched(world, namespace, items') /\ items' \in Seq(Object)
        BY <1>6, <4>1, <4>2, ListedAreFetched, ListedObjects DEF First
      <4>4. TakenTo(class, items', EmptyMap, 1)
        <5>1. DOMAIN items' = 1..Len(items')
          BY <4>3, LenProperties
        <5> QED
          BY <5>1 DEF TakenTo, EmptyMap
      <4> QED
        BY <1>2, <2>1, <4>1, <4>3, <4>4 DEF TakeInv
    <3> QED
      BY <3>1 DEF TakeInv
  <2> QED
    BY <1>2, <1>3, <1>6, <2>2, <2>3
    DEF SelectionInv, NothingSeen, SomethingSeen, ExpandInv, ListInv, GroupInv, DraftInv,
        IngressesSelected, HasRead, First, Before, Reading
<1> QED
  BY <1>4, <1>5, <1>6

LEMMA DecodeSelection ==
  DriverTypeOK /\ SelectionInv /\ (DecodeDocument \/ EndOfFile) => SelectionInv'
PROOF
<1> SUFFICES ASSUME DriverTypeOK, SelectionInv, DecodeDocument \/ EndOfFile PROVE SelectionInv'
  OBVIOUS
<1>1. /\ phase = "decode" /\ phase' \in {"decode", "expand", "failed"}
      /\ UNCHANGED <<config, namespace, class, reading, docs, items, found, draft, storage, seen>>
  BY DEF DecodeDocument, EndOfFile, Goto, Fail, settings, readVars
<1>2. /\ config \in Configs /\ seen \in Seq(Source) /\ objs \in Seq(Decoded) /\ docs \in Seq(Document)
      /\ i \in Nat \ {0}
  BY DEF DriverTypeOK
<1>3. CASE phase' = "failed"
  BY <1>1, <1>3, FailedStep DEF Reading
<1>4. CASE phase' # "failed" /\ ~First
  BY <1>1, <1>4, SecondStep DEF Reading
<1>5. CASE phase' # "failed" /\ First
  <2>1. /\ seen # <<>> /\ docs = seen[1].docs /\ items = <<>> /\ found = EmptyMap
        /\ DecodedTo(seen[1], namespace, objs, i)
    BY <1>1, <1>5 DEF SelectionInv, SomethingSeen, DecodeInv, Reading
  <2>2. Len(seen) \in Nat \ {0}
    BY <1>2, <2>1, EmptySeq
  <2>3. seen[1] \in Version
    BY <1>2, <2>2, ElementOfSeq, SourceVersions
  <2>4. DOMAIN docs = 1..Len(docs) /\ Len(docs) \in Nat
    BY <1>2, LenProperties
  <2>5. DecodeInv'
    <3>1. CASE phase' = "decode"
      <4>1. DecodeDocument /\ i \in DOMAIN docs /\ docs[i].kind # "malformed" /\ i' = i + 1
        BY <1>2, <2>4, <3>1 DEF DecodeDocument, EndOfFile, Goto, Fail
      <4>2. objs' = IF Kept(docs[i], namespace) THEN Append(objs, docs[i]) ELSE objs
        BY <4>1 DEF DecodeDocument
      <4>3. DecodedTo(seen[1], namespace, objs', i + 1)
        BY <1>2, <2>1, <2>3, <4>1, <4>2, DecodeOne
      <4> QED
        BY <1>1, <2>1, <4>1, <4>3 DEF DecodeInv
    <3> QED
      BY <3>1 DEF DecodeInv
  <2>6. ExpandInv'
    <3>1. CASE phase' = "expand"
      <4>1. EndOfFile /\ i > Len(docs) /\ i' = 1 /\ objs' = objs
        BY <1>1, <3>1 DEF DecodeDocument, EndOfFile, Goto, Fail, readVars
      <4>2. \A doc \in ToSet(objs) : doc \in ToSet(docs) /\ Kept(doc, namespace)
        BY <2>1 DEF DecodedTo
      <4>3. \A doc \in ToSet(docs) : Kept(doc, namespace) => doc \in ToSet(objs)
        BY <1>2, <2>1, <2>4, <4>1 DEF DecodedTo, ToSet
      <4>4. DOMAIN objs = 1..Len(objs)
        BY <1>2, LenProperties
      <4>5. ExpandedTo(seen[1], namespace, objs, <<>>, 1)
        BY <4>4 DEF ExpandedTo, ToSet
      <4> QED
        BY <1>1, <2>1, <4>1, <4>2, <4>3, <4>5 DEF ExpandInv
    <3> QED
      BY <3>1 DEF ExpandInv
  <2> QED
    BY <1>1, <1>5, <2>1, <2>5, <2>6
    DEF SelectionInv, NothingSeen, SomethingSeen, TakeInv, ListInv, GroupInv, DraftInv,
        IngressesSelected, HasRead, First, Before, Reading
<1> QED
  BY <1>3, <1>4, <1>5

LEMMA ExpandSelection ==
  DriverTypeOK /\ SelectionInv /\ (ExpandObject \/ AllExpanded) => SelectionInv'
PROOF
<1> SUFFICES ASSUME DriverTypeOK, SelectionInv, ExpandObject \/ AllExpanded PROVE SelectionInv'
  OBVIOUS
<1>1. /\ phase = "expand" /\ phase' \in {"expand", "take", "failed"}
      /\ UNCHANGED <<config, namespace, class, reading, docs, objs, found, draft, storage, seen>>
  BY DEF ExpandObject, AllExpanded, Goto, Fail, settings, readVars
<1>2. /\ objs \in Seq(Decoded) /\ items \in Seq(Object) /\ i \in Nat \ {0}
      /\ DOMAIN objs = 1..Len(objs) /\ Len(objs) \in Nat
  BY LenProperties DEF DriverTypeOK
<1>3. CASE phase' = "failed"
  BY <1>1, <1>3, FailedStep DEF Reading
<1>4. CASE phase' # "failed" /\ ~First
  BY <1>1, <1>4, SecondStep DEF Reading
<1>5. CASE phase' # "failed" /\ First
  <2>1. /\ seen # <<>> /\ found = EmptyMap
        /\ \A doc \in ToSet(objs) : doc \in ToSet(seen[1].docs) /\ Kept(doc, namespace)
        /\ \A doc \in ToSet(seen[1].docs) : Kept(doc, namespace) => doc \in ToSet(objs)
        /\ ExpandedTo(seen[1], namespace, objs, items, i)
    BY <1>1, <1>5 DEF SelectionInv, SomethingSeen, ExpandInv, Reading
  <2>2. ExpandInv'
    <3>1. CASE phase' = "expand"
      <4>1. i \in DOMAIN objs /\ i' = i + 1 /\ items' = items \o Items(objs[i])
        BY <1>2, <3>1 DEF ExpandObject, AllExpanded, Goto, Fail
      <4>2. objs[i] \in ToSet(seen[1].docs) /\ Kept(objs[i], namespace)
        BY <2>1, <4>1 DEF ToSet
      <4>3. ExpandedTo(seen[1], namespace, objs, items', i + 1)
        BY <1>2, <2>1, <4>1, <4>2, ExpandOne
      <4> QED
        BY <1>1, <2>1, <4>1, <4>3 DEF ExpandInv
    <3> QED
      BY <3>1 DEF ExpandInv
  <2>3. TakeInv'
    <3>1. CASE phase' = "take"
      <4>1. i > Len(objs) /\ i' = 1 /\ items' = items
        BY <1>1, <3>1 DEF ExpandObject, AllExpanded, Goto, Fail, readVars
      <4>2. Fetched(seen[1], namespace, items)
        BY <1>2, <2>1, <4>1, AllFetched
      <4>3. DOMAIN items = 1..Len(items)
        BY <1>2, LenProperties
      <4>4. TakenTo(class, items, EmptyMap, 1)
        BY <4>3 DEF TakenTo, EmptyMap
      <4> QED
        BY <1>1, <2>1, <4>1, <4>2, <4>4 DEF TakeInv
    <3> QED
      BY <3>1 DEF TakeInv
  <2> QED
    BY <1>1, <1>5, <2>1, <2>2, <2>3
    DEF SelectionInv, NothingSeen, SomethingSeen, DecodeInv, ListInv, GroupInv, DraftInv,
        IngressesSelected, HasRead, First, Before, Reading
<1> QED
  BY <1>3, <1>4, <1>5

LEMMA TakeSelection ==
  DriverTypeOK /\ SelectionInv /\ (TakeObject \/ AllTaken) => SelectionInv'
PROOF
<1> SUFFICES ASSUME DriverTypeOK, SelectionInv, TakeObject \/ AllTaken PROVE SelectionInv'
  OBVIOUS
<1>1. /\ phase = "take" /\ phase' \in {"take", "list", "group", "failed"}
      /\ UNCHANGED <<config, namespace, class, reading, docs, objs, items, draft, storage, seen>>
  BY DEF TakeObject, AllTaken, Goto, Fail, settings, readVars
<1>2. /\ reading \in {"Ingress", "Service"} /\ items \in Seq(Object) /\ i \in Nat \ {0}
      /\ DOMAIN items = 1..Len(items) /\ Len(items) \in Nat
  BY LenProperties DEF DriverTypeOK
<1>3. CASE phase' = "failed"
  BY <1>1, <1>3, FailedStep DEF Reading
<1>4. CASE phase' # "failed" /\ ~First
  <2>1. phase' # "list"
    BY <1>1, <1>2, <1>4 DEF TakeObject, AllTaken, Goto, Fail, First
  <2> QED
    BY <1>1, <1>4, <2>1, SecondStep DEF Reading
<1>5. CASE phase' # "failed" /\ First
  <2>1. /\ seen # <<>> /\ Fetched(seen[1], namespace, items) /\ TakenTo(class, items, found, i)
    BY <1>1, <1>5 DEF SelectionInv, SomethingSeen, TakeInv, Reading
  <2>2. TakeInv'
    <3>1. CASE phase' = "take"
      <4>1. TakeObject /\ i \in DOMAIN items /\ i' = i + 1
        BY <1>2, <3>1 DEF TakeObject, AllTaken, Goto, Fail
      <4>2. found' = IF IsWanted(items[i], class)
                     THEN Put(found, NamespacedName(items[i]), items[i]) ELSE found
        BY <1>5, <3>1, <4>1 DEF TakeObject, Goto, Fail, First, IsWanted, Wanted
      <4>3. TakenTo(class, items, found', i + 1)
        BY <1>2, <2>1, <4>1, <4>2, TakeOne
      <4> QED
        BY <1>1, <2>1, <4>1, <4>3 DEF TakeInv
    <3> QED
      BY <3>1 DEF TakeInv
  <2>3. ListInv'
    <3>1. CASE phase' = "list"
      <4>1. i > Len(items) /\ found' = found
        BY <1>1, <3>1 DEF TakeObject, AllTaken, Goto, Fail, readVars
      <4>2. Picked(seen[1], namespace, class, found)
        BY <1>2, <2>1, <4>1, AllPicked
      <4> QED
        BY <1>1, <4>1, <4>2 DEF ListInv
    <3> QED
      BY <3>1 DEF ListInv
  <2>4. phase' # "group"
    BY <1>1, <1>5 DEF TakeObject, AllTaken, Goto, Fail, First
  <2> QED
    BY <1>1, <1>5, <2>1, <2>2, <2>3, <2>4
    DEF SelectionInv, NothingSeen, SomethingSeen, DecodeInv, ExpandInv, GroupInv, DraftInv,
        IngressesSelected, HasRead, First, Before, Reading
<1> QED
  BY <1>3, <1>4, <1>5

LEMMA FromMapSelection == SelectionInv /\ FromMap => SelectionInv'
PROOF
<1> SUFFICES ASSUME SelectionInv, FromMap PROVE SelectionInv'
  OBVIOUS
<1>1. /\ phase = "list" /\ phase' = "open" /\ reading' = "Service"
      /\ UNCHANGED <<config, namespace, class, found, storage, seen>>
  BY DEF FromMap, Goto, settings
<1>2. PICK names \in SortedNames(DOMAIN found) :
        draft' = [ingresses |-> found, names |-> names, ports |-> draft.ports]
  BY DEF FromMap
<1>3. ToSet(names) = DOMAIN found
  BY <1>2 DEF SortedNames, Orders
<1>4. /\ DOMAIN draft' = {"ingresses", "names", "ports"}
      /\ draft'.ingresses = found /\ draft'.names = names
  BY <1>2
<1>5. seen # <<>> /\ Picked(seen[1], namespace, class, found)
  BY <1>1 DEF SelectionInv, SomethingSeen, ListInv, Reading
<1>6. DraftInv'
  BY <1>1, <1>3, <1>4, <1>5 DEF DraftInv, Selected
<1> QED
  BY <1>1, <1>5, <1>6
  DEF SelectionInv, NothingSeen, SomethingSeen, DecodeInv, ExpandInv, TakeInv, ListInv, GroupInv,
      IngressesSelected, HasRead, First, Before, Reading

LEMMA StoreSelection == SelectionInv /\ StoreServicePorts => SelectionInv'
PROOF
<1> SUFFICES ASSUME SelectionInv, StoreServicePorts PROVE SelectionInv'
  OBVIOUS
<1>1. /\ phase = "group" /\ phase' = "emitter"
      /\ UNCHANGED <<config, namespace, class, reading, seen>>
      /\ draft' = [draft EXCEPT !.ports = GroupServicePortsByPortName(found)] /\ storage' = draft'
  BY DEF StoreServicePorts, Goto, settings
<1>2. /\ ~First /\ seen # <<>> /\ DOMAIN draft = {"ingresses", "names", "ports"}
      /\ Selected(seen[1], namespace, class, draft)
  BY <1>1 DEF SelectionInv, SomethingSeen, GroupInv, DraftInv, Reading
<1>3. storage'.ingresses = draft.ingresses /\ storage'.names = draft.names
  BY <1>1, <1>2
<1>4. IngressesSelected'
  BY <1>1, <1>2, <1>3 DEF IngressesSelected, Selected
<1> QED
  BY <1>1, <1>2, <1>4
  DEF SelectionInv, NothingSeen, SomethingSeen, DecodeInv, ExpandInv, TakeInv, ListInv, GroupInv,
      DraftInv, First, Before, Reading

LEMMA NextSelection == DriverTypeOK /\ SelectionInv /\ [Next]_vars => SelectionInv'
PROOF
<1> SUFFICES ASSUME DriverTypeOK, SelectionInv, [Next]_vars PROVE SelectionInv'
  OBVIOUS
<1>1. CASE ParseFlags \/ InitializeResourcePrinter \/ InitializeNamespaceFilter
             \/ ConnectClient \/ ConstructProviders
  <2>1. /\ UNCHANGED <<config, seen, reading, storage>>
        /\ phase \in Before /\ phase' \in Before \union {"open", "emitter", "failed"}
        /\ phase' = "emitter" => phase = "construct" /\ config.providers = <<>>
    BY <1>1 DEF ParseFlags, InitializeResourcePrinter, InitializeNamespaceFilter, ConnectClient,
                ConstructProviders, Goto, Fail, settings, readVars, Before
  <2> QED
    BY <2>1, SelectionStep DEF Before, Reading
<1>2. CASE ReadResources
  BY <1>2, OpenSelection, DecodeSelection, ExpandSelection, TakeSelection, FromMapSelection,
     StoreSelection DEF ReadResources, Read
<1>3. CASE LookUpEmitter \/ ToIR \/ Emit \/ CheckFeature \/ AllChecked \/ CreateNotificationTables
  <2>1. /\ UNCHANGED <<config, seen, reading, storage, namespace, class>>
        /\ phase \in {"emitter", "convert", "emit", "check", "tables"}
        /\ phase' \in {"tables", "convert", "emit", "check", "warn", "failed", "panicked"}
    <3>1. CASE LookUpEmitter \/ CheckFeature \/ AllChecked \/ CreateNotificationTables
      BY <1>3, <3>1 DEF LookUpEmitter, CheckFeature, AllChecked, CreateNotificationTables, Goto,
                        settings, readVars
    <3>2. CASE ToIR
      BY <3>2 DEF ToIR, Goto, settings, readVars
    <3>3. CASE Emit
      BY <3>3 DEF Emit, Goto, settings, readVars
    <3> QED
      BY <1>3, <3>1, <3>2, <3>3
  <2> QED
    BY <2>1, SelectionStep DEF Before, Reading, After
<1>4. CASE PrintTable \/ AllTablesPrinted \/ PrintResource \/ NextKind \/ EndOfOutput
  <2>1. /\ UNCHANGED <<config, seen, reading, storage, namespace, class>>
        /\ phase \in {"warn", "print"} /\ phase' \in {"warn", "print", "printed"}
    BY <1>4 DEF PrintTable, AllTablesPrinted, PrintResource, NextKind, EndOfOutput, Goto, settings,
                readVars
  <2> QED
    BY <2>1, SelectionStep DEF Before, Reading, After
<1>5. CASE ChangeWorld \/ Finished \/ UNCHANGED vars
  <2>1. UNCHANGED <<phase, i, config, namespace, class, reading, docs, objs, items, found, draft,
                    storage, seen>>
    BY <1>5 DEF ChangeWorld, Change, Finished, vars, readerVars, settings, readVars
  <2> QED
    BY <2>1
    DEF SelectionInv, NothingSeen, SomethingSeen, DecodeInv, ExpandInv, TakeInv, ListInv, GroupInv,
        DraftInv, IngressesSelected, HasRead, First
<1> QED
  BY <1>1, <1>2, <1>3, <1>4, <1>5 DEF Next, Work

\* Whatever is in the file or cluster and however often it changes while it is
\* read, the stored Ingresses are those of the class in the first version read
\* that pass the namespace filter, all of them and no others.
\* (resource_reader.go, storage.go)
THEOREM TheRightIngresses == Spec => []IngressesSelected
PROOF
<1>1. SelectionInv => IngressesSelected
  BY DEF SelectionInv
<1> QED
  BY <1>1, InitTypes, NextTypes, InitSelection, NextSelection, PTL DEF Spec
===============================================================================
