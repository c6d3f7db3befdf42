# A formal model of ingress2eg

`ingress2eg` reads Kubernetes Ingresses of the class `nginx` and prints Gateway
API and Envoy Gateway resources that do the same.  It is a sequential program:
a pipeline of passes over maps and slices.  What makes it hard to test is not
concurrency within it but

* Go's maps, which are iterated in any order, and `sort.Slice`, which is not
  stable: the output must not depend on either;
* indices: features, filters, backends and listeners are tied together by their
  positions in slices that later passes prepend to, append to, filter and split;
* names: routes, listeners and policies are looked up by names built from
  hosts, which different hosts can share;
* many passes that write to one IR, each on the assumption that the others have
  left it as it was;
* errors: most are collected or reported while the pipeline goes on, and the
  file or cluster it reads, twice, is not its own.

The modules here are TLA+ state machines of the pipeline, checked by TLC on
small sets of Ingresses, with proofs checked by TLAPS where the statement is
worth having for every set of Ingresses.

## Inventory

All paths are below `src/pkg/i2gw`.

| Component | State it keeps | Operations | Correct if | Module |
|---|---|---|---|---|
| Reader and storage (`providers/common/resource_reader.go`, `providers/ingressnginx/resource_reader.go`, `storage.go`) | the Ingresses by namespaced name, a sorted list, named ports | read Ingresses, then Services, from file or cluster, filter by namespace and class, `FromMap`, `List` | the Ingresses of the class and namespace, all and only those, of one version of the file | `Manifests`, `Reader`; `FromMap`'s order also in `Aggregator` |
| Aggregation (`providers/common/converter.go`, `utils.go`) | rule groups by namespace, class and host; routes, listeners | `addIngress`, `toHTTPRoutesAndGateways`, `toHTTPRoute`, `ToIR` | every path once, backends tied to their sources, a listener for every route, a result independent of map order | `Aggregator`, contract `ConversionContract`, `ConversionOutcome` |
| `ToEmitterIR` (`provider_intermediate/conversion.go`) | - | copy of the provider IR | nothing lost | `Features!Init` |
| Feature parsers (`providers/ingressnginx/*.go`) | the emitter IR: routes with features by rule index, Gateways with features by listener index | fourteen passes, `convert` | a feature is what the Ingresses of its rule say, at that rule | `Annotations`, `Features` |
| Route conversions (`ssl-passthrough.go`, `backend_protocol.go`) | TLSRoutes, GRPCRoutes, listeners | two more passes | no backend lost, each in the protocol asked for, listeners that fit | `Conversions` |
| Feature merging (`emitter_intermediate`) | a parsed flag per feature | `MergeExtensionFeature`, `Equals` | merging changes no rule's features | `EmitterIR` |
| Envoy Gateway emitter (`emitters/envoygateway`) | policies and backends by name | fourteen `Emit` passes, sorting | a rule gets what its features ask for and nothing else, its traffic stays what it was, what is not converted is reported | `EnvoyEmitter` |
| Driver (`ingress2gateway.go`, `provider.go`, `emitter.go`) | errors, the IR and the resources | construct, read, convert, emit, check features | output only without errors, a warning for every feature dropped, the same output whatever the map order | `Program`, `Driver`, contract `ProgramContract`, `ProgramOutcome` |
| Notifications (`notifications`) | notifications by who dispatched them | dispatch, tables | each is shown in the end | `Driver` |
| Command line (`src/cmd`) | flags, the namespace filter | flags, filters, printing | a command line that cannot be carried out fails before anything is read | `Driver`; not the version command |

Components call each other in this order and share nothing but the IR that one
hands to the next: reader, aggregation, `ToEmitterIR`, parsers in the order of
`newResourcesToIRConverter`, emitter, driver's checks.  Within the emitter IR
the parsers share routes and Gateways.  Notifications are dispatched by all of
them and shown by the driver.  There are no callbacks, retries, timeouts or
restarts: nothing is persisted.  The one actor besides the program is whoever
writes to the file or cluster between its two readings.  `PROJECT.json` lists, under
`hazards`, the lines where the difficulties above bite.

## Modules

| Module | What it is |
|---|---|
| `Names` | names as sequences of tokens and their order; `NameFromHost`, route and listener names; the order of group keys as the strings the code compares |
| `IngressApi` | Ingresses as records; paths, match keys, backends, TLS entries; what `ToHTTPRouteMatch` and `ToBackendRef` accept and return |
| `Aggregator` | the state machine of `common.ToIR`: one action per loop iteration or phase |
| `ProviderIR` | the provider IR as a function of the set of Ingresses |
| `ProviderProofs` | lemmas about `ProviderIR`, and about the sequences, orders and names in it |
| `ConversionOutcome` | what `ToIR` comes to: that IR, an error or a panic, as a function of the set of Ingresses |
| `ConversionContract` | the abstract specification: one step from the Ingresses to that outcome |
| `AggregatorRefinement` | the refinement mapping; `ImplementsContract` is the contract under it |
| `AggregatorProofs` | theorems about `Aggregator` |
| `OutcomeProofs` | the proof that `Aggregator` implements `ConversionContract` |
| `Annotations` | what each feature parser makes of the annotations of one Ingress |
| `Features` | the state machine of `convert` up to `affinityFeature` |
| `FeatureProofs` | theorems about `Features` |
| `Conversions` | `convert` to its end |
| `ConversionProofs` | theorems about `Conversions` |
| `EmitterIR` | the features of a route or Gateway, when they are equal and when they are merged |
| `EmitterProofs` | theorems about merging and about `EnvoyEmitter` |
| `EnvoyEmitter` | the state machine of `Emitter.Emit` and of the check for features that were not converted |
| `Maps` | partial functions as Go maps: `Put`, `Over`, the empty map, the absent value |
| `Orders` | sorted slices: a finite set as the sequence of its elements in an order |
| `Manifests` | documents of a file and objects of a cluster; what a reading of them amounts to |
| `Reader` | the state machine of both readings, and of a file or cluster that changes |
| `Program` | what the stages hand each other; the conversion and the emission as parameters, with all the results they can come to |
| `Driver` | the state machine of the `print` command, composed of the reader and the later stages |
| `ProgramOutcome` | the outcomes as a function of the command line, of the versions read and of the results of conversion and emission |
| `ProgramContract` | the abstract specification of `Driver`: up to two readings, then one step to an outcome |
| `DriverRefinement` | the refinement mapping (`ImplementsProgram`) and the properties of `Driver` |
| `DriverProofs`, `ProgramProofs` | theorems about `Driver`; the second proves the refinement |
| `MCAggregator`, `MCIngresses`, `MCFeatures`, `MCConversions`, `MCEmitter`, `MCDriver` | the sets of Ingresses, annotations, emitter IRs, files, clusters and command lines for TLC |
| `MCProgram` | the conversion and the emission that the driver runs with under TLC |

### Correspondence to the code

**Names and strings.**  A name is a sequence of tokens, so that a host
`<<"b", ".", "c">>` and `<<"b", "-", "c">>` have the same `NameFromHost`, as in
the code, and strings can be compared.  `Alphabet` gives the order of tokens.
Rules, paths and indices are counted from 1.  An optional value is a sequence of
length 0 or 1.

**Aggregator.**  The program counter `pc` names the loop that runs.  Iteration
over a Go map takes any remaining element; `FromMap` takes any list that is
sorted by name, which is all an unstable sort ensures.  `ToIR` returns an empty
IR when there are errors, so `AfterGateways` discards what was built.  A rule
without `http` and an unknown path type stop the machine in the state
`"panicked"`: the code dereferences nil or panics there.

**Features.**  All parsers have one shape: for each rule group (in any order),
look the route up by the group's name, and for every source of every rule of the
*provider* IR write something at the same index of the *emitter* IR.
`VisitGroup`, `NextRule`, `FinishGroup` and `NextParser` are this shape,
parametrised by the parsers that have it; `ParseFeature` is the body for one
source of the eleven parsers that only write one feature, with the operators of
`Annotations`; `ParseCanaryRule`/`FinishCanary`, `ParseAuth`, `ParseHeaders` and
`FinishRedirect` are the others.  A feature is the set of fields that have been
assigned and the source; `getOrCreate...` followed by assignments is `Written`.
`canaryFeature` takes a whole rule per step: within it only local variables
change until the weights are set.  A rule of the model remembers the provider
rule it stands for (`from`), which the code does not: properties need it.

**Conversions.**  `LookForPassthrough`/`FinishPassthrough` are
`sslPassthroughFeature`, which replaces a route and a listener;
`CollectRule`/`FinishProtocol` are `backendProtocolFeature`.  The order of
`UnsortedList` is any order.

**EnvoyEmitter.**  `Passes` is the order of the loops of `ToGatewayResources`,
`ToEnvoyGatewayResources`, `sortGatewayResources` and
`checkConvertExtensionFeatures`.  A pass visits the keys of a map in any order
(`VisitResource` merges the feature there, with any of the equal IRs kept) and
then the indices of the feature in any order.  `EmitPolicy` is the body of the
nine passes that put a setting into a policy of `getOrBuild...`; what the
setting is, and which of the three kinds of policy it goes to, are `Setting` and
`KindOfPolicy`.  The other passes have actions of their own.  The routes of the
IR and of the output share their rules, as slices do in the code, so that one
variable, `resources`, holds both; `ir` keeps what was loaded, for the
properties.  The parsed flag is the set of the pointers that have it, because a
route and a GRPCRoute that come from one rule share an IR.  A URL is the record
that `url.Parse` returns.  An index out of range, a nil source or port and a
size that is no quantity stop the machine in `Panicked`.

**Reader.**  `phase` names the loop that runs: `DecodeDocument` over the
documents of the file, `ExpandObject` over what passed the namespace filter,
`TakeObject` over what came out of Lists.  A cluster is asked for the objects of
a kind in one call (`ListObjects`), in any order.  The whole sequence runs
once for Ingresses and once for Services, and each time `OpenFile` or
`ListObjects` takes the version that is there *then*: `Change` may have replaced
it, so the ports by which named ports are resolved can be those of another
version than the Ingresses are.  `seen` is a history of the versions read.

**Driver.**  One action per stage of `runE` and `ToGatewayAPIResources`, and one
per iteration of the loops that print or check.  The code of the driver knows a
provider and an emitter by their interfaces only, and so does the model: `ToIR`
takes any of the results in `Conversions(ingresses, ports)`, `Emit` any of those in
`Emissions(emitter, ir)`.  A result is a panic, or an IR with errors,
notifications and, from the emitter, resources.  Both are parameters, about which
nothing is assumed: what the theorems about the driver say holds whichever
annotations a parser drops, reports or moves, and whichever features the emitter
converts.  What the conversion and the emission of this repository really do is
the matter of `Aggregator`, `Features`, `Conversions` and `EnvoyEmitter`.  Of the
IR the driver looks at the features of HTTPRoutes, and at their kind, their
source and whether they are parsed.  `errors` is whether `errs` is not empty, and
an error changes the course of the program only where the code looks at it, in
`CreateNotificationTables`.

`MCProgram` gives the parameters their values for TLC: routes, errors and panics
of the aggregation are those of `ProviderIR`, and of the annotations there is one
kind for everything that can become of one (see its header).  It has the error of
`canary.go:171-178` for two Ingresses of one path when neither is a canary, the
routes that become TLSRoutes or GRPCRoutes and lose their features, and the
parsers that drop a value or leave a feature without its source.

Left out of `Driver`: wording and layout; an error of the printer itself and the
annotation with the generator's name; the mutex of the notifications, as there is
one goroutine.  The extensions of a route are one resource in `MCProgram`.  A List
within a List is left out of the inputs, as an API server makes none.

**Values of annotations** are short sequences of tokens; `Numerals` says which
tokens `strconv` reads as numbers.  What is copied verbatim stays verbatim;
lists are not split and durations not parsed, as no property depends on it.

## Runs

| Run | Shows |
|---|---|
| `aggregator` | `ToIR` on Ingresses that convert and on such as do not: `SourcesAligned`, `RulesMatchSources`, `EveryPathOnce`, `ListenersCoverRoutes`, and that it implements the contract: an error or a panic exactly when the contract says so, never half an IR |
| `features` | the parsers with every annotation but header canaries; canaries by weight and header; and canaries by header with header filters and app-root: features are at rules of their Ingress, are what the last source wrote, header filters are added once (`FiltersOnce`), client certificates are at HTTPS listeners; no rule is lost, and traffic is divided as asked or there is an error |
| `features_header` (violation) | header rules shift all others, so later features are at other Ingresses' rules |
| `conversions` | every backend is in a route of the protocol it asked for; a TLSRoute has its listener, and other hosts keep theirs |
| `conversions_split` (violation) | features of an HTTPRoute that lost rules to a GRPCRoute are at other rules |
| `conversions_mtls` (violation) | client certificates are at other listeners once TLS passthrough has replaced one |
| `emitter` | all passes on one to three routes, a Gateway and a GRPCRoute: policies and filters are what the rules' features ask for, merged or not (`PoliciesMatchFeatures`), every feature is converted or reported (`EveryFeatureConverted`), traffic keeps its weights, ports and TLS settings (`RulesKeepTheirBackends`), secrets of other namespaces are granted (`SecretsGranted`) |
| `emitter_regex` (violation) | two rules with regular expressions and rewrites match the same requests afterwards |
| `emitter_backends` (violation) | Backends of two ports, or of an HTTPRoute and its GRPCRoute, are one |
| `emitter_policies` (violation) | the policy of a route and that of a rule of another route are one |
| `driver` | the whole command, on files and clusters that change between the readings: the right Ingresses are stored (`IngressesSelected`), no feature of the IR is lost without a word (`NothingDroppedSilently`), nothing is printed after an error (`NothingPrintedOnError`), it ends (`Terminates`), every notification is shown (`EveryWarningShown`), and its outcome is one that the contract allows (`ImplementsProgram`) |
| `driver_list` (violation) | with `-n`, a List in a file is dropped with every Ingress of that namespace in it |

The seven violations are disagreements between the code and what it says of
itself; `PROJECT.json` quotes what it says, and where, under `findings`.

**Bounds.**  One to three Ingresses with at most two rules, two paths and two
hosts, because every interaction above needs two Ingresses that share a path,
two groups that share a route, a Gateway or a rule, or two rules in one route;
a third Ingress is there where a rule may have two productions or two canaries.
Inputs include hosts without a name, with a wildcard, with colliding names and
with the name of a default backend, Ingresses without a class, with a default
backend, with one, two or no TLS entry.  The sets of annotations take every
branch of every parser for either of two sources of a rule.  The IRs of
`emitter` are bundles of features for each of two rules, chosen so that every
pass meets equal and different IRs, and each error and panic; they are not the
ones that the other modules end with, but have their shape: rules have a name
and a path, features are at indices of rules unless a run is about what happens
otherwise, and Backends of one service with two ports are kept to rules without
backend TLS in `emitter`, since `emitter_backends` shows what becomes of them.
Names of routes do not run into each other there, since `emitter_policies` shows
what happens then; and no two Gateways of one name, in two namespaces, have their
secrets in a third, where they would share a grant.

The files of `driver` have up to four documents: every kind of document, an
Ingress twice, two Ingresses of one rule with and without a canary, of two
namespaces and of two classes, named ports, a default backend, and every kind of
annotation of `MCProgram`, alone and next to others; its
command lines take every branch before the reading, for a file and for a
cluster.  `MaxChanges = 1` bounds how often the file or cluster changes: one
change, at any moment and to any other version, is what it takes for the second
reading to differ from the first, or for a reading to be overtaken while it is
under way; there is no third reading.  This is the only counter: every loop is
over a finite slice.

**Deadlock** is checked: a machine stutters when it has ended.

**Fairness.**  `Driver` assumes that the program goes on while it can:
`WF_vars(Work)`, and `[]<>(phase # "convert")`, which is what weak fairness of
`ToIR` comes to (the action is enabled throughout its phase and leaves it; TLC
would evaluate the whole conversion again to find it enabled).  The code
justifies both: it is one goroutine that waits for nothing but system calls, and
its loops, those of the conversion and the emission among them, do not extend what
they go over.  (`MCConversions` and `MCEmissions` always have a result.)  Nothing is assumed of `ChangeWorld`:
nobody has to write, or stop writing.  `Terminates` and `EveryWarningShown`
depend on it.  The other machines claim no liveness, and the contracts are safety
properties.

## Proofs

For every set of Ingresses, all ports, names and alphabets that satisfy the
assumptions (`Inputs` is a set of sets of well-formed Ingresses; the alphabet
has the tokens that the code itself puts into names, and `"/"`):

* `AggregatorProofs!TypeCorrect`: `Spec => []TypeOK`.  `TypeOK` is inductive;
  the proof has one step per action.
* `AggregatorProofs!SourcesStayAligned`: `Spec => []SourcesAligned`: the j-th
  backend of the i-th rule is what `ToBackendRef` makes of the j-th source.  The
  invariant speaks of finished routes, so the induction needs the same of the
  rule and the route under construction.
* `AggregatorProofs!RulesKeepMatching`: `Spec => []RulesMatchSources`: a rule
  matches what each of its sources matches, and the sources belong to the
  route's group.
* `AggregatorProofs!PathsBecomeBackendsOnce`: `Spec => []EveryPathOnce`.  A path is
  handed on from its rule to the rule's group, from there to the paths of its match
  key, and from there to the sources of a rule of the group's route.  `OnceInv` is
  that each of these lists has the path exactly when the loop that fills the list
  has been there, and then once; that without errors a route takes over every list
  as it is; and that the routes built so far have exactly what is finished.
* `AggregatorProofs!RoutesFindListeners`: `Spec => []ListenersCoverRoutes`: an
  HTTPRoute with a hostname finds its listeners.  `ListenersInv` follows the
  three stages: a group has the TLS entries of every Ingress that contributed to
  it up to the rule being added; every visited group has its listeners pending at
  its Gateway, and every pending listener comes from a group; a Gateway that was
  made has every listener up to the running index.
* `OutcomeProofs!ImplementsTheContract`: `NamespacesAreNames` implies
  `Spec => ImplementsContract`, that the aggregation implements
  `ConversionContract`: whatever the order of map iteration and whatever the
  unstable sort does with namesakes, it ends with what `ConversionOutcome` says.
  The hypothesis is that no namespace has a slash.  The API server sees to that in
  a cluster, and nobody in a file; it is also where the model ends, since the code
  takes the string of a group's key for the key.  A class is an annotation and may
  have a slash; that the conversion then fails is part of the proof.
  `OutcomeInv` says how far the data have become the outcome:
  - `ListInv`, `GatheredInv`: the list is sorted, and each group has its rules in
    the order of the list, the name of the first, and the TLS entries of all;
  - `PathsInOrder`, `RouteNamed`: the paths of a group are under their match keys
    in order, so that a finished route is the route of its group;
  - `CheckedInv`: what is behind the loops has no fault unless an error was
    reported, and every error or panic is one that `ConversionOutcome` foresees;
  - `OrderInv`: routes, listeners, and the listeners of each Gateway are in the
    order in which the groups are visited, that of their keys;
  - `IndexInv`: of the routes of one name the index has the last.

  What ends the argument are two lemmas: a list that goes through a set in an
  order is the set `Ordered` (`OrderedIs`), and different keys without slashes
  have different strings (`KeyStringsTell`).  Before it was proved, TLC found
  `OutcomeInv` to hold in 144 000 of the 148 000 states of `aggregator`, in the time
  it had, and `NamespacesAreNames` holds of all its Ingresses.
* `EmitterProofs!MergingKeepsFeatures`: for any route and any features at
  indices of its rules, of which others may be merged already,
  `MergeExtensionFeature` leaves every rule with the fields it had, of this
  feature and of all others, whichever IR it keeps.  The argument is a count: as
  many indices as rules, all of them rules', are all the rules.  Where features
  are at indices that are no longer rules' the premise fails, which
  `conversions_split` shows to happen.

For every such set of Ingresses and every assignment of annotations to them, the
feature parsers (`Features`):

* `FeatureProofs!RulesAreKept`: `Spec => []RulesKept`.  `KeptInv` says of every
  route that its rules are some rules for canary headers, then the rules of the
  provider IR with their backends in order, then perhaps the one for app-root;
  and of the canary parser in the middle of a group that what it has collected
  so far are rules for headers.
* `FeatureProofs!FeatureTypes`: `Spec => []TypeOK`, with `FeaturesInv` for the
  shape of features.  Weights are differences; that they are natural numbers is
  in `KeptInv`, by cases of what `canary.go` does with a total and its parts.
* `FeatureProofs!FeaturesStayAtTheirRules`:
  `Spec => [](NoHeaderCanaries => FeaturesAtTheirRules)`.  The premise speaks of
  the annotations; `features_header` shows that without it the statement is
  false.  With it `PlacedInv` holds: no rule is ever put in front, so the index
  in the provider IR that a parser counts with is the index it writes to.
* `FeatureProofs!LastSourceWins`: `Spec => []FeaturesAreLastWritten`.  Several
  groups may name one route, and then the route is written once for each.  A
  *cell* is what a feature at one index holds of one field; `WrittenInv` gives
  every cell of the running parser its course: before the first visit it is as it
  was, during a visit it is what the last source *seen* assigns, or, if none has
  yet and the route was visited before, what the last of all does; afterwards it
  is the latter.  A second visit changes nothing in the end.
* `FeatureProofs!CertificatesAtTheirListeners`: `Spec => []ListenerFeaturesAtHTTPS`.
  `ListenerInv` needs that no parser changes host, namespace and parents of a
  route, nor the listeners.
* `FeatureProofs!FiltersAddedOnce`: `Spec => []FiltersOnce`.  The parser of headers
  goes by the index that a rule has in the provider IR, as all do, so that behind
  rules for header canaries the rule at that index is another one: which source's
  rule has the filter is then the question of `features_header`, and the total is
  what can be said.  `FiltersInv` are the same courses, of the filters at an index
  of the provider IR; `BareInv` and `OthersBare`: rules start without filters, no
  earlier parser adds one of these types, and rules at other indices never get one;
  `SameTotal` adds up.  Where no rule is for headers, `FrontInv` says that none was
  put in front, so that the index is that of the source's own rule.
* `FeatureProofs!CanariesGetTheirTraffic`: `Spec => []CanaryTraffic`.  `CanaryInv`
  is the course of a route through `canaryFeature`.  Until a visit it is as it was
  converted.  In its first visit the rules before the running index are *divided*
  (the canary has its weight, one other backend the rest), and what they need in
  front of them is among the new rules; at its end it is divided behind the rules
  for headers.  If another group names the same route, the second visit changes
  nothing: behind rules in front, the first canary it comes to finds a rule with
  fewer backends than there are sources, and the program panics; without such rules
  the same weights are written again.  No later parser changes a rule's path,
  headers or backends, so what holds of the divided route (`Traffic`) stays.

and the conversions of whole routes (`Conversions`), which run after them and
where the invariants above hold until `backendProtocolFeature` takes rules away:

* `ConversionProofs!ConversionTypes`: `ConversionSpec => []ConversionTypeOK`.
  `ConversionInv` says where a route is: in one of the three maps, or in those of
  HTTPRoutes and GRPCRoutes both, and what is left of its rules.
* `ConversionProofs!ListenersOfOthersStay`: `ConversionSpec => []OtherListenersKept`.
* `ConversionProofs!PassedThroughIsReachable`:
  `ConversionSpec => [](NamedDefaultsHaveGateways => PassthroughReachable)`.
  `AttachInv` follows the listeners of every Gateway: a TLS listener of a host is
  there exactly once, whichever of the routes of that host made it, and no other
  for the host is left.  The premise excludes a default backend whose route has
  the name of a rule group while no rule of its class has made a Gateway: such a
  route refers to a Gateway that is not there before any parser runs
  (`converter.go:256`, among the hazards).
* `ConversionProofs!ProtocolsAreKept`:
  `ConversionSpec => [](NoHeaderCanaries => BackendsKeepProtocol)`.
  `ProtocolInv` is the phase of every route: all its rules are in place until the
  first of the two parsers has visited it; in the visit, the flag, or the two
  lists of indices, say what the sources seen so far ask for; after it, the maps
  say what all of them ask for.

For every set of emitter IRs that have the shape of the code's
(`EmitterIRsAssumption`):

* `EmitterProofs!PoliciesMatch`: `Spec => [](PolicyNamesApart /\ SectionsNamed =>
  PoliciesMatchFeatures)`.  The premises speak of the IR that was loaded: no two
  policies get one name (`emitter_policies` shows what happens when they do), and
  a rule or listener with features has a name of its own.  All 112 IRs of
  `emitter` have both.  `EmitterInv` has three parts.  The loops: what is still to
  be converted are indices of the resource that was visited.  The resources: until
  they are sorted, sections keep their names, and every rule asks for what it
  asked for when it was loaded, since a feature is merged once, at its own visit.
  The policies: each belongs to one resource and index, and each of its settings
  was made by a pass that is done with that index, so that a pass finds none of
  its own when it writes.
* `EmitterProofs!EmitterTypesHold`: `Spec => [](NoBackendsLoaded => EmitterTypeOK)`.
  The premise, which only the last conjunct needs, is that the emitter alone makes
  references to Backends, as in the code.  `RulesInv` is that every rule is there,
  with its shape, under some index (its own until the output is sorted);
  `RulesStep` says what any step does to the rules of a route: each is kept, moved
  or changed in ways that take no filter away, no regular expression, and no
  reference to a Backend, and that only make a reference to a Backend that is
  built in the same step.
* `EmitterProofs!EveryFeatureIsConverted`: `Spec => [](PolicyNamesApart /\ IdsApart =>
  EveryFeatureConverted)`.  Without names apart a policy may be overwritten; the
  second premise is that two features of one resource are two IRs, as every parser
  makes its own.  `AnsweredInv`: what a resource has been visited for is answered
  for every rule (by a setting of a policy that covers it, by its rule, or by a
  report), or still due in the visit that is going on.  That an index left out
  because its IR is parsed already is never due needs `ParsedInv` (an IR counts as
  parsed only when the pass of its feature is done with it) and `IdsInv` (merging
  leaves IRs apart); that what was answered stays so needs `SettingsStay` (no
  setting of a policy is made twice) and `RulesStep`; and that a visit finds an
  index for every rule needs that merging keeps what rules ask for.
* `EmitterProofs!SecretsAreGranted`: `Spec => [](GrantNamesApart => SecretsGranted)`.
  A grant is named after a policy and is put into one map for all namespaces, so
  that of two namesake Gateways with secrets in one third namespace the second
  takes the grant of the first (`auth.go:86`, among the hazards); the premise
  excludes that and nothing else.  Policies may share names here: the invariant
  follows every secret of a policy, and every grant, back to a feature of a Gateway.
* `EmitterProofs!BackendsAreKept`: `Spec => [](AllInRange /\ NoBackendsLoaded /\
  IdsApart /\ BackendsApart /\ WeightsAlike => RulesKeepTheirBackends)`.  A sum of
  weights is the number of its *units*, the pairs of a place and a number up to the
  weight there (`SumCountsUnits`); bijections of units then show that neither a new
  order nor new names change a sum (`SameWeights`), and the joining of duplicates
  replaces the units of several places by as many of one (`DuplicatesJoined`).
  `TrafficInv` is that every reference of a rule leads to a destination of the rule
  as it was loaded, as a Service or as a Backend built for it, and that the weights
  that lead to each add up to what they did.  It is kept because a pass finds the
  references it moves as they were loaded (`MovedInv`), at the index the rule asks
  with (`MergedInv`), and every Backend was built for references that ask for it
  (`BuiltInv`), hence not for others (`BackendsApart`).  `LaidDownInv` is that at the
  end nothing that was asked for is left undone.  Two premises are real limits of
  the code: `BackendsApart` excludes the Backends that `emitter_backends` shows to
  be shared, and `WeightsAlike` a reference without a weight before one to the same
  port that has a weight, whose weight `utils.go:64` drops.  Of the 112 IRs of
  `emitter` all but seven have the five premises; these seven have a feature at an
  index that is no rule's, to make the emitter panic.

For every set of files, clusters and command lines, any conversion and emission,
and any number of changes (`FileAssumption`, `ClusterAssumption`,
`ConfigsAssumption`):

* `DriverProofs!DriverTypeCorrect`: `Spec => []DriverTypeOK`.
* `DriverProofs!ErrorsPrintNothing`: `Spec => []NothingPrintedOnError`: an error of
  the conversion or of the emission, whatever it is about, has neither resources nor
  warnings written.  The strengthening `QuietInv` is that before the tables are
  created nothing is written, and that errors are only made in the phases before
  that.
* `DriverProofs!TheRightIngresses`: `Spec => []IngressesSelected`.
  `SelectionInv` follows the three loops: what was decoded so far is what passed
  the filter among the documents so far; what was expanded, the items of those;
  what was found, the Ingresses of the class among those; and the draft, and
  then the storage, keep it through the second reading.
* `DriverProofs!FeaturesAreAccountedFor`: `Spec => []NothingDroppedSilently`.
  `WarningInv` is that from the emission on every feature of the IR is parsed, or
  still to be checked, or named among the notifications, and then the tables, and
  then on stderr.  That an annotation becomes a feature at all is not the driver's
  to promise, and is not always so: `auth.go:107` is among the hazards.

* `ProgramProofs!ImplementsTheProgram`: `Spec => ImplementsProgram`, that the
  driver implements `ProgramContract`: its initial states are the contract's, and
  every step is one of the contract's or changes nothing it can see.  The
  invariant that this needs says of each stage how its data are made of the
  versions read.  `ReadInv` (up to the storage): the objects decoded, expanded and
  taken so far are at *places* of the version, in their order and without a gap
  (`pos` and `at` are the witnesses), so that the map has the last object of every
  name, as `ByName` says, and a failing step is one that `ReadFails` foresaw.  The
  order of places matters for a file only: in a cluster a name is there once.
  `OutputInv` (from there on): the IR, the errors and the notifications so far are
  those of a result of each stage that was taken, and of the features checked so
  far; when all are checked the outcome is settled (`SettledInv`), and what is left
  to do is to write it.
  `ReadInv` and `OutputInv` were invariants of `driver` for TLC before they were
  proved.

Only model-checked: liveness (`Terminates`, `EveryWarningShown`), which is out of
the prover's reach.  Of everything else that a passing run checks there is a
theorem: every invariant and both refinements.  Where a theorem has a premise, it
is named above with the part of the inputs it leaves out.

## Not modelled, and the plan

* Labels, statuses, wording of notifications, and in the modules before the
  emitter the names of rules: no property depends on them.
* The resources that the emitter passes on unchanged (TLSRoutes and others), and
  the order in which policies are appended to the output.
* Two resources that share an IR (a GRPCRoute and the HTTPRoute it was split
  from) are left out of `EveryFeatureConverted` and `RulesKeepTheirBackends`:
  the second counts as parsed, by `AlreadyParsed`, before it is visited.
* `RemoveGRPCRulesFromHTTPRoute`, `CreateBackendTLSPolicy`, `MergeIRs` are not
  called by the program.
* In `NothingDroppedSilently`, what never becomes a feature of an HTTPRoute of the
  IR, or does not stay one: what a parser skips (`auth.go:66-78`, `102-117`) and
  what was asked for at a route that becomes a TLSRoute or a GRPCRoute.  The route
  of a default backend is never visited by a parser, so it has no features.
* The version command, the variable that names the kubeconfig, and the bytes of
  the output.

Next: the parameters of `Program` given by the detailed stages, `Conversions` by the
runs of `Aggregator`, `Features` and `Conversions` one after the other and
`Emissions` by `EnvoyEmitter`, so that the driver is composed with the machines
themselves; and rules that two groups of one route visit, for gRPC.
