SPECIFICATION Spec
CONSTANTS
  Alphabet <- MCAlphabet
  ServicePorts <- MCServicePorts
  Inputs <- MCAllInputs
  ImplSpecificOK = TRUE
INVARIANTS
  TypeOK
  SourcesAligned
  RulesMatchSources
  EveryPathOnce
  ListenersCoverRoutes
PROPERTIES
  ImplementsContract
