SPECIFICATION Spec
CONSTANTS
  Alphabet <- MCAlphabet
  ServicePorts <- MCNoPorts
  Inputs <- MCInputs
  ImplSpecificOK = TRUE
  Numerals <- MCNumerals
  AnnotationSets <- MCAnnotationSets
INVARIANTS
  TypeOK
  FeaturesAtTheirRules
  ListenerFeaturesAtHTTPS
  FeaturesAreLastWritten
  FiltersOnce
  RulesKept
  CanaryTraffic
