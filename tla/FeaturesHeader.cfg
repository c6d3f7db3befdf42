SPECIFICATION Spec
CONSTANTS
  Alphabet <- MCAlphabet
  ServicePorts <- MCNoPorts
  Inputs <- MCHeaderInputs
  ImplSpecificOK = TRUE
  Numerals <- MCNumerals
  AnnotationSets <- MCHeaderSets
INVARIANTS
  FeaturesAtTheirRules
