SPECIFICATION ConversionSpec
CONSTANTS
  Alphabet <- MCAlphabet
  ServicePorts <- MCNoPorts
  Inputs <- MCSplitInputs
  ImplSpecificOK = TRUE
  Numerals <- MCNumerals
  AnnotationSets <- MCSplitSets
INVARIANTS
  FeaturesAtTheirRules
