SPECIFICATION ConversionSpec
CONSTANTS
  Alphabet <- MCAlphabet
  ServicePorts <- MCNoPorts
  Inputs <- MCMTLSInputs
  ImplSpecificOK = TRUE
  Numerals <- MCNumerals
  AnnotationSets <- MCMTLSSets
INVARIANTS
  ListenerFeaturesAtHTTPS
