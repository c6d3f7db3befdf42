SPECIFICATION ConversionSpec
CONSTANTS
  Alphabet <- MCAlphabet
  ServicePorts <- MCNoPorts
  Inputs <- MCConversionInputs
  ImplSpecificOK = TRUE
  Numerals <- MCNumerals
  AnnotationSets <- MCConversionSets
INVARIANTS
  ConversionTypeOK
  BackendsKeepProtocol
  PassthroughReachable
  OtherListenersKept
