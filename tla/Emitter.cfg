\* The passes of the Envoy Gateway emitter.
SPECIFICATION Spec
CONSTANTS
  Alphabet <- MCAlphabet
  EmitterIRs <- MCEmitterIRs
  Quantities <- MCQuantities
INVARIANTS
  EmitterTypeOK
  PoliciesMatchFeatures
  EveryFeatureConverted
  RulesKeepTheirBackends
  SecretsGranted
