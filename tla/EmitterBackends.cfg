\* Backends of different services with one name.
SPECIFICATION Spec
CONSTANTS
  Alphabet <- MCAlphabet
  EmitterIRs <- MCCollidingIRs
  Quantities <- MCQuantities
INVARIANTS
  RulesKeepTheirBackends
