\* Two routes whose names differ by the index of a rule.
SPECIFICATION Spec
CONSTANTS
  Alphabet <- MCAlphabet
  EmitterIRs <- MCNamesakeIRs
  Quantities <- MCQuantities
INVARIANTS
  PoliciesMatchFeatures
