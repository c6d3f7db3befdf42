\* Rules with regular expressions and rewrites.
SPECIFICATION Spec
CONSTANTS
  Alphabet <- MCAlphabet
  EmitterIRs <- MCRegexIRs
  Quantities <- MCQuantities
INVARIANTS
  RulesStayDistinct
