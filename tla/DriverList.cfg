SPECIFICATION Spec
CONSTANTS
  Alphabet <- MCAlphabet
  FileVersions <- MCFileVersions
  ClusterVersions <- MCClusterVersions
  Kinds <- MCKinds
  Conversions <- MCConversions
  Emissions <- MCEmissions
  Configs <- MCConfigs
  MaxChanges = 1
INVARIANTS
  EveryIngressRead
