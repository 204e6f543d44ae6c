SPECIFICATION Spec
CONSTANTS
  Keys <- MCKeys
  Matches <- MCMatches
  InputOrder <- MCInputOrder
  Outputs <- MCOutputs
  OutNames <- MCOutNames
  Values <- MCValues
  MaxRows = 2
  MaxSamples = 2
INVARIANTS
  ConfiguredIsFound
  LastAliasDecides
  SamplesAccounted
CHECK_DEADLOCK FALSE
