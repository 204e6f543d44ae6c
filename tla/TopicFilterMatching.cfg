SPECIFICATION ConfigSpec
CONSTANTS
  Characters <- MCCharacters
  Topics <- MCTopics
  Settings <- MCSettings
  Second <- MCSecond
  IntMax <- MCIntMax
INVARIANTS
  AgreesWithStandard
  FailsOnEmptyLevels
  PropertiesTakeEffect
CHECK_DEADLOCK FALSE
