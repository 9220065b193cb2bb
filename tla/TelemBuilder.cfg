SPECIFICATION Spec
CONSTANTS
  Texts <- MCTexts
  Readers = {"sd", "mock"}
  UINT32 = 65536
INVARIANTS
  TypeOK
  AgreesWithLanguage
  AddedAsDescribed
  LastOptionCounts
PROPERTIES
  BuildEndsOnCard
  EveryTurnGetsOn
CHECK_DEADLOCK FALSE
