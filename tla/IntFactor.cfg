SPECIFICATION Spec
CONSTANTS
  Texts <- IntegerScale
  Readers = {"sd"}
  UINT32 = 65536
INVARIANTS
  FactorAsWritten
CHECK_DEADLOCK FALSE
