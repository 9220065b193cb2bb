SPECIFICATION Spec
CONSTANTS
  Texts <- CommentLines
  Readers = {"mock"}
  UINT32 = 65536
PROPERTIES
  BuildEnds
CHECK_DEADLOCK FALSE
