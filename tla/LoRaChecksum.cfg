SPECIFICATION Spec
CONSTANTS
    Headers <- MCHeaders
    Pieces <- MCPieces
    MAX_PAYLOAD = 3
    MaxPieces = 2
    Flips <- MCFlips
INVARIANT SerializedIsValid
CHECK_DEADLOCK FALSE
