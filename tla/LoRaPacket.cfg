SPECIFICATION Spec
CONSTANTS
    Headers <- MCHeaders
    Pieces <- MCPieces
    MAX_PAYLOAD = 3
    MaxPieces = 2
    Flips <- MCFlips
INVARIANTS TypeOK CrcDetectsNoise
PROPERTIES AcceptedAsSent
CHECK_DEADLOCK FALSE
