CONSTANTS
  Bytes <- MCBytes
  PushSize <- MCPushSize
  Codes <- MCCodes
  MaxLength = 3
  MaxHeight = 5
  Claims <- MCClaims
SPECIFICATION Spec
INVARIANTS
  TypeOK
  BytesOfCodes
  OpcodesMarked
  CodesComplete
CHECK_DEADLOCK FALSE
