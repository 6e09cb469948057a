CONSTANTS
  Randomness = 2
  Bytes = {0, 1}
  CallData <- MCCallData
  Code <- MCCode
  MaxAddr = 3
  Ranges <- MCRanges
  MaxLength = 2
  Opcodes = {"CALLDATACOPY", "CODECOPY", "RETURNDATACOPY", "LOG", "SHA3", "MSTORE8", "RETURN", "CALL", "IDENTITY", "STOP"}
SPECIFICATION Spec
INVARIANTS
  TypeOK
  MemoryCopied
  DataLoggedAndHashed
  CountersSpent
  IdentityReturnsInput
CHECK_DEADLOCK FALSE
