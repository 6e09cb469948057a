SPECIFICATION Spec
CONSTANTS
  Programs <- MCPrograms
  GasLimits = {0, 2, 3, 12, 15, 20, 40}
  CallerGas = 5
  AnyGas = {0, 50}
  StackSize = 3
  WordModulus = 65536
  MaxWords = 15
  MaxAddress = 4095
  MaxU64 = 8191
  MaxLow = 16383
  MaxOffset = 32767
  TwoBytes = 256
  Recent = 3
  Loaded = {0, 33}
  Context <- MCContext
INVARIANTS
  TypeOK
PROPERTIES
  GasSpent
  ImplementsEvm
  CallsEnd
CHECK_DEADLOCK FALSE
