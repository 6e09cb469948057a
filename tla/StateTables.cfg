SPECIFICATION ReplaySpec
CONSTANTS
  Keys <- MCTablesKeys
  Shapes <- MCTables
  Values = {0, 1}
  RwCounters = {1, 2, 3}
  IdBase = 4
  AddrBase = 4
  FieldBase = 8
  SkeyShift = 2
  RwcBase = 8
  LoBase = 2
  ByteMax = 1
  MaxAddress = 2
  MaxPtr = 2
  MaxTxId = 3
  StartInside = FALSE
INVARIANTS
  TypeOK
  GroupedByKey
  ReadsLatest
  StackDiscipline
  ReceiptsNumbered
  FinalTrie
  CommittedValue
PROPERTIES
  ImplementsMemory
CHECK_DEADLOCK FALSE
