SPECIFICATION Spec
CONSTANTS
  c1 = c1
  eoa = eoa
  pre = pre
  new = new
  sender = sender
  coinbase = coinbase
  Contracts <- MCOne
  Plain <- MCNone
  Precompiles <- MCNone
  NewAccounts <- MCNone
  Sender = sender
  Coinbase = coinbase
  StorageKeys = {1}
  Values = {0, 1}
  CallOps <- MCContextCalls
  CreateOps <- MCNone
  TouchOps <- MCNone
  CallValues = {1}
  CallDepthLimit = 3
  Gas = 10
  GasUsed = {10}
  MaxRefundQuotient = 5
  ClearsSchedule = 4
  SetRefund = 5
  ResetRefund = 2
  InitialBalance = 30
  BlockGasLimit = 100
  WithdrawalTables <- MCWithdrawalTables
  RevertsWrites = FALSE
  MaxTxs = 1
  MaxDepth = 3
  MaxWrites = 11
INVARIANTS
  UniqueCounters
  RowsAreHistory
  RefundNonNegative
PROPERTIES
  ImplementsSnapshots
CHECK_DEADLOCK FALSE
