SPECIFICATION Spec
CONSTANTS
  c1 = c1
  eoa = eoa
  pre = pre
  new = new
  sender = sender
  coinbase = coinbase
  Contracts <- MCOne
  Plain <- MCPlain
  Precompiles <- MCNone
  NewAccounts <- MCNone
  Sender = sender
  Coinbase = coinbase
  StorageKeys = {1}
  Values = {1}
  CallOps <- MCCall
  CreateOps <- MCNone
  TouchOps <- MCCounted
  CallValues = {1}
  CallDepthLimit = 1025
  Gas = 10
  GasUsed = {5, 10}
  MaxRefundQuotient = 5
  ClearsSchedule = 4
  SetRefund = 5
  ResetRefund = 2
  InitialBalance = 30
  BlockGasLimit = 15
  WithdrawalTables <- MCWithdrawalTables
  RevertsWrites = FALSE
  MaxTxs = 2
  MaxDepth = 2
  MaxWrites = 10
INVARIANTS
  TypeOK
  RowsCounted
CHECK_DEADLOCK FALSE
