SPECIFICATION Spec
CONSTANTS
  c1 = c1
  eoa = eoa
  pre = pre
  new = new
  sender = sender
  coinbase = coinbase
  Contracts <- MCOne
  Plain <- MCPlain
  Precompiles <- MCPrecompiles
  NewAccounts <- MCNew
  Sender = sender
  Coinbase = coinbase
  StorageKeys = {1}
  Values = {1}
  CallOps <- MCAllCalls
  CreateOps <- MCCreates
  TouchOps <- MCAllTouches
  CallValues = {1}
  CallDepthLimit = 1025
  Gas = 10
  GasUsed = {10}
  MaxRefundQuotient = 5
  ClearsSchedule = 4
  SetRefund = 5
  ResetRefund = 2
  InitialBalance = 30
  BlockGasLimit = 100
  WithdrawalTables <- MCNoWithdrawals
  RevertsWrites = FALSE
  MaxTxs = 1
  MaxDepth = 2
  MaxWrites = 9
INVARIANTS
  EtherConserved
CHECK_DEADLOCK FALSE
