CONSTANTS
  MaxWithdrawals = 3
  FirstIds <- MCFirstIds
  Recipients = {v1, v2}
  Amounts <- MCAmounts
SPECIFICATION WithdrawalsSpec
INVARIANTS RootOfWithdrawals
PROPERTIES FullBlocksAccepted
CHECK_DEADLOCK FALSE
