CONSTANTS
  MaxTxs = 3
  MaxCalldata = 5
  Bytes <- MCBytes
  Payloads <- MCPayloads
  Strangers <- MCStrangers
  Misstated <- MCMisstated
SPECIFICATION Spec
INVARIANTS TypeOK LeadingCalldata BuilderPasses
PROPERTIES DealsCalldata
CHECK_DEADLOCK FALSE
