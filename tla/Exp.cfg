CONSTANTS
  Modulus = 8
  Bases <- MCBases
  Identifiers = {1}
  MaxEnds = 1
  MaxHeight = 5
SPECIFICATION Spec
INVARIANTS
  TypeOK
  ExactTracesGiveThePower
  OddBasesGiveThePower
CHECK_DEADLOCK FALSE
