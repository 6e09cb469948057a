CONSTANTS
  Machines <- MCMachines
SPECIFICATION Spec
INVARIANTS
  TypeOK
  ResultsAccepted
PROPERTIES
  ImplementsEvm
