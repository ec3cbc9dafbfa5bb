SPECIFICATION Spec
CONSTANTS
  alice = alice
  bob = bob
  Aida = Aida
  Chat <- TwoChats
  MaxHistory = 4
  Models <- LocalOnly
  MaxPrompts = 2
  MaxFaults = 1
CHECK_DEADLOCK FALSE
SYMMETRY Terminals
INVARIANTS
  TypeOK
  WorkBounded
  HandledInOrder
